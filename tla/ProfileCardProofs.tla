-------------------------- MODULE ProfileCardProofs --------------------------
(***************************************************************************)
(* Proofs about ProfileCard, for any number of photos and of loads under   *)
(* way.  The photo shown belongs to the bar that is lit because every load *)
(* that is not cancelled is the view's own (OnlyOwnLoads) and asks for the *)
(* photo of displayIndex, and displayIndex is only in bounds because each  *)
(* turn lands in the ring (RingIsClosed).                                  *)
(***************************************************************************)
EXTENDS ProfileCard, TLAPS

\* displayIndex names a photo; with no photos it is still 0.
IndexInRing ==
  ~crashed => IF names = <<>> THEN index = 0 ELSE InBounds(index, Len(names))

\* Every load that may still set the image is the one the view knows, and it
\* fetches the photo of displayIndex.
OnlyOwnLoads ==
  names # <<>> => \A l \in Loads :
    load[l].state # "free" /\ ~load[l].cancelled =>
      l = current /\ load[l].url = names[index + 1]

\* A card without photos loads nothing.
NothingToLoad == names = <<>> => \A l \in Loads : load[l].state = "free"

CardInv ==
  /\ TypeOK
  /\ IndexInRing
  /\ OnlyOwnLoads
  /\ NothingToLoad
  /\ PhotoBelongsToBar
  /\ CrashOnlyWithoutPhotos

-----------------------------------------------------------------------------
\* createUserProfileViewModel makes a list of photos of any profile.
LEMMA ImageNamesArePhotos ==
  ASSUME NEW p \in [1..3 -> URLs \cup {NilURL, EmptyURL}]
  PROVE  ImageNames(p) \in Seq(URLs)
<1>1. \A i \in 1..3 : IfAny(p[i]) \in Seq(URLs)
  BY DEF IfAny
<1> QED
  BY <1>1 DEF ImageNames

\* From a photo of a ring that has any, a turn either way leads to a photo.
LEMMA RingIsClosed ==
  ASSUME NEW count \in Nat, NEW i \in Int, InBounds(i, count)
  PROVE  InBounds(NextIndex(i, count), count) /\ InBounds(PreviousIndex(i, count), count)
BY DEF InBounds, NextIndex, PreviousIndex

\* A turn and a turn back end where they began.
LEMMA TurnsCancelOut ==
  ASSUME NEW count \in Nat, NEW i \in Int, InBounds(i, count)
  PROVE  /\ PreviousIndex(NextIndex(i, count), count) = i
         /\ NextIndex(PreviousIndex(i, count), count) = i
BY DEF InBounds, NextIndex, PreviousIndex

-----------------------------------------------------------------------------
LEMMA CardInit == Init => CardInv
<1> SUFFICES ASSUME Init PROVE CardInv
  OBVIOUS
<1>1. names \in Seq(URLs)
  BY ImageNamesArePhotos DEF Init, Profiles
<1>2. CASE names = <<>>
  <2>a. Unused \in LoadType
    BY DEF LoadType, LoadStates, Unused
  <2>b. load = [l \in Loads |-> Unused]
    BY <1>2 DEF Init
  <2>c. load \in [Loads -> LoadType]
    BY <2>a, <2>b
  <2>1. TypeOK
    <3>1. /\ index = 0 /\ lit = {} /\ image \in {StockPhoto, NoPhoto}
          /\ current = NoLoad /\ place = "centre" /\ crashed = FALSE
      BY <1>2 DEF Init
    <3>2. index \in Int /\ lit \subseteq Nat
      BY <3>1
    <3>3. place \in {"centre", "dragged", "aside", "away", "removed"} /\ crashed \in BOOLEAN
      BY <3>1, Zenon
    <3>4. image \in URLs \cup {NoPhoto, StockPhoto} /\ current \in Loads \cup {NoLoad}
      BY <3>1
    <3> QED
      BY <1>1, <2>c, <3>2, <3>3, <3>4 DEF TypeOK
  <2>2. NothingToLoad
    BY <2>b DEF NothingToLoad, Unused
  <2>3. IndexInRing /\ OnlyOwnLoads /\ PhotoBelongsToBar /\ CrashOnlyWithoutPhotos
    BY <1>2 DEF Init, IndexInRing, OnlyOwnLoads, PhotoBelongsToBar, CrashOnlyWithoutPhotos
  <2> QED
    BY <2>1, <2>2, <2>3 DEF CardInv
<1>3. CASE names # <<>>
  <2>1. Len(names) > 0 /\ names[1] \in URLs
    BY <1>1, <1>3
  <2> DEFINE first == [state |-> "fetching", url |-> names[1], cancelled |-> FALSE]
  <2>a. first \in LoadType /\ Unused \in LoadType
    BY <2>1 DEF LoadType, LoadStates, Unused
  <2>b. load = [l \in Loads |-> IF l = current THEN first ELSE Unused]
    BY <1>3 DEF Init
  <2>c. load \in [Loads -> LoadType]
    <3> HIDE DEF first
    <3> QED
      BY <2>a, <2>b
  <2>2. TypeOK
    <3>1. /\ index = 0 /\ lit = {0} /\ image = NoPhoto
          /\ current \in Loads /\ place = "centre" /\ crashed = FALSE
      BY <1>3 DEF Init
    <3>2. index \in Int /\ lit \subseteq Nat
      BY <3>1
    <3>3. place \in {"centre", "dragged", "aside", "away", "removed"} /\ crashed \in BOOLEAN
      BY <3>1, Zenon
    <3> QED
      BY <1>1, <2>c, <3>1, <3>2, <3>3 DEF TypeOK
  <2>3. IndexInRing /\ OnlyOwnLoads /\ NothingToLoad
    <3>1. IndexInRing
      BY <1>1, <1>3, <2>1 DEF Init, IndexInRing, InBounds
    <3>2. OnlyOwnLoads
      <4>1. \A l \in Loads : load[l] = IF l = current THEN first ELSE Unused
        BY <2>b
      <4>2. first.url = names[index + 1]
        BY DEF Init
      <4>3. Unused.state = "free"
        BY DEF Unused
      <4> QED
        BY <4>1, <4>2, <4>3 DEF OnlyOwnLoads
    <3>3. NothingToLoad
      BY <1>3 DEF NothingToLoad
    <3> QED
      BY <3>1, <3>2, <3>3
  <2>4. PhotoBelongsToBar /\ CrashOnlyWithoutPhotos
    BY <1>3 DEF Init, PhotoBelongsToBar, CrashOnlyWithoutPhotos
  <2> QED
    BY <2>2, <2>3, <2>4 DEF CardInv
<1> QED
  BY <1>2, <1>3

\* What setting displayIndex to a place of the ring does; the same index is
\* set on a card without photos, and the look-up fails.
LEMMA DisplayKeeps ==
  ASSUME CardInv, ~crashed, NEW i \in Int, Display(i), UNCHANGED <<names, place>>,
         names # <<>> => InBounds(i, Len(names))
  PROVE  CardInv'
<1>1. CASE names = <<>>
  <2>1. ~InBounds(i, Len(names))
    BY <1>1 DEF InBounds
  <2>2. crashed' = TRUE /\ UNCHANGED photoVars /\ index' = i
    BY <2>1 DEF Display
  <2> QED
    BY <1>1, <2>2
    DEF CardInv, TypeOK, IndexInRing, OnlyOwnLoads, NothingToLoad,
        PhotoBelongsToBar, CrashOnlyWithoutPhotos, photoVars
<1>2. CASE names # <<>>
  <2>1. InBounds(i, Len(names)) /\ names \in Seq(URLs) /\ names' = names
    BY <1>2 DEF CardInv, TypeOK
  <2>2. SetImage(names[i + 1]) /\ lit' = {i} /\ crashed' = crashed /\ index' = i
    BY <2>1 DEF Display
  <2>3. names[i + 1] \in URLs /\ i \in Nat
    BY <2>1 DEF InBounds
  <2>4. PICK l \in Loads :
          /\ load' = [Cancel(load, current) EXCEPT
               ![l] = [state |-> "fetching", url |-> names[i + 1], cancelled |-> FALSE]]
          /\ current' = l
          /\ image' = NoPhoto
    BY <2>2 DEF SetImage
  <2>5. \A k \in Loads :
          \/ Cancel(load, current)[k] = load[k] /\ k # current
          \/ Cancel(load, current)[k].state = "free"
          \/ Cancel(load, current)[k].cancelled
    BY LoadsAssumption DEF Cancel, CardInv, TypeOK, LoadType, Unused
  <2>6. Cancel(load, current) \in [Loads -> LoadType]
    BY DEF Cancel, CardInv, TypeOK, LoadType, Unused, LoadStates
  <2>7. TypeOK'
    BY <2>1, <2>2, <2>3, <2>4, <2>6 DEF CardInv, TypeOK, LoadType, LoadStates
  <2>8. ASSUME NEW k \in Loads, load'[k].state # "free", ~load'[k].cancelled
        PROVE  k = current' /\ load'[k].url = names'[index' + 1]
    <3>1. CASE k = l
      BY <2>1, <2>2, <2>4, <2>6, <3>1
    <3>2. CASE k # l
      <4>1. load'[k] = Cancel(load, current)[k]
        BY <2>4, <2>6, <3>2
      <4>2. Cancel(load, current)[k] = load[k] /\ k # current
        BY <2>5, <2>8, <4>1
      <4> QED
        BY <1>2, <2>8, <4>1, <4>2 DEF CardInv, OnlyOwnLoads
    <3> QED
      BY <3>1, <3>2
  <2>9. OnlyOwnLoads'
    BY <2>8 DEF OnlyOwnLoads
  <2> QED
    BY <1>2, <2>1, <2>2, <2>4, <2>7, <2>9
    DEF CardInv, IndexInRing, NothingToLoad, PhotoBelongsToBar, CrashOnlyWithoutPhotos
<1> QED
  BY <1>1, <1>2

LEMMA CardStep == CardInv /\ [Next]_vars => CardInv'
<1> SUFFICES ASSUME CardInv, [Next]_vars PROVE CardInv'
  OBVIOUS
<1> USE DEF CardInv
<1>1. ASSUME ~crashed, TapRight PROVE CardInv'
  <2>1. NextIndex(index, Len(names)) \in Int
    BY DEF TypeOK, NextIndex
  <2>2. names # <<>> => InBounds(NextIndex(index, Len(names)), Len(names))
    BY <1>1, RingIsClosed DEF TypeOK, IndexInRing
  <2> QED
    BY <1>1, <2>1, <2>2, DisplayKeeps DEF TapRight
<1>2. ASSUME ~crashed, TapLeft PROVE CardInv'
  <2>1. PreviousIndex(index, Len(names)) \in Int
    BY DEF TypeOK, PreviousIndex
  <2>2. names # <<>> => InBounds(PreviousIndex(index, Len(names)), Len(names))
    BY <1>2, RingIsClosed DEF TypeOK, IndexInRing
  <2> QED
    BY <1>2, <2>1, <2>2, DisplayKeeps DEF TapLeft
<1>3. ASSUME Drag \/ EndDrag \/ CancelDrag \/ Remove PROVE CardInv'
  <2>1. UNCHANGED <<names, index, photoVars, crashed>>
    BY <1>3 DEF Drag, EndDrag, CancelDrag, Remove
  <2>2. place' \in {"centre", "dragged", "aside", "away", "removed"}
    BY <1>3 DEF Drag, EndDrag, CancelDrag, Remove
  <2>3. TypeOK'
    BY <2>1, <2>2 DEF photoVars, TypeOK
  <2> QED
    BY <2>1, <2>3
    DEF photoVars, IndexInRing, OnlyOwnLoads, NothingToLoad, PhotoBelongsToBar,
        CrashOnlyWithoutPhotos
<1>4. ASSUME NEW l \in Loads, Fetched(l) PROVE CardInv'
  <2>1. PICK outcome \in {"arrived", "failed"} : load' = [load EXCEPT ![l].state = outcome]
    BY <1>4 DEF Fetched
  <2>2. TypeOK' /\ IndexInRing' /\ PhotoBelongsToBar' /\ CrashOnlyWithoutPhotos'
    BY <1>4, <2>1
    DEF Fetched, TypeOK, LoadType, LoadStates, IndexInRing, PhotoBelongsToBar, CrashOnlyWithoutPhotos
  <2>3. OnlyOwnLoads'
    BY <1>4, <2>1 DEF Fetched, TypeOK, LoadType, OnlyOwnLoads
  <2>4. NothingToLoad'
    BY <1>4, <2>1 DEF Fetched, TypeOK, LoadType, NothingToLoad
  <2> QED
    BY <2>2, <2>3, <2>4
<1>5. ASSUME NEW l \in Loads, Answered(l) PROVE CardInv'
  <2>1. names # <<>> /\ load[l].state # "free"
    BY <1>5 DEF Answered, NothingToLoad
  <2>2. image' # image => image' = names[index + 1]
    BY <1>5, <2>1 DEF Answered, OnlyOwnLoads
  <2>3. names[index + 1] \in URLs \/ image' = image \/ crashed
    BY <2>1 DEF TypeOK, IndexInRing, InBounds
  <2>4. ~crashed
    BY <2>1 DEF CrashOnlyWithoutPhotos
  <2>5. TypeOK'
    BY <1>5, <2>2, <2>3, <2>4 DEF Answered, TypeOK, LoadType, Unused, LoadStates
  <2>6. OnlyOwnLoads'
    BY <1>5 DEF Answered, TypeOK, OnlyOwnLoads, Unused
  <2>7. PhotoBelongsToBar'
    BY <1>5, <2>2 DEF Answered, PhotoBelongsToBar
  <2> QED
    BY <1>5, <2>1, <2>5, <2>6, <2>7
    DEF Answered, IndexInRing, NothingToLoad, CrashOnlyWithoutPhotos
<1>6. CASE UNCHANGED vars
  BY <1>6
  DEF vars, TypeOK, IndexInRing, OnlyOwnLoads, NothingToLoad, PhotoBelongsToBar,
      CrashOnlyWithoutPhotos
<1> QED
  BY <1>1, <1>2, <1>3, <1>4, <1>5, <1>6 DEF Next

LEMMA CardAlways == Spec => []CardInv
BY CardInit, CardStep, PTL DEF Spec

-----------------------------------------------------------------------------
\* Type correctness, for any sets of photos and of loads.
THEOREM CardTypeCorrect == Spec => []TypeOK
BY CardAlways, PTL DEF CardInv

\* However many loads overlap and however they answer, the card never shows a
\* photo beside the bar of another (setDisplayIndexObserver, sd_setImage).
THEOREM PhotoAlwaysBelongsToBar == Spec => []PhotoBelongsToBar
BY CardAlways, PTL DEF CardInv

\* The look-up in displayIndex's didSet fails only without photos.
THEOREM CrashesOnlyWithoutPhotos == Spec => []CrashOnlyWithoutPhotos
BY CardAlways, PTL DEF CardInv

\* getNextDisplay and getPreviousDisplay undo each other, from every photo of
\* any number of photos.
THEOREM TurningBackAlwaysReturns == Spec => []TurningBackReturns
<1>1. CardInv => TurningBackReturns
  BY TurnsCancelOut DEF CardInv, TypeOK, TurningBackReturns
<1> QED
  BY <1>1, CardAlways, PTL
=============================================================================
