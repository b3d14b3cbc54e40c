--------------------------- MODULE HomeDeckProofs ---------------------------
(***************************************************************************)
(* Proofs about HomeDeck, for any users, ages and number of queries: what  *)
(* Refresh does alone.  Its HUD covers the button until the cards are      *)
(* there (QueriesBehindHud), so a press finds no query running, and it     *)
(* empties the deck; from then on only one query of a Refresh has cards or *)
(* is going to have some (OneLiveRefresh).  Queries of getByCurrentUser    *)
(* come between at any time, and ids are used again.                       *)
(***************************************************************************)
EXTENDS HomeDeck, ProgressHUDProofs

\* A Refresh whose cards are in the deck or still to come.
LiveRefresh(q) ==
  query[q].origin = "refresh" /\ (q \in Running \/ \E u \in Users : <<q, u>> \in cards)

OneLiveRefresh == \A p, q \in Queries : LiveRefresh(p) /\ LiveRefresh(q) => p = q

\* The screens that cover the deck are opened from it.
RefreshInFront == \A q \in Running : query[q].origin = "refresh" => front = "deck"

DeckInv == TypeOK /\ QueriesBehindHud /\ OneLiveRefresh /\ RefreshInFront

\* What is asked for a query, and what a query is.
Query == [state : QueryStates, origin : Origins, range : Ranges \cup {NoRange}]

-----------------------------------------------------------------------------
(* What the operators do.                                                  *)

LEMMA OwnViewType ==
  ASSUME TypeOK
  PROVE  OwnView \in OwnData /\ OwnView.range \in Ranges \cup {NoRange}
<1>1. OwnView \in OwnData
  <2>1. saves \in Seq(Write) /\ own \in OwnData
    BY DEF TypeOK
  <2>2. CASE saves = <<>>
    BY <2>1, <2>2 DEF OwnView
  <2>3. CASE saves # <<>>
    <3>1. Len(saves) \in 1..Len(saves)
      BY <2>1, <2>3
    <3>2. saves[Len(saves)] \in Write
      BY <2>1, <3>1
    <3> QED
      BY <2>3, <3>2 DEF OwnView, Write
  <2> QED
    BY <2>2, <2>3
<1> QED
  BY <1>1 DEF OwnData, Registered

\* A settings screen that goes leaves its calls as they are, but for here.
LEMMA LeftType ==
  ASSUME NEW s \in Seq(Write)
  PROVE  Left(s) \in Seq(Write) /\ Len(Left(s)) = Len(s)
<1> DEFINE left(w) == [w EXCEPT !.here = FALSE]
<1>1. \A w \in Write : left(w) \in Write
  BY DEF Write
<1>2. Len(s) \in Nat /\ DOMAIN s = 1..Len(s) /\ \A i \in 1..Len(s) : s[i] \in Write
  OBVIOUS
<1>3. Left(s) = [i \in 1..Len(s) |-> left(s[i])]
  BY <1>2 DEF Left
<1> HIDE DEF left
<1>4. Left(s) \in [1..Len(s) -> Write]
  BY <1>1, <1>2, <1>3
<1> QED
  BY <1>2, <1>3, <1>4

\* A query starts under an id that no query that runs has, with its HUD coming up;
\* or nothing starts.
LEMMA Started ==
  ASSUME TypeOK, NEW r \in Ranges \cup {NoRange, Nil}, NEW origin \in Origins,
         NEW kept \in SUBSET (Queries \X Users), StartQuery(r, origin, kept)
  PROVE  \/ UNCHANGED <<query, hud>>
         \/ \E q \in Queries :
              /\ q \notin Running
              /\ query'[q] \in Query /\ query'[q].origin = origin
              /\ hud'[q] \in HudType /\ BlocksTouches(hud'[q]) /\ ~hud'[q].later
              /\ \A p \in Queries \ {q} : query'[p] = query[p] /\ hud'[p] = hud[p]
              /\ query' \in [Queries -> Query] /\ hud' \in [Queries -> HudType]
<1>1. CASE r \in {Nil, NoRange}
  BY <1>1 DEF StartQuery
<1>2. CASE r \notin {Nil, NoRange}
  <2> DEFINE new == [state |-> "running", origin |-> origin, range |-> r]
             up  == Show(NewHud)
  <2>1. PICK q \in Queries : /\ Free(q, kept)
                             /\ query' = [query EXCEPT ![q] = new]
                             /\ hud' = [hud EXCEPT ![q] = up]
    BY <1>2 DEF StartQuery
  <2>2. new \in Query /\ new.origin = origin
    BY <1>2 DEF Query, QueryStates
  <2>3. up \in HudType /\ BlocksTouches(up) /\ ~up.later
    BY DEF Show, NewHud, Visible, HudType, HudPhases, BlocksTouches
  <2>4. query \in [Queries -> Query] /\ hud \in [Queries -> HudType]
    BY DEF TypeOK, Query
  <2>5. q \notin Running
    BY <2>1 DEF Free, Running
  <2> HIDE DEF new, up
  <2>6. /\ query'[q] = new /\ hud'[q] = up
        /\ \A p \in Queries \ {q} : query'[p] = query[p] /\ hud'[p] = hud[p]
        /\ query' \in [Queries -> Query] /\ hud' \in [Queries -> HudType]
    BY <2>1, <2>2, <2>3, <2>4
  <2>7. /\ query'[q] \in Query /\ query'[q].origin = origin
        /\ hud'[q] \in HudType /\ BlocksTouches(hud'[q]) /\ ~hud'[q].later
    BY <2>2, <2>3, <2>6
  <2> QED
    BY <2>5, <2>6, <2>7
<1> QED
  BY <1>1, <1>2

\* The deck can be touched only when no query runs.
LEMMA TouchedWhenQuiet == QueriesBehindHud /\ Touchable => Running = {}
BY DEF QueriesBehindHud, Touchable, Running

-----------------------------------------------------------------------------
(* The types.                                                              *)

LEMMA DeckTypeInit == Init => TypeOK
<1> SUFFICES ASSUME Init PROVE TypeOK
  OBVIOUS
<1>1. fetching \in 0..MaxFetches
  BY BoundsAssumption DEF Init
<1>2. saves \in Seq(Write) /\ Len(saves) <= MaxSaves
  BY BoundsAssumption DEF Init
<1>3. query \in [Queries -> Query] /\ hud \in [Queries -> HudType]
  BY DEF Init, NoQuery, Query, QueryStates, Origins, NewHud, HudType, HudPhases
<1> QED
  BY <1>1, <1>2, <1>3 DEF Init, TypeOK, Query

LEMMA DeckTypeStep == TypeOK /\ [Next]_vars => TypeOK'
<1> SUFFICES ASSUME TypeOK, [Next]_vars PROVE TypeOK'
  OBVIOUS
<1> USE DEF remoteVars, deckVars
<1>1. /\ query \in [Queries -> Query] /\ hud \in [Queries -> HudType]
      /\ saves \in Seq(Write) /\ fetching \in Nat /\ Len(saves) <= MaxSaves
  BY DEF TypeOK, Query
<1>2. CASE PressRefresh
  <2>1. user \in Ranges \cup {NoRange, Nil} /\ "refresh" \in Origins
    BY DEF TypeOK, Origins
  <2>2. query' \in [Queries -> Query] /\ hud' \in [Queries -> HudType]
    BY <1>1, <1>2, <2>1, Started DEF PressRefresh
  <2> QED
    BY <1>2, <2>2 DEF PressRefresh, TypeOK, Query
<1>3. CASE UserAnswered
  <2>1. OwnView.range \in Ranges \cup {NoRange} /\ "user" \in Origins /\ cards \subseteq Queries \X Users
    BY OwnViewType DEF TypeOK, Origins
  <2>2. query' \in [Queries -> Query] /\ hud' \in [Queries -> HudType]
    BY <1>1, <1>3, <2>1, Started DEF UserAnswered
  <2>3. fetching' \in 0..MaxFetches
    BY <1>3, BoundsAssumption DEF UserAnswered, TypeOK
  <2> QED
    BY <1>3, <2>1, <2>2, <2>3 DEF UserAnswered, TypeOK, Query
<1>4. CASE UserFailed
  <2>1. fetching' \in 0..MaxFetches
    BY <1>4, BoundsAssumption DEF UserFailed, TypeOK
  <2> QED
    BY <1>4, <2>1 DEF UserFailed, TypeOK
<1>5. CASE \E a \in Ages, r \in Ranges : SaveData(a, r)
  <2> PICK a \in Ages, r \in Ranges : SaveData(a, r)
    BY <1>5
  <2> DEFINE w == [data |-> [age |-> a, range |-> r], here |-> TRUE]
  <2>1. w \in Write
    BY DEF Write, OwnData
  <2> HIDE DEF w
  <2>2. saves' = Append(saves, w)
    BY DEF SaveData, w
  <2>3. saves' \in Seq(Write) /\ Len(saves') = Len(saves) + 1 /\ Len(saves) \in Nat
    BY <1>1, <2>1, <2>2
  <2>4. Len(saves') <= MaxSaves
    BY <2>3, BoundsAssumption DEF SaveData
  <2> QED
    BY <2>3, <2>4 DEF SaveData, TypeOK
<1>6. CASE SettingsSaved \/ SettingsSavedLate \/ SaveFailed
  <2>1. saves # <<>> /\ saves' \in {Tail(saves), Left(Tail(saves))}
    BY <1>6 DEF SettingsSaved, SettingsSavedLate, SaveFailed
  <2>2. saves' \in Seq(Write) /\ Head(saves).data \in OwnData /\ Len(saves') = Len(saves) - 1
    <3>1. Tail(saves) \in Seq(Write) /\ Head(saves) \in Write /\ Len(Tail(saves)) = Len(saves) - 1
      BY <1>1, <2>1
    <3>2. Left(Tail(saves)) \in Seq(Write) /\ Len(Left(Tail(saves))) = Len(Tail(saves))
      BY <3>1, LeftType
    <3> QED
      BY <2>1, <3>1, <3>2 DEF Write
  <2>3. Len(saves') <= MaxSaves
    BY <1>1, <2>2, BoundsAssumption
  <2>4. fetching' \in 0..MaxFetches /\ cards' \subseteq Queries \X Users
    BY <1>6, BoundsAssumption
       DEF SettingsSaved, SettingsSavedLate, SaveFailed, GetByCurrentUser, TypeOK
  <2>5. own' \in OwnData
    BY <1>6, <2>2 DEF SettingsSaved, SettingsSavedLate, SaveFailed, TypeOK
  <2> QED
    BY <1>6, <2>2, <2>3, <2>4, <2>5 DEF SettingsSaved, SettingsSavedLate, SaveFailed, TypeOK
<1>7. CASE \E q \in Queries : QueryAnswered(q) \/ QueryFailed(q)
  <2> PICK q \in Queries : QueryAnswered(q) \/ QueryFailed(q)
    BY <1>7
  <2>1. query' \in [Queries -> Query]
    BY <1>1 DEF QueryAnswered, QueryFailed, Query, QueryStates
  <2>2. hud' \in [Queries -> HudType]
    <3>1. Dismiss(hud[q]) \in HudType
      BY <1>1, HudTypeKept
    <3> QED
      BY <1>1, <3>1 DEF QueryAnswered, QueryFailed
  <2>3. cards' \subseteq Queries \X Users
    <3>1. Matches(query[q].range) \subseteq Users
      BY MeAssumption DEF Matches, Others
    <3> QED
      BY <3>1 DEF QueryAnswered, QueryFailed, TypeOK
  <2> QED
    BY <2>1, <2>2, <2>3 DEF QueryAnswered, QueryFailed, TypeOK, Query
<1>8. CASE \E q \in Queries : HudAnimated(q)
  <2> PICK q \in Queries : HudAnimated(q)
    BY <1>8
  <2>1. AnimationFinished(hud[q]) \in HudType
    BY <1>1, HudTypeKept
  <2>2. hud' \in [Queries -> HudType]
    BY <1>1, <2>1 DEF HudAnimated
  <2> QED
    BY <2>2 DEF HudAnimated, TypeOK
<1>9. CASE PressSettings \/ CloseSettings \/ Logout
  <2>1. saves' \in {saves, Left(saves)}
    BY <1>9 DEF PressSettings, CloseSettings, Logout
  <2>2. saves' \in Seq(Write) /\ Len(saves') <= MaxSaves
    BY <1>1, <2>1, LeftType
  <2> QED
    BY <1>9, <2>2 DEF PressSettings, CloseSettings, Logout, TypeOK
<1>10. CASE \E u \in Others, a \in Ages : OthersChange(u, a)
  BY <1>10 DEF OthersChange, TypeOK
<1>11. CASE UNCHANGED vars
  BY <1>11 DEF vars, TypeOK
<1> QED
  BY <1>2, <1>3, <1>4, <1>5, <1>6, <1>7, <1>8, <1>9, <1>10, <1>11 DEF Next

-----------------------------------------------------------------------------
(* The queries and their cards.                                            *)

LEMMA QueriesStep ==
  TypeOK /\ QueriesBehindHud /\ OneLiveRefresh /\ RefreshInFront /\ [Next]_vars
    => QueriesBehindHud' /\ OneLiveRefresh' /\ RefreshInFront'
<1> DEFINE Goal == QueriesBehindHud' /\ OneLiveRefresh' /\ RefreshInFront'
<1> SUFFICES ASSUME TypeOK, QueriesBehindHud, OneLiveRefresh, RefreshInFront, [Next]_vars
             PROVE  Goal
  OBVIOUS
<1> USE DEF remoteVars, deckVars
<1>1. query \in [Queries -> Query] /\ hud \in [Queries -> HudType]
  BY DEF TypeOK, Query
<1>2. CASE UNCHANGED <<query, hud, cards, front>>
  BY <1>2 DEF QueriesBehindHud, OneLiveRefresh, LiveRefresh, RefreshInFront, Running
<1>3. CASE PressRefresh
  <2>1. front = "deck" /\ front' = "deck" /\ cards' = {} /\ Running = {}
    BY <1>3, TouchedWhenQuiet DEF PressRefresh, Touchable
  <2>2. user \in Ranges \cup {NoRange, Nil} /\ "refresh" \in Origins
    BY DEF TypeOK, Origins
  <2>3. \/ UNCHANGED <<query, hud>>
        \/ \E q \in Queries :
             /\ BlocksTouches(hud'[q]) /\ ~hud'[q].later
             /\ \A p \in Queries \ {q} : query'[p] = query[p]
    BY <1>3, <2>2, Started DEF PressRefresh
  <2> QED
    BY <2>1, <2>3 DEF QueriesBehindHud, OneLiveRefresh, LiveRefresh, RefreshInFront, Running
<1>4. CASE UserAnswered
  <2>1. OwnView.range \in Ranges \cup {NoRange} /\ "user" \in Origins /\ cards \subseteq Queries \X Users
    BY OwnViewType DEF TypeOK, Origins
  <2>2. \/ UNCHANGED <<query, hud>>
        \/ \E q \in Queries :
             /\ query'[q].origin = "user" /\ BlocksTouches(hud'[q]) /\ ~hud'[q].later
             /\ \A p \in Queries \ {q} : query'[p] = query[p] /\ hud'[p] = hud[p]
    BY <1>4, <2>1, Started DEF UserAnswered
  <2>3. cards' = cards /\ front' = front
    BY <1>4 DEF UserAnswered
  <2>4. CASE UNCHANGED <<query, hud>>
    BY <1>2, <2>3, <2>4
  <2>5. CASE \E q \in Queries :
               /\ query'[q].origin = "user" /\ BlocksTouches(hud'[q]) /\ ~hud'[q].later
               /\ \A p \in Queries \ {q} : query'[p] = query[p] /\ hud'[p] = hud[p]
    <3> PICK q \in Queries :
               /\ query'[q].origin = "user" /\ BlocksTouches(hud'[q]) /\ ~hud'[q].later
               /\ \A p \in Queries \ {q} : query'[p] = query[p] /\ hud'[p] = hud[p]
      BY <2>5
    <3>1. \A p \in Queries : LiveRefresh(p)' => p # q /\ LiveRefresh(p)
      BY <2>3 DEF LiveRefresh, Running
    <3>2. OneLiveRefresh'
      BY <3>1 DEF OneLiveRefresh
    <3>3. QueriesBehindHud' /\ RefreshInFront'
      BY <2>3 DEF QueriesBehindHud, RefreshInFront, Running
    <3> QED
      BY <3>2, <3>3
  <2> QED
    BY <2>2, <2>4, <2>5
<1>5. CASE \E q \in Queries : QueryAnswered(q) \/ QueryFailed(q)
  <2> PICK q \in Queries : QueryAnswered(q) \/ QueryFailed(q)
    BY <1>5
  <2>1. /\ q \in Running /\ front' = front
        /\ query'[q].state = "answered" /\ query'[q].origin = query[q].origin
        /\ \A p \in Queries \ {q} : query'[p] = query[p] /\ hud'[p] = hud[p]
    BY <1>1 DEF QueryAnswered, QueryFailed, Running, Query
  <2>2. \A p \in Queries, u \in Users : <<p, u>> \in cards' => p = q \/ <<p, u>> \in cards
    BY DEF QueryAnswered, QueryFailed
  <2>3. \A p \in Queries : LiveRefresh(p)' => LiveRefresh(p)
    BY <2>1, <2>2 DEF LiveRefresh, Running
  <2>4. OneLiveRefresh'
    BY <2>3 DEF OneLiveRefresh
  <2>5. QueriesBehindHud' /\ RefreshInFront'
    BY <2>1 DEF QueriesBehindHud, RefreshInFront, Running
  <2> QED
    BY <2>4, <2>5
<1>6. CASE \E q \in Queries : HudAnimated(q)
  <2> PICK q \in Queries : HudAnimated(q)
    BY <1>6
  <2>1. query' = query /\ cards' = cards /\ front' = front
        /\ \A p \in Queries \ {q} : hud'[p] = hud[p]
    BY <1>1 DEF HudAnimated
  <2>2. q \in Running => BlocksTouches(hud'[q]) /\ ~hud'[q].later
    BY <1>1 DEF HudAnimated, QueriesBehindHud, Running, BlocksTouches, AnimationFinished,
                Transitioning, CleanUpAfterPresentation, HudType
  <2> QED
    BY <2>1, <2>2 DEF QueriesBehindHud, OneLiveRefresh, LiveRefresh, RefreshInFront, Running
<1>7. CASE PressSettings
  <2>1. Running = {} /\ UNCHANGED <<query, hud, cards>>
    BY <1>7, TouchedWhenQuiet DEF PressSettings
  <2> QED
    BY <2>1 DEF QueriesBehindHud, OneLiveRefresh, LiveRefresh, RefreshInFront, Running
<1>8. CASE CloseSettings \/ Logout
  <2>1. front = "settings" /\ UNCHANGED <<query, hud, cards>>
    BY <1>8 DEF CloseSettings, Logout
  <2> QED
    BY <2>1 DEF QueriesBehindHud, OneLiveRefresh, LiveRefresh, RefreshInFront, Running
<1>9. CASE SettingsSaved \/ SettingsSavedLate
  <2>1. UNCHANGED <<query, hud>> /\ cards' \subseteq cards /\ front' \in {front, "deck"}
    BY <1>9 DEF SettingsSaved, SettingsSavedLate, GetByCurrentUser
  <2>2. \A p \in Queries : LiveRefresh(p)' => LiveRefresh(p)
    BY <2>1 DEF LiveRefresh, Running
  <2> QED
    BY <2>1, <2>2 DEF QueriesBehindHud, OneLiveRefresh, RefreshInFront, Running
<1> QED
  BY <1>2, <1>3, <1>4, <1>5, <1>6, <1>7, <1>8, <1>9
     DEF Next, vars, SaveData, SaveFailed, UserFailed, OthersChange

-----------------------------------------------------------------------------
(* What the invariant says of every behaviour.                             *)

LEMMA DeckInit == Init => DeckInv
<1> SUFFICES ASSUME Init PROVE DeckInv
  OBVIOUS
<1>1. Running = {} /\ cards = {}
  BY DEF Init, Running, NoQuery
<1> QED
  BY <1>1, DeckTypeInit DEF DeckInv, QueriesBehindHud, OneLiveRefresh, LiveRefresh, RefreshInFront

THEOREM DeckInvHolds == Spec => []DeckInv
<1>1. DeckInv /\ [Next]_vars => DeckInv'
  BY DeckTypeStep, QueriesStep DEF DeckInv
<1> QED
  BY <1>1, DeckInit, PTL DEF Spec

\* The profiles, the queries, their HUDs and the cards keep their types.
THEOREM DeckTypeCorrect == Spec => []TypeOK
BY DeckInvHolds, PTL DEF DeckInv

\* The "Fetching Profiles..." HUD of a query covers the screen until it has laid
\* out its cards.
THEOREM QueriesAlwaysBehindHud == Spec => []QueriesBehindHud
BY DeckInvHolds, PTL DEF DeckInv

\* One press of Refresh is answered before another, with the deck in front.
THEOREM RefreshesOneAtATime == Spec => []OneRefreshAtATime
<1>1. DeckInv => OneRefreshAtATime
  BY DEF DeckInv, OneRefreshAtATime, OneLiveRefresh, LiveRefresh, RefreshInFront, Running
<1> QED
  BY <1>1, DeckInvHolds, PTL

\* Pressing Refresh any number of times lays out nobody twice.
THEOREM RefreshesNeverRepeat == Spec => []RefreshNeverRepeats
<1>1. DeckInv => RefreshNeverRepeats
  BY DEF DeckInv, RefreshNeverRepeats, OneLiveRefresh, LiveRefresh
<1> QED
  BY <1>1, DeckInvHolds, PTL
=============================================================================
