------------------------- MODULE RegistrationProofs -------------------------
(***************************************************************************)
(* Proofs about Registration, for any number of attempts and any sets of   *)
(* addresses, names and passwords.                                         *)
(***************************************************************************)
EXTENDS Registration, ProgressHUDProofs

(* What the methods of a HUD keep. *)

LEMMA WillLeaveKept ==
  ASSUME NEW h \in HudType, WillLeave(h)
  PROVE  /\ WillLeave(Dismiss(h))
         /\ WillLeave(Show(DismissAfterDelay(h)))
         /\ WillLeave(DismissAfterDelay(Show(h)))
         /\ Transitioning(h) => WillLeave(AnimationFinished(h))
         /\ h.timers > 0 => WillLeave(TimerFired(h))
<1> USE DEF HudType, HudPhases, Visible, Transitioning, WillLeave
<1>1. WillLeave(Dismiss(h))
      BY DEF Dismiss
<1>2. WillLeave(Show(DismissAfterDelay(h)))
      BY DEF Show, DismissAfterDelay
<1>3. WillLeave(DismissAfterDelay(Show(h)))
      BY DEF Show, DismissAfterDelay
<1>4. Transitioning(h) => WillLeave(AnimationFinished(h))
      BY DEF AnimationFinished, CleanUpAfterPresentation, CleanUpAfterDismissal
<1>5. h.timers > 0 => WillLeave(TimerFired(h))
  <2> SUFFICES ASSUME h.timers > 0 PROVE WillLeave(TimerFired(h))
      OBVIOUS
  <2> DEFINE g == [h EXCEPT !.timers = @ - 1]
  <2>1. g \in HudType /\ g.phase = h.phase /\ g.later = h.later
        OBVIOUS
  <2>2. TimerFired(h) = IF Visible(h) THEN Dismiss(g) ELSE g
        BY DEF TimerFired
  <2> HIDE DEF g
  <2>3. Visible(h) => WillLeave(Dismiss(g))
        BY <2>1 DEF Dismiss
  <2>4. ~Visible(h) => WillLeave(g)
        BY <2>1
  <2> QED BY <2>2, <2>3, <2>4
<1> QED BY <1>1, <1>2, <1>3, <1>4, <1>5

-----------------------------------------------------------------------------
(* Type correctness.  createUser makes its new account the current user, so *)
(* session has its type only because the account of an attempt that got past *)
(* createUser exists.                                                       *)

\* The server has made the account of the attempt.
Past(a) == stage[a] = "created" \/ SignedIn(a)

AccountsExist == \A a \in Attempts : Past(a) => entry[a].email \in accounts

TypeInv == TypeOK /\ AccountsExist

LEMMA TypeInit == Init => TypeInv
<1> SUFFICES ASSUME Init PROVE TypeInv
    OBVIOUS
<1>1. TypeOK
      BY DEF Init, TypeOK, Form, BlankForm, NewHud, HudType, HudPhases, Stages
<1>2. AccountsExist
      BY DEF Init, AccountsExist, Past, SignedIn
<1> QED BY <1>1, <1>2 DEF TypeInv

LEMMA TypeUser == TypeOK /\ User => TypeOK'
<1> SUFFICES ASSUME TypeOK, User PROVE TypeOK'
    OBVIOUS
<1>1. ASSUME NEW field \in DOMAIN form, NEW text \in Texts(field), EditField(field, text)
      PROVE  TypeOK'
  <2>1. form' \in Form
        BY <1>1 DEF EditField, Texts, TypeOK, Form
  <2>2. enabled' \in BOOLEAN
        BY <1>1 DEF EditField, ValidData
  <2> QED BY <1>1, <2>1, <2>2 DEF EditField, TypeOK, hudVars, taken, remoteVars
<1>2. CASE OpenPicker \/ LeavePicker \/ OpenLogin \/ BackFromLogin
      BY <1>2 DEF TypeOK, OpenPicker, LeavePicker, OpenLogin, BackFromLogin,
                  hudVars, taken, remoteVars
<1>3. ASSUME NEW a \in Attempts, PressRegister(a) PROVE TypeOK'
  <2>1. hud' \in HudType
        BY <1>3, HudTypeKept DEF PressRegister, RegisteringObserved, TypeOK
  <2>2. stage' \in [Attempts -> Stages] /\ entry' \in [Attempts -> Form]
        BY <1>3 DEF PressRegister, Reach, TypeOK, Stages
  <2> QED BY <1>3, <2>1, <2>2 DEF PressRegister, TypeOK, formVars, remoteVars
<1> QED BY <1>1, <1>2, <1>3 DEF User

LEMMA TypeHudSteps == TypeOK /\ HudSteps => TypeOK'
<1> SUFFICES ASSUME TypeOK, HudSteps PROVE TypeOK'
    OBVIOUS
<1>1. CASE RegisterHudTimer \/ RegisterHudAnimated
  <2>1. hud' \in HudType
        BY <1>1, HudTypeKept DEF RegisterHudTimer, RegisterHudAnimated, TypeOK
  <2> QED BY <1>1, <2>1 DEF RegisterHudTimer, RegisterHudAnimated, TypeOK, formVars, taken, remoteVars
<1>2. ASSUME NEW a \in Attempts, ErrorHudTimer(a) \/ ErrorHudAnimated(a) PROVE TypeOK'
  <2>1. errorHud' \in [Attempts -> HudType]
        BY <1>2, HudTypeKept DEF ErrorHudTimer, ErrorHudAnimated, TypeOK
  <2> QED BY <1>2, <2>1 DEF ErrorHudTimer, ErrorHudAnimated, TypeOK, formVars, taken, remoteVars
<1> QED BY <1>1, <1>2 DEF HudSteps

LEMMA TypeFail ==
  ASSUME TypeOK, NEW a \in Attempts, NEW s \in Stages, Fail(a, s)
  PROVE  stage' \in [Attempts -> Stages] /\ errorHud' \in [Attempts -> HudType]
BY HudTypeKept DEF Fail, Reach, TypeOK

LEMMA TypeAnswers ==
  ASSUME TypeInv, NEW a \in Attempts, AuthAnswers(a) \/ StorageAnswers(a) \/ FirestoreAnswers(a)
  PROVE  TypeOK'
<1> USE DEF TypeInv
<1>1. CASE CreateFailed(a) \/ UploadFailed(a) \/ SaveRejected(a)
  <2>1. stage' \in [Attempts -> Stages] /\ errorHud' \in [Attempts -> HudType]
        BY <1>1, TypeFail DEF CreateFailed, UploadFailed, SaveRejected, Stages
  <2> QED BY <1>1, <2>1 DEF CreateFailed, UploadFailed, SaveRejected, TypeOK, formVars, taken, remoteVars
<1>2. CASE CreateAccount(a) \/ SignInAsNew(a) \/ CreateAnswered(a) \/ UploadAnswered(a) \/ SaveAnswered(a)
  <2>1. stage' \in [Attempts -> Stages]
        BY <1>2 DEF CreateAccount, SignInAsNew, CreateAnswered, UploadAnswered, SaveAnswered,
                    Reach, TypeOK, Stages
  <2>2. CASE CreateAccount(a)
        BY <2>1, <2>2 DEF CreateAccount, Filled, TypeOK, Form, formVars, hudVars, taken
  <2>3. CASE SignInAsNew(a)
        BY <2>1, <2>3 DEF SignInAsNew, AccountsExist, Past, TypeOK, formVars, hudVars, taken
  <2>4. CASE CreateAnswered(a)
        BY <2>1, <2>4 DEF CreateAnswered, TypeOK, formVars, hudVars, taken, remoteVars
  <2>5. CASE UploadAnswered(a)
        BY <2>1, <2>5 DEF UploadAnswered, TypeOK, formVars, hudVars, taken
  <2>6. CASE SaveAnswered(a)
        BY <2>1, <2>6 DEF SaveAnswered, TypeOK, formVars, hudVars, taken, remoteVars
  <2> QED BY <1>2, <2>2, <2>3, <2>4, <2>5, <2>6
<1>3. CASE URLAnswered(a)
  <2>1. hud' \in HudType
        BY <1>3, HudTypeKept DEF URLAnswered, RegisteringObserved, TypeOK
  <2>2. stage' \in [Attempts -> Stages]
        BY <1>3 DEF URLAnswered, Reach, TypeOK, Stages
  <2> QED BY <1>3, <2>1, <2>2 DEF URLAnswered, TypeOK, formVars, remoteVars
<1>4. CASE SaveStored(a)
  <2>1. stage' \in [Attempts -> Stages]
        BY <1>4 DEF SaveStored, Reach, TypeOK, Stages
  <2>2. Profile(a) \in Doc
        BY <1>4 DEF SaveStored, Profile, Doc, TypeOK, Form, Filled
  <2> QED BY <1>4, <2>1, <2>2 DEF SaveStored, TypeOK, formVars, hudVars, taken
<1> QED BY <1>1, <1>2, <1>3, <1>4 DEF AuthAnswers, StorageAnswers, FirestoreAnswers

LEMMA AccountsKept == TypeInv /\ [Next]_vars => AccountsExist'
<1> SUFFICES ASSUME TypeInv, [Next]_vars, NEW b \in Attempts, Past(b)'
             PROVE  entry'[b].email \in accounts'
    BY DEF AccountsExist
<1> USE DEF TypeInv, AccountsExist, Past, SignedIn
<1>1. CASE UNCHANGED <<stage, entry, accounts>>
      BY <1>1
<1>2. CASE User
  <2>1. ASSUME NEW a \in Attempts, PressRegister(a) PROVE entry'[b].email \in accounts'
        BY <2>1 DEF PressRegister, Reach, TypeOK, remoteVars
  <2> QED BY <1>1, <1>2, <2>1 DEF User, EditField, OpenPicker, LeavePicker,
                                  OpenLogin, BackFromLogin, taken, remoteVars
<1>3. ASSUME NEW a \in Attempts, AuthAnswers(a) \/ StorageAnswers(a) \/ FirestoreAnswers(a)
      PROVE  entry'[b].email \in accounts'
  <2>1. entry' = entry
        BY <1>3 DEF AuthAnswers, CreateAccount, SignInAsNew, CreateFailed, CreateAnswered,
                    StorageAnswers, UploadAnswered, UploadFailed, URLAnswered,
                    FirestoreAnswers, SaveStored, SaveAnswered, SaveRejected, taken
  <2>2. CASE CreateAccount(a)
        BY <2>1, <2>2 DEF CreateAccount, Reach, TypeOK
  <2>3. CASE ~CreateAccount(a)
    <3>1. accounts' = accounts /\ Past(b)
          BY <1>3, <2>3 DEF AuthAnswers, SignInAsNew, CreateFailed, CreateAnswered,
                    StorageAnswers, UploadAnswered, UploadFailed, URLAnswered,
                    FirestoreAnswers, SaveStored, SaveAnswered, SaveRejected, taken,
                    remoteVars, Fail, Reach, TypeOK
    <3> QED BY <2>1, <3>1
  <2> QED BY <2>2, <2>3
<1>4. CASE HudSteps
      BY <1>1, <1>4 DEF HudSteps, RegisterHudTimer, RegisterHudAnimated, ErrorHudTimer,
                        ErrorHudAnimated, taken, remoteVars
<1> QED BY <1>1, <1>2, <1>3, <1>4 DEF Next, vars

LEMMA TypeInvariant == Spec => []TypeInv
<1>1. TypeInv /\ [Next]_vars => TypeInv'
  <2> SUFFICES ASSUME TypeInv, [Next]_vars PROVE TypeOK'
      BY AccountsKept DEF TypeInv
  <2>1. CASE UNCHANGED vars
        BY <2>1 DEF vars, TypeInv, TypeOK
  <2>2. CASE Next
        BY <2>2, TypeUser, TypeAnswers, TypeHudSteps DEF Next, TypeInv
  <2> QED BY <2>1, <2>2
<1> QED BY <1>1, TypeInit, PTL DEF Spec

\* Every variable of the sign-up screen keeps its type.
THEOREM TypeCorrect == Spec => []TypeOK
<1>1. TypeInv => TypeOK
      BY DEF TypeInv
<1> QED BY <1>1, TypeInvariant, PTL

-----------------------------------------------------------------------------
(* The HUDs and the button. *)

LEMMA HudsKept == TypeOK /\ HudsWillLeave /\ [Next]_vars => HudsWillLeave'
<1> SUFFICES ASSUME TypeOK, HudsWillLeave, [Next]_vars PROVE HudsWillLeave'
    OBVIOUS
<1>t. hud \in HudType /\ errorHud \in [Attempts -> HudType]
      BY DEF TypeOK
<1>w. WillLeave(hud) /\ \A b \in Attempts : WillLeave(errorHud[b])
      BY DEF HudsWillLeave
<1> SUFFICES WillLeave(hud)' /\ \A b \in Attempts : WillLeave(errorHud[b])'
    BY DEF HudsWillLeave
<1>1. CASE UNCHANGED hudVars
      BY <1>1, <1>w DEF hudVars, WillLeave
<1>2. ASSUME NEW a \in Attempts, PressRegister(a) \/ URLAnswered(a) \/ RegisterHudTimer \/ RegisterHudAnimated
      PROVE  WillLeave(hud)' /\ \A b \in Attempts : WillLeave(errorHud[b])'
  <2>1. errorHud' = errorHud
        BY <1>2 DEF PressRegister, URLAnswered, RegisterHudTimer, RegisterHudAnimated
  <2>2. WillLeave(hud')
        BY <1>2, <1>t, <1>w, WillLeaveKept DEF PressRegister, URLAnswered, RegisterHudTimer,
                                RegisterHudAnimated, RegisteringObserved
  <2> QED BY <2>1, <2>2, <1>w DEF WillLeave
<1>3. ASSUME NEW a \in Attempts,
             CreateFailed(a) \/ UploadFailed(a) \/ SaveRejected(a) \/ ErrorHudTimer(a) \/ ErrorHudAnimated(a)
      PROVE  WillLeave(hud)' /\ \A b \in Attempts : WillLeave(errorHud[b])'
  <2>1. hud' = hud
        BY <1>3 DEF CreateFailed, UploadFailed, SaveRejected, ErrorHudTimer, ErrorHudAnimated
  <2>2. \A b \in Attempts : b # a => errorHud'[b] = errorHud[b]
        BY <1>3, <1>t DEF CreateFailed, UploadFailed, SaveRejected, ErrorHudTimer, ErrorHudAnimated, Fail
  <2>3. WillLeave(errorHud'[a])
        BY <1>3, <1>t, <1>w, WillLeaveKept
           DEF CreateFailed, UploadFailed, SaveRejected, ErrorHudTimer, ErrorHudAnimated, Fail
  <2> QED BY <2>1, <2>2, <2>3, <1>w DEF WillLeave
<1>4. CASE UNCHANGED vars
      BY <1>1, <1>4 DEF vars, hudVars
<1>5. CASE User
      BY <1>1, <1>2, <1>5 DEF User, EditField, OpenPicker, LeavePicker, OpenLogin, BackFromLogin
<1>6. ASSUME NEW a \in Attempts, AuthAnswers(a) \/ StorageAnswers(a) \/ FirestoreAnswers(a)
      PROVE  WillLeave(hud)' /\ \A b \in Attempts : WillLeave(errorHud[b])'
      BY <1>1, <1>2, <1>3, <1>6 DEF AuthAnswers, CreateAccount, SignInAsNew, CreateAnswered,
             StorageAnswers, UploadAnswered, FirestoreAnswers, SaveStored, SaveAnswered
<1>7. CASE HudSteps
  <2>1. CASE RegisterHudTimer \/ RegisterHudAnimated
        BY <2>1, <1>t, <1>w, WillLeaveKept DEF RegisterHudTimer, RegisterHudAnimated, WillLeave
  <2> QED BY <2>1, <1>3, <1>7 DEF HudSteps
<1> QED BY <1>4, <1>5, <1>6, <1>7 DEF Next

\* Whatever is pressed and whatever fails, a HUD that is up has its dismissal
\* scheduled or remembered, though no error path dismisses registerHud.
THEOREM HudsAlwaysWillLeave == Spec => []HudsWillLeave
<1>1. Init => HudsWillLeave
      BY DEF Init, HudsWillLeave, WillLeave, NewHud
<1>2. TypeInv /\ HudsWillLeave /\ [Next]_vars => HudsWillLeave'
      BY HudsKept DEF TypeInv
<1> QED BY <1>1, <1>2, TypeInvariant, PTL DEF Spec

LEMMA ButtonKept == TypeOK /\ ButtonMatchesForm /\ [Next]_vars => ButtonMatchesForm'
<1> SUFFICES ASSUME TypeOK, ButtonMatchesForm, [Next]_vars PROVE ButtonMatchesForm'
    OBVIOUS
<1>1. CASE UNCHANGED <<form, enabled>>
      BY <1>1 DEF ButtonMatchesForm, Filled
<1>2. ASSUME NEW field \in DOMAIN form, NEW text \in Texts(field), EditField(field, text)
      PROVE  ButtonMatchesForm'
  <2>1. DOMAIN form' = {"email", "name", "password"}
        BY <1>2 DEF EditField, TypeOK, Form
  <2> QED BY <1>2, <2>1 DEF EditField, ButtonMatchesForm, ValidData, Filled
<1>3. CASE User
      BY <1>1, <1>2, <1>3 DEF User, OpenPicker, LeavePicker, OpenLogin, BackFromLogin,
                              PressRegister, formVars
<1>4. ASSUME NEW a \in Attempts, AuthAnswers(a) \/ StorageAnswers(a) \/ FirestoreAnswers(a)
      PROVE  ButtonMatchesForm'
      BY <1>1, <1>4 DEF AuthAnswers, CreateAccount, SignInAsNew, CreateFailed, CreateAnswered,
             StorageAnswers, UploadAnswered, UploadFailed, URLAnswered,
             FirestoreAnswers, SaveStored, SaveAnswered, SaveRejected, formVars
<1>5. CASE HudSteps
      BY <1>1, <1>5 DEF HudSteps, RegisterHudTimer, RegisterHudAnimated, ErrorHudTimer,
                        ErrorHudAnimated, formVars
<1>6. CASE UNCHANGED vars
      BY <1>1, <1>6 DEF vars
<1> QED BY <1>3, <1>4, <1>5, <1>6 DEF Next

\* The Register button is enabled exactly when its three fields hold text.
THEOREM ButtonAlwaysMatches == Spec => []ButtonMatchesForm
<1>1. Init => ButtonMatchesForm
      BY DEF Init, ButtonMatchesForm, BlankForm, Filled
<1>2. TypeInv /\ ButtonMatchesForm /\ [Next]_vars => ButtonMatchesForm'
      BY ButtonKept DEF TypeInv
<1> QED BY <1>1, <1>2, TypeInvariant, PTL DEF Spec

-----------------------------------------------------------------------------
(* Who signs in, and whose profile is saved.                               *)
(*                                                                         *)
(* The save takes its uid from the session of that moment, so what must be *)
(* known is that every session began with an attempt's own sign-in         *)
(* (SessionOwned), that this is then true of the uid of every write and of *)
(* every document, and that no two attempts sign in with one address.      *)

Owned(u) == \E b \in Attempts : SignedIn(b) /\ entry[b].email = u

Writing(a) == stage[a] \in {"saving", "stored", "succeeded"}

Unique ==
  \A a, b \in Attempts : Past(a) /\ Past(b) /\ entry[a].email = entry[b].email => a = b

EntriesValid == \A a \in Attempts : stage[a] # "idle" => ValidData(entry[a])

SessionOwned ==
  /\ session # NoUser => Owned(session)
  /\ \A a \in Attempts : SignedIn(a) => session # NoUser

PhotosFirst == \A a \in Attempts : stage[a] = "asking" \/ Writing(a) => a \in blobs

WritesOwned == \A a \in Attempts : Writing(a) => Owned(owner[a])

DocOwned(u) ==
  /\ Owned(u)
  /\ docs[u].UserID = u
  /\ docs[u].ImageURL \in blobs
  /\ stage[docs[u].ImageURL] # "idle"
  /\ docs[u].NameSurname = entry[docs[u].ImageURL].name

DocsOwned == \A u \in Emails : docs[u] # NoDoc => DocOwned(u)

StoredThere ==
  \A a \in Attempts : stage[a] \in {"stored", "succeeded"} => docs[owner[a]] # NoDoc

ChainCore ==
  /\ Unique /\ EntriesValid /\ SessionOwned /\ PhotosFirst
  /\ WritesOwned /\ DocsOwned /\ StoredThere

ChainInv == TypeInv /\ ButtonMatchesForm /\ ChainCore

\* Nothing is ever forgotten: an attempt under way keeps its copy of the form,
\* and one that has signed in has signed in for good.
LEMMA AttemptsAdvance ==
  ASSUME TypeOK, [Next]_vars, NEW b \in Attempts
  PROVE  /\ stage[b] # "idle" => entry'[b] = entry[b] /\ stage'[b] # "idle"
         /\ SignedIn(b) => SignedIn(b)'
<1> USE DEF SignedIn
<1>1. CASE UNCHANGED <<stage, entry>>
      BY <1>1
<1>2. ASSUME NEW a \in Attempts, PressRegister(a)
      PROVE  /\ stage[b] # "idle" => entry'[b] = entry[b] /\ stage'[b] # "idle"
             /\ SignedIn(b) => SignedIn(b)'
      BY <1>2 DEF PressRegister, Reach, TypeOK
<1>3. ASSUME NEW a \in Attempts, AuthAnswers(a) \/ StorageAnswers(a) \/ FirestoreAnswers(a)
      PROVE  /\ stage[b] # "idle" => entry'[b] = entry[b] /\ stage'[b] # "idle"
             /\ SignedIn(b) => SignedIn(b)'
  <2>1. entry' = entry
        BY <1>3 DEF AuthAnswers, CreateAccount, SignInAsNew, CreateFailed, CreateAnswered,
                    StorageAnswers, UploadAnswered, UploadFailed, URLAnswered,
                    FirestoreAnswers, SaveStored, SaveAnswered, SaveRejected, taken
  <2>2. CASE AuthAnswers(a)
        BY <2>1, <2>2 DEF AuthAnswers, CreateAccount, SignInAsNew, CreateFailed, CreateAnswered,
                          Fail, Reach, TypeOK
  <2>3. CASE StorageAnswers(a)
        BY <2>1, <2>3 DEF StorageAnswers, UploadAnswered, UploadFailed, URLAnswered,
                          Fail, Reach, TypeOK
  <2>4. CASE FirestoreAnswers(a)
        BY <2>1, <2>4 DEF FirestoreAnswers, SaveStored, SaveAnswered, SaveRejected,
                          Fail, Reach, TypeOK
  <2> QED BY <1>3, <2>2, <2>3, <2>4
<1>4. CASE User
      BY <1>1, <1>2, <1>4 DEF User, EditField, OpenPicker, LeavePicker,
                              OpenLogin, BackFromLogin, taken
<1>5. CASE HudSteps
      BY <1>1, <1>5 DEF HudSteps, RegisterHudTimer, RegisterHudAnimated, ErrorHudTimer,
                        ErrorHudAnimated, taken
<1>6. CASE UNCHANGED vars
      BY <1>1, <1>6 DEF vars
<1> QED BY <1>3, <1>4, <1>5, <1>6 DEF Next

LEMMA OwnedKept ==
  ASSUME TypeOK, [Next]_vars, NEW u, Owned(u)
  PROVE  Owned(u)'
<1>1. PICK b \in Attempts : SignedIn(b) /\ entry[b].email = u
      BY DEF Owned
<1>2. SignedIn(b)' /\ entry'[b].email = u
      BY <1>1, AttemptsAdvance DEF SignedIn
<1> QED BY <1>2 DEF Owned

chainVars == <<stage, entry, owner, accounts, session, blobs, docs>>

LEMMA ChainUntouched == ChainCore /\ UNCHANGED chainVars => ChainCore'
BY DEF chainVars, ChainCore, Unique, EntriesValid, SessionOwned, PhotosFirst, WritesOwned, DocsOwned,
       DocOwned, StoredThere, Past, SignedIn, Owned, Writing, ValidData, Filled

\* A step of attempt a that changes no account, session, photo or document
\* and starts nothing: the attempt only moves on.
LEMMA ChainMoves ==
  ASSUME ChainInv, [Next]_vars, NEW a \in Attempts, NEW s \in Stages, Reach(a, s),
         stage[a] # "idle", s # "idle", entry' = entry,
         UNCHANGED <<owner, accounts, session, blobs, docs>>,
         Past(a)' => Past(a), SignedIn(a)' => SignedIn(a),
         s \in {"asking", "saving"} => stage[a] = s,
         s = "stored" => stage[a] = "stored",
         s = "succeeded" => stage[a] = "stored"
  PROVE  ChainCore'
<1> USE DEF ChainInv, ChainCore, TypeInv
<1>o. \A u : Owned(u) => Owned(u)'
      BY OwnedKept
<1>s. /\ \A b \in Attempts : b # a => stage'[b] = stage[b]
      /\ stage'[a] = s
      BY DEF Reach, TypeOK
<1>p. \A b \in Attempts : (Past(b)' => Past(b)) /\ (SignedIn(b)' => SignedIn(b))
                          /\ (Writing(b)' => Writing(b))
      BY <1>s DEF Past, SignedIn, Writing
<1>1. Unique'
      BY <1>p DEF Unique
<1>2. EntriesValid'
      BY <1>s DEF EntriesValid, ValidData, Filled
<1>3. SessionOwned'
      BY <1>o, <1>p DEF SessionOwned
<1>4. PhotosFirst'
      BY <1>s, <1>p DEF PhotosFirst
<1>5. WritesOwned'
      BY <1>o, <1>p DEF WritesOwned
<1>6. DocsOwned'
  <2> SUFFICES ASSUME NEW u \in Emails, docs[u] # NoDoc PROVE DocOwned(u)'
      BY DEF DocsOwned
  <2>1. DocOwned(u) /\ docs[u].ImageURL \in Attempts
        BY DEF DocsOwned, TypeOK, Doc
  <2> QED BY <1>o, <1>s, <2>1 DEF DocOwned
<1>7. StoredThere'
      BY <1>s DEF StoredThere
<1> QED BY <1>1, <1>2, <1>3, <1>4, <1>5, <1>6, <1>7

LEMMA ChainPress ==
  ASSUME ChainInv, [Next]_vars, NEW a \in Attempts, PressRegister(a)
  PROVE  ChainCore'
<1> USE DEF ChainInv, ChainCore, TypeInv
<1>u. UNCHANGED <<owner, accounts, session, blobs, docs>>
      BY DEF PressRegister, remoteVars
<1>o. \A u : Owned(u) => Owned(u)'
      BY OwnedKept
<1>s. /\ \A b \in Attempts : b # a => stage'[b] = stage[b] /\ entry'[b] = entry[b]
      /\ stage[a] = "idle" /\ stage'[a] = "creating" /\ entry'[a] = form
      BY DEF PressRegister, Reach, TypeOK
<1>v. ValidData(form)
  <2>1. enabled /\ DOMAIN form = {"email", "name", "password"}
        BY DEF PressRegister, TypeOK, Form
  <2> QED BY <2>1 DEF ButtonMatchesForm, ValidData
<1>p. \A b \in Attempts : (Past(b)' => Past(b) /\ b # a) /\ (SignedIn(b)' => SignedIn(b))
                          /\ (Writing(b)' => Writing(b))
      BY <1>s DEF Past, SignedIn, Writing
<1>1. Unique'
      BY <1>p, <1>s DEF Unique
<1>2. EntriesValid'
      BY <1>s, <1>v DEF EntriesValid, ValidData, Filled
<1>3. SessionOwned'
      BY <1>o, <1>p, <1>u DEF SessionOwned
<1>4. PhotosFirst'
      BY <1>s, <1>p, <1>u DEF PhotosFirst
<1>5. WritesOwned'
      BY <1>o, <1>p, <1>u DEF WritesOwned
<1>6. DocsOwned'
  <2> SUFFICES ASSUME NEW u \in Emails, docs[u] # NoDoc PROVE DocOwned(u)'
      BY <1>u DEF DocsOwned
  <2>1. DocOwned(u) /\ docs[u].ImageURL \in Attempts
        BY DEF DocsOwned, TypeOK, Doc
  <2> QED BY <1>o, <1>s, <1>u, <2>1 DEF DocOwned
<1>7. StoredThere'
      BY <1>s, <1>u DEF StoredThere
<1> QED BY <1>1, <1>2, <1>3, <1>4, <1>5, <1>6, <1>7

LEMMA ChainCreateAccount ==
  ASSUME ChainInv, [Next]_vars, NEW a \in Attempts, CreateAccount(a)
  PROVE  ChainCore'
<1> USE DEF ChainInv, ChainCore, TypeInv
<1>u. UNCHANGED <<entry, owner, session, blobs, docs>>
      BY DEF CreateAccount, taken
<1>o. \A u : Owned(u) => Owned(u)'
      BY OwnedKept
<1>s. /\ \A b \in Attempts : b # a => stage'[b] = stage[b]
      /\ stage[a] = "creating" /\ stage'[a] = "created"
      /\ entry[a].email \notin accounts
      BY DEF CreateAccount, Reach, TypeOK
<1>p. \A b \in Attempts : /\ Past(b)' => Past(b) \/ b = a
                          /\ SignedIn(b)' => SignedIn(b)
                          /\ Writing(b)' => Writing(b)
      BY <1>s DEF Past, SignedIn, Writing
<1>1. Unique'
      BY <1>p, <1>s, <1>u DEF Unique, AccountsExist
<1>2. EntriesValid'
      BY <1>s, <1>u DEF EntriesValid, ValidData, Filled
<1>3. SessionOwned'
      BY <1>o, <1>p, <1>u DEF SessionOwned
<1>4. PhotosFirst'
      BY <1>s, <1>p, <1>u DEF PhotosFirst
<1>5. WritesOwned'
      BY <1>o, <1>p, <1>u DEF WritesOwned
<1>6. DocsOwned'
  <2> SUFFICES ASSUME NEW u \in Emails, docs[u] # NoDoc PROVE DocOwned(u)'
      BY <1>u DEF DocsOwned
  <2>1. DocOwned(u) /\ docs[u].ImageURL \in Attempts
        BY DEF DocsOwned, TypeOK, Doc
  <2> QED BY <1>o, <1>s, <1>u, <2>1 DEF DocOwned
<1>7. StoredThere'
      BY <1>s, <1>u DEF StoredThere
<1> QED BY <1>1, <1>2, <1>3, <1>4, <1>5, <1>6, <1>7

LEMMA ChainSignIn ==
  ASSUME ChainInv, [Next]_vars, NEW a \in Attempts, SignInAsNew(a)
  PROVE  ChainCore'
<1> USE DEF ChainInv, ChainCore, TypeInv
<1>u. UNCHANGED <<entry, owner, accounts, blobs, docs>> /\ session' = entry[a].email
      BY DEF SignInAsNew, taken
<1>o. \A u : Owned(u) => Owned(u)'
      BY OwnedKept
<1>s. /\ \A b \in Attempts : b # a => stage'[b] = stage[b]
      /\ stage[a] = "created" /\ stage'[a] = "signedIn"
      BY DEF SignInAsNew, Reach, TypeOK
<1>p. \A b \in Attempts : /\ Past(b)' => Past(b)
                          /\ SignedIn(b)' => SignedIn(b) \/ b = a
                          /\ Writing(b)' => Writing(b)
      BY <1>s DEF Past, SignedIn, Writing
<1>1. Unique'
      BY <1>p, <1>u DEF Unique
<1>2. EntriesValid'
      BY <1>s, <1>u DEF EntriesValid, ValidData, Filled
<1>3. SessionOwned'
  <2>1. SignedIn(a)' /\ entry'[a].email = session'
        BY <1>s, <1>u DEF SignedIn
  <2>2. Owned(session)'
        BY <2>1 DEF Owned
  <2>3. session' # NoUser
        BY <1>s, <1>u, NoneAssumption DEF AccountsExist, Past, TypeOK
  <2> QED BY <2>2, <2>3 DEF SessionOwned
<1>4. PhotosFirst'
      BY <1>s, <1>p, <1>u DEF PhotosFirst
<1>5. WritesOwned'
      BY <1>o, <1>p, <1>u DEF WritesOwned
<1>6. DocsOwned'
  <2> SUFFICES ASSUME NEW u \in Emails, docs[u] # NoDoc PROVE DocOwned(u)'
      BY <1>u DEF DocsOwned
  <2>1. DocOwned(u) /\ docs[u].ImageURL \in Attempts
        BY DEF DocsOwned, TypeOK, Doc
  <2> QED BY <1>o, <1>s, <1>u, <2>1 DEF DocOwned
<1>7. StoredThere'
      BY <1>s, <1>u DEF StoredThere
<1> QED BY <1>1, <1>2, <1>3, <1>4, <1>5, <1>6, <1>7

LEMMA ChainUpload ==
  ASSUME ChainInv, [Next]_vars, NEW a \in Attempts, UploadAnswered(a)
  PROVE  ChainCore'
<1> USE DEF ChainInv, ChainCore, TypeInv
<1>u. UNCHANGED <<entry, owner, accounts, session, docs>> /\ blobs' = blobs \cup {a}
      BY DEF UploadAnswered, taken
<1>o. \A u : Owned(u) => Owned(u)'
      BY OwnedKept
<1>s. /\ \A b \in Attempts : b # a => stage'[b] = stage[b]
      /\ stage[a] = "uploading" /\ stage'[a] = "asking"
      BY DEF UploadAnswered, Reach, TypeOK
<1>p. \A b \in Attempts : (Past(b)' => Past(b)) /\ (SignedIn(b)' => SignedIn(b))
                          /\ (Writing(b)' => Writing(b))
      BY <1>s DEF Past, SignedIn, Writing
<1>1. Unique'
      BY <1>p, <1>u DEF Unique
<1>2. EntriesValid'
      BY <1>s, <1>u DEF EntriesValid, ValidData, Filled
<1>3. SessionOwned'
      BY <1>o, <1>p, <1>u DEF SessionOwned
<1>4. PhotosFirst'
      BY <1>s, <1>p, <1>u DEF PhotosFirst
<1>5. WritesOwned'
      BY <1>o, <1>p, <1>u DEF WritesOwned
<1>6. DocsOwned'
  <2> SUFFICES ASSUME NEW u \in Emails, docs[u] # NoDoc PROVE DocOwned(u)'
      BY <1>u DEF DocsOwned
  <2>1. DocOwned(u) /\ docs[u].ImageURL \in Attempts
        BY DEF DocsOwned, TypeOK, Doc
  <2> QED BY <1>o, <1>s, <1>u, <2>1 DEF DocOwned
<1>7. StoredThere'
      BY <1>s, <1>u DEF StoredThere
<1> QED BY <1>1, <1>2, <1>3, <1>4, <1>5, <1>6, <1>7

LEMMA ChainURL ==
  ASSUME ChainInv, [Next]_vars, NEW a \in Attempts, URLAnswered(a)
  PROVE  ChainCore'
<1> USE DEF ChainInv, ChainCore, TypeInv
<1>u. UNCHANGED <<entry, accounts, session, blobs, docs>>
      BY DEF URLAnswered, remoteVars
<1>o. \A u : Owned(u) => Owned(u)'
      BY OwnedKept
<1>s. /\ \A b \in Attempts : b # a => stage'[b] = stage[b] /\ owner'[b] = owner[b]
      /\ stage[a] = "asking" /\ stage'[a] = "saving" /\ owner'[a] = session
      BY DEF URLAnswered, Reach, TypeOK
<1>p. \A b \in Attempts : /\ (Past(b)' => Past(b)) /\ (SignedIn(b)' => SignedIn(b))
                          /\ Writing(b)' => Writing(b) \/ b = a
      BY <1>s DEF Past, SignedIn, Writing
<1>1. Unique'
      BY <1>p, <1>u DEF Unique
<1>2. EntriesValid'
      BY <1>s, <1>u DEF EntriesValid, ValidData, Filled
<1>3. SessionOwned'
      BY <1>o, <1>p, <1>u DEF SessionOwned
<1>4. PhotosFirst'
      BY <1>s, <1>p, <1>u DEF PhotosFirst
<1>5. WritesOwned'
  <2>1. SignedIn(a)
        BY <1>s DEF SignedIn
  <2>2. Owned(session)
        BY <2>1 DEF SessionOwned
  <2>3. ASSUME NEW b \in Attempts, Writing(b)' PROVE Owned(owner'[b])
    <3>1. CASE b = a
          BY <3>1, <2>2, <1>s
    <3>2. CASE b # a
          BY <3>2, <2>3, <1>p, <1>s DEF WritesOwned
    <3> QED BY <3>1, <3>2
  <2>4. \A b \in Attempts : Writing(b)' => Owned(owner[b])'
        BY <2>3, <1>s, AttemptsAdvance DEF Owned, SignedIn
  <2> QED BY <2>4 DEF WritesOwned
<1>6. DocsOwned'
  <2> SUFFICES ASSUME NEW u \in Emails, docs[u] # NoDoc PROVE DocOwned(u)'
      BY <1>u DEF DocsOwned
  <2>1. DocOwned(u) /\ docs[u].ImageURL \in Attempts
        BY DEF DocsOwned, TypeOK, Doc
  <2> QED BY <1>o, <1>s, <1>u, <2>1 DEF DocOwned
<1>7. StoredThere'
      BY <1>s, <1>u DEF StoredThere
<1> QED BY <1>1, <1>2, <1>3, <1>4, <1>5, <1>6, <1>7

LEMMA ChainStored ==
  ASSUME ChainInv, [Next]_vars, NEW a \in Attempts, SaveStored(a)
  PROVE  ChainCore'
<1> USE DEF ChainInv, ChainCore, TypeInv
<1>u. /\ UNCHANGED <<entry, owner, accounts, session, blobs>>
      /\ docs' = [docs EXCEPT ![owner[a]] = Profile(a)]
      /\ owner[a] \in Emails
      BY DEF SaveStored, taken, TypeOK
<1>o. \A u : Owned(u) => Owned(u)'
      BY OwnedKept
<1>s. /\ \A b \in Attempts : b # a => stage'[b] = stage[b]
      /\ stage[a] = "saving" /\ stage'[a] = "stored"
      BY DEF SaveStored, Reach, TypeOK
<1>p. \A b \in Attempts : (Past(b)' => Past(b)) /\ (SignedIn(b)' => SignedIn(b))
                          /\ (Writing(b)' => Writing(b))
      BY <1>s DEF Past, SignedIn, Writing
<1>d. /\ docs'[owner[a]] = Profile(a) /\ Profile(a) # NoDoc
      /\ \A u \in Emails : u # owner[a] => docs'[u] = docs[u]
  <2>1. Profile(a) \in Doc
        BY <1>u DEF Profile, Doc, TypeOK, Form, Filled
  <2> QED BY <2>1, <1>u, NoneAssumption DEF TypeOK
<1>1. Unique'
      BY <1>p, <1>u DEF Unique
<1>2. EntriesValid'
      BY <1>s, <1>u DEF EntriesValid, ValidData, Filled
<1>3. SessionOwned'
      BY <1>o, <1>p, <1>u DEF SessionOwned
<1>4. PhotosFirst'
      BY <1>s, <1>p, <1>u DEF PhotosFirst
<1>5. WritesOwned'
      BY <1>o, <1>p, <1>u DEF WritesOwned
<1>6. DocsOwned'
  <2> SUFFICES ASSUME NEW u \in Emails, docs'[u] # NoDoc PROVE DocOwned(u)'
      BY DEF DocsOwned
  <2>1. CASE u = owner[a]
    <3>1. Owned(u) /\ a \in blobs /\ Filled(entry[a].name)
          BY <2>1, <1>s DEF WritesOwned, Writing, PhotosFirst, EntriesValid, ValidData
    <3>2. docs'[u] = [NameSurname |-> entry[a].name, ImageURL |-> a, UserID |-> u]
          BY <2>1, <3>1, <1>d DEF Profile
    <3> QED BY <3>1, <3>2, <1>o, <1>s, <1>u DEF DocOwned
  <2>2. CASE u # owner[a]
    <3>1. docs'[u] = docs[u]
          BY <2>2, <1>d
    <3>2. DocOwned(u) /\ docs[u].ImageURL \in Attempts
          BY <3>1 DEF DocsOwned, TypeOK, Doc
    <3> QED BY <1>o, <1>s, <1>u, <3>1, <3>2 DEF DocOwned
  <2> QED BY <2>1, <2>2
<1>7. StoredThere'
  <2> SUFFICES ASSUME NEW b \in Attempts, stage'[b] \in {"stored", "succeeded"}
               PROVE  docs'[owner[b]] # NoDoc
      BY <1>u DEF StoredThere
  <2>1. CASE owner[b] = owner[a]
        BY <2>1, <1>d
  <2>2. CASE owner[b] # owner[a]
    <3>1. b # a /\ docs[owner[b]] # NoDoc
          BY <2>2, <1>s DEF StoredThere
    <3>2. owner[b] \in Emails
          BY <3>1, <1>s DEF WritesOwned, Writing, Owned, AccountsExist, Past, TypeOK
    <3> QED BY <3>1, <3>2, <2>2, <1>d
  <2> QED BY <2>1, <2>2
<1> QED BY <1>1, <1>2, <1>3, <1>4, <1>5, <1>6, <1>7

LEMMA ChainKept == ChainInv /\ [Next]_vars => ChainCore'
<1> SUFFICES ASSUME ChainInv, [Next]_vars PROVE ChainCore'
    OBVIOUS
<1> USE DEF ChainInv
<1>1. CASE UNCHANGED chainVars
      BY <1>1, ChainUntouched
<1>2. CASE UNCHANGED vars
      BY <1>1, <1>2 DEF vars, chainVars
<1>3. CASE User
      BY <1>1, <1>3, ChainPress DEF User, EditField, OpenPicker, LeavePicker,
             OpenLogin, BackFromLogin, chainVars, taken, remoteVars
<1>4. CASE HudSteps
      BY <1>1, <1>4 DEF HudSteps, RegisterHudTimer, RegisterHudAnimated, ErrorHudTimer,
                        ErrorHudAnimated, chainVars, taken, remoteVars
<1>5. ASSUME NEW a \in Attempts, AuthAnswers(a) \/ StorageAnswers(a) \/ FirestoreAnswers(a)
      PROVE  ChainCore'
  <2> USE DEF TypeInv
  <2>1. CASE CreateFailed(a)
    <3>1. /\ Reach(a, "refused") /\ stage[a] \in {"creating", "created"} /\ entry' = entry
          /\ UNCHANGED <<owner, accounts, session, blobs, docs>> /\ stage'[a] = "refused"
          BY <2>1 DEF CreateFailed, Fail, Reach, taken, remoteVars, TypeOK
    <3> QED BY <3>1, ChainMoves DEF Stages, Past, SignedIn
  <2>2. CASE CreateAnswered(a)
    <3>1. /\ Reach(a, "uploading") /\ stage[a] = "signedIn" /\ entry' = entry
          /\ UNCHANGED <<owner, accounts, session, blobs, docs>> /\ stage'[a] = "uploading"
          BY <2>2 DEF CreateAnswered, Reach, taken, remoteVars, TypeOK
    <3> QED BY <3>1, ChainMoves DEF Stages, Past, SignedIn
  <2>3. CASE UploadFailed(a) \/ SaveRejected(a)
    <3>1. /\ Reach(a, "failed") /\ stage[a] \in {"uploading", "asking", "saving"} /\ entry' = entry
          /\ UNCHANGED <<owner, accounts, session, blobs, docs>> /\ stage'[a] = "failed"
          BY <2>3 DEF UploadFailed, SaveRejected, Fail, Reach, taken, remoteVars, TypeOK
    <3> QED BY <3>1, ChainMoves DEF Stages, Past, SignedIn
  <2>4. CASE SaveAnswered(a)
    <3>1. /\ Reach(a, "succeeded") /\ stage[a] = "stored" /\ entry' = entry
          /\ UNCHANGED <<owner, accounts, session, blobs, docs>> /\ stage'[a] = "succeeded"
          BY <2>4 DEF SaveAnswered, Reach, taken, remoteVars, TypeOK
    <3> QED BY <3>1, ChainMoves DEF Stages, Past, SignedIn
  <2> QED BY <1>5, <2>1, <2>2, <2>3, <2>4, ChainCreateAccount, ChainSignIn, ChainUpload, ChainURL,
             ChainStored DEF AuthAnswers, StorageAnswers, FirestoreAnswers
<1> QED BY <1>2, <1>3, <1>4, <1>5 DEF Next

LEMMA ChainInvariant == Spec => []ChainInv
<1>1. Init => ChainCore
      BY DEF Init, ChainCore, Unique, EntriesValid, SessionOwned, PhotosFirst, WritesOwned, DocsOwned,
             StoredThere, Past, SignedIn, Writing
<1>2. TypeInv /\ ButtonMatchesForm /\ ChainCore /\ [Next]_vars => ChainCore'
      BY ChainKept DEF ChainInv
<1>3. TypeInv /\ ButtonMatchesForm /\ ChainCore => ChainInv
      BY DEF ChainInv
<1> QED BY <1>1, <1>2, <1>3, TypeInvariant, ButtonAlwaysMatches, PTL DEF Spec

-----------------------------------------------------------------------------
(* What the chain of closures guarantees. *)

\* A profile is saved, and success reported, only under an existing account
\* that an attempt of this screen signed in.
THEOREM SavesAlwaysAddressed == Spec => []SavesAreAddressed
<1>1. ChainInv => SavesAreAddressed
  <2> SUFFICES ASSUME ChainInv, NEW a \in Attempts, Writing(a)
               PROVE  owner[a] \in accounts /\ Owned(owner[a])
      BY DEF SavesAreAddressed, Pending, Writing, Owned
  <2>1. Owned(owner[a])
        BY DEF ChainInv, ChainCore, WritesOwned
  <2> QED BY <2>1 DEF Owned, ChainInv, TypeInv, AccountsExist, Past
<1> QED BY <1>1, ChainInvariant, PTL

\* Every stored profile names its own account, has its photo in Storage, and
\* takes its name from the attempt that uploaded that photo.
THEOREM ProfilesAlwaysWhole == Spec => []ProfilesAreWhole
<1>1. ChainInv => ProfilesAreWhole
      BY DEF ChainInv, ChainCore, DocsOwned, DocOwned, ProfilesAreWhole
<1> QED BY <1>1, ChainInvariant, PTL

\* When success is printed, the account the profile was saved under has one.
THEOREM SuccessAlwaysLeavesAProfile == Spec => []SuccessLeavesAProfile
<1>1. ChainInv => SuccessLeavesAProfile
      BY DEF ChainInv, ChainCore, StoredThere, SuccessLeavesAProfile
<1> QED BY <1>1, ChainInvariant, PTL

\* An account that becomes the current user has no profile yet, and none on
\* its way: nothing was saved under its uid before it signed in.
THEOREM ProfilesFollowSessions == Spec => NoProfileBeforeSession
<1>1. ChainInv /\ [Next]_vars =>
        [session' # session =>
           /\ docs[session'] = NoDoc
           /\ \A a \in Attempts : Pending(a) => owner[a] # session']_vars
  <2> SUFFICES ASSUME ChainInv, [Next]_vars, session' # session
               PROVE  /\ docs[session'] = NoDoc
                      /\ \A a \in Attempts : Pending(a) => owner[a] # session'
      OBVIOUS
  <2> USE DEF ChainInv, ChainCore, TypeInv
  <2>1. PICK a \in Attempts : SignInAsNew(a)
    <3>1. ~ UNCHANGED session
          OBVIOUS
    <3> QED BY <3>1 DEF Next, User, EditField, OpenPicker, LeavePicker, OpenLogin,
             BackFromLogin, PressRegister, AuthAnswers, CreateAccount, CreateFailed, CreateAnswered,
             StorageAnswers, UploadAnswered, UploadFailed, URLAnswered, FirestoreAnswers, SaveStored,
             SaveAnswered, SaveRejected, HudSteps, RegisterHudTimer, RegisterHudAnimated,
             ErrorHudTimer, ErrorHudAnimated, remoteVars, vars
  <2>2. session' = entry[a].email /\ Past(a) /\ ~SignedIn(a)
        BY <2>1 DEF SignInAsNew, Past, SignedIn
  <2>3. session' \in Emails
        BY <2>2 DEF AccountsExist, TypeOK
  <2>4. ~Owned(session')
        BY <2>2 DEF Owned, Unique, Past
  <2> QED BY <2>3, <2>4 DEF DocsOwned, DocOwned, WritesOwned, Writing, Pending
<1> QED BY <1>1, ChainInvariant, PTL DEF Spec, NoProfileBeforeSession
=============================================================================
