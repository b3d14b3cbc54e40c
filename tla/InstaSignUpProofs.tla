-------------------------- MODULE InstaSignUpProofs --------------------------
(***************************************************************************)
(* Proofs about InstaSignUp, for any number of presses and any texts and   *)
(* photos: its safety, and that it implements SignUpContract.              *)
(*                                                                         *)
(* The argument runs through the HUD.  An attempt that waits for Auth or   *)
(* Storage has its HUD held over the screen (BusyCovered), so nobody can   *)
(* press Register or choose a photo meanwhile; attempts are therefore busy *)
(* one at a time, and the account signed in last is the busy one's.        *)
(***************************************************************************)
EXTENDS InstaSignUp, ProgressHUDProofs

\* The server has made the account of the attempt.
Past(a) == stage[a] \notin {"idle", "creating", "refused"}

AccountsExist == \A a \in Attempts : Past(a) => entry[a].email \in accounts

\* The button is enabled over a valid form, or over one without an address.
ButtonInv == enabled => FieldsValid(form) \/ form.email = EmptyText

EntriesInv ==
  \A a \in Attempts : stage[a] # "idle" => FieldsValid(entry[a]) \/ entry[a].email = EmptyText

IdleFresh == \A a \in Attempts : stage[a] = "idle" => hud[a] = NewHud

BusyCovered == \A a \in Attempts : Busy(a) => Held(hud[a])

PickerAlone == front = "picker" => \A a \in Attempts : ~Busy(a)

SignUpInv ==
  /\ TypeOK
  /\ AccountsExist
  /\ ButtonInv /\ EntriesInv /\ EmptyFormNeverRegisters
  /\ IdleFresh /\ BusyCovered /\ PickerAlone
  /\ OneAtATime /\ SessionIsOwn

-----------------------------------------------------------------------------
(* The kinds of steps.                                                     *)

Screen ==
  \/ \E field \in DOMAIN form : \E text \in Texts(field) : EditField(field, text)
  \/ ChoosePhoto \/ CancelPicker \/ \E img \in Images \cup {NoImage} : PickPhoto(img)

\* The steps of an attempt that is not idle, and the stages they lead to.
Moves(a) ==
  AuthAnswers(a) \/ StorageAnswers(a) \/ FirestoreAnswers(a)

\* What every answer has in common: it moves one attempt on from a stage that
\* is not idle, to no earlier stage, and leaves the captured texts alone.
LEMMA MovesOne ==
  ASSUME TypeOK, NEW a \in Attempts, Moves(a)
  PROVE  /\ entry' = entry
         /\ stage' \in [Attempts -> Stages]
         /\ \A b \in Attempts : b # a => stage'[b] = stage[b]
         /\ stage[a] # "idle" /\ stage'[a] \notin {"idle", "creating"}
         /\ Busy(a)' => Busy(a)
         /\ ~CreateAccount(a) => (Past(a)' => Past(a)) /\ accounts' = accounts
         /\ enabled' = enabled /\ front' = front
<1> USE DEF Moves, Reach, TypeOK, Stages, Busy, Past
<1>1. CASE CreateAccount(a)
      BY <1>1 DEF CreateAccount, screen, taken
<1>2. CASE SignInAsNew(a)
      BY <1>2 DEF SignInAsNew, screen, taken
<1>3. CASE CreateFailed(a)
      BY <1>3 DEF CreateFailed, screen, taken, remote
<1>4. CASE CreateAnswered(a)
      BY <1>4 DEF CreateAnswered, screen, remote
<1>5. CASE UploadAnswered(a) \/ UploadFailed(a)
      BY <1>5 DEF UploadAnswered, UploadFailed, screen, taken, remote
<1>6. CASE URLAnswered(a)
      BY <1>6 DEF URLAnswered, ResetAppearance, remote
<1>7. CASE SaveStored(a)
      BY <1>7 DEF SaveStored, screen, taken
<1>8. CASE SaveAnswered(a) \/ SaveRejected(a)
      BY <1>8 DEF SaveAnswered, SaveRejected, screen, taken, remote
<1> QED
    BY <1>1, <1>2, <1>3, <1>4, <1>5, <1>6, <1>7, <1>8
    DEF AuthAnswers, StorageAnswers, FirestoreAnswers

\* A HUD is only changed by its own attempt's answers and by its own steps.
LEMMA MovesHud ==
  ASSUME TypeOK, NEW a \in Attempts, Moves(a)
  PROVE  /\ hud' \in [Attempts -> HudType]
         /\ \A b \in Attempts : b # a => hud'[b] = hud[b]
         /\ Busy(a)' => hud'[a] = hud[a]
<1> USE DEF Moves, TypeOK
<1>1. CASE UNCHANGED hud
      BY <1>1
<1>2. CASE CreateFailed(a)
      BY <1>2, HudTypeKept DEF CreateFailed, Reach, Busy
<1>3. CASE URLAnswered(a)
      BY <1>3, HudTypeKept DEF URLAnswered, Reach, Busy
<1> QED
    BY <1>1, <1>2, <1>3
    DEF AuthAnswers, StorageAnswers, FirestoreAnswers, CreateAccount, SignInAsNew,
        CreateAnswered, UploadAnswered, UploadFailed, SaveStored, SaveAnswered, SaveRejected

LEMMA ScreenOnly ==
  ASSUME TypeOK, Screen
  PROVE  /\ UNCHANGED <<hud, stage, taken, remote>>
         /\ front' # front => Touchable \/ front' = "form"
         /\ form' \in Form /\ image' \in Pictures /\ enabled' \in BOOLEAN
         /\ front' \in {"form", "picker"}
         /\ image' # image => front = "picker"
         /\ UNCHANGED <<form, enabled>> \/ enabled' = FieldsValid(form')
<1>1. ASSUME NEW field \in DOMAIN form, NEW text \in Texts(field), EditField(field, text)
      PROVE  form' \in Form /\ enabled' \in BOOLEAN
      BY <1>1 DEF EditField, Texts, TypeOK, Form, FieldsValid
<1>2. ASSUME NEW field \in DOMAIN form, NEW text \in Texts(field), EditField(field, text)
      PROVE  /\ UNCHANGED <<hud, stage, taken, remote, image, front>>
             /\ enabled' = FieldsValid(form')
      BY <1>2 DEF EditField
<1>3. CASE ChoosePhoto \/ CancelPicker
      BY <1>3 DEF ChoosePhoto, CancelPicker, TypeOK
<1>4. ASSUME NEW img \in Images \cup {NoImage}, PickPhoto(img)
      PROVE  /\ UNCHANGED <<hud, stage, taken, remote, form, enabled>>
             /\ front = "picker" /\ front' = "form" /\ image' \in Pictures
      BY <1>4 DEF PickPhoto, Pictures
<1> QED
    BY <1>1, <1>2, <1>3, <1>4 DEF Screen, TypeOK

\* Register is only pressed while nobody is busy.
LEMMA PressAlone ==
  ASSUME TypeOK, BusyCovered, NEW a \in Attempts, RegisterClicked(a)
  PROVE  \A b \in Attempts : ~Busy(b)
BY HeldKept DEF BusyCovered, RegisterClicked, Touchable

\* What a press changes.
LEMMA PressOne ==
  ASSUME TypeOK, IdleFresh, NEW a \in Attempts, RegisterClicked(a)
  PROVE  /\ entry' = [entry EXCEPT ![a] = form] /\ stage' = [stage EXCEPT ![a] = "creating"]
         /\ hud' = [hud EXCEPT ![a] = Show(NewHud)] /\ Show(NewHud) \in HudType
         /\ enabled /\ front = "form" /\ stage[a] = "idle"
         /\ UNCHANGED <<screen, photo, link, remote>>
<1>1. hud[a] = NewHud /\ hud[a] \in HudType
      BY DEF IdleFresh, RegisterClicked, TypeOK
<1> QED
    BY <1>1, HudTypeKept DEF RegisterClicked, Touchable, Reach

LEMMA HudStepOne ==
  ASSUME TypeOK, NEW a \in Attempts, HudTimer(a) \/ HudAnimated(a)
  PROVE  /\ UNCHANGED <<screen, stage, taken, remote>>
         /\ hud' \in [Attempts -> HudType]
         /\ \A b \in Attempts : b # a => hud'[b] = hud[b]
         /\ Held(hud[a]) => Held(hud'[a])
         /\ hud[a] # NewHud
<1>1. hud[a] \in HudType
      BY DEF TypeOK
<1>2. CASE HudTimer(a)
      BY <1>1, <1>2, HudTypeKept DEF HudTimer, TypeOK, Held, NewHud
<1>3. CASE HudAnimated(a)
      BY <1>1, <1>3, HudTypeKept, HeldKept DEF HudAnimated, TypeOK, Transitioning, NewHud
<1> QED
    BY <1>2, <1>3

-----------------------------------------------------------------------------
(* Types, and the accounts of the attempts past createUser.                *)

LEMMA TypeStep == TypeOK /\ AccountsExist /\ IdleFresh /\ [Next]_vars => TypeOK'
<1> SUFFICES ASSUME TypeOK, AccountsExist, IdleFresh, [Next]_vars PROVE TypeOK'
    OBVIOUS
<1>1. CASE Screen
      BY <1>1, ScreenOnly DEF TypeOK, taken, remote
<1>2. ASSUME NEW a \in Attempts, RegisterClicked(a) PROVE TypeOK'
  <2>1. form \in Form /\ hud' \in [Attempts -> HudType]
        BY <1>2, PressOne DEF TypeOK
  <2>2. stage' \in [Attempts -> Stages] /\ entry' \in [Attempts -> Form]
        BY <1>2, <2>1, PressOne DEF TypeOK, Stages
  <2> QED
      BY <1>2, <2>1, <2>2, PressOne DEF TypeOK, screen, remote
<1>3. ASSUME NEW a \in Attempts, Moves(a) PROVE TypeOK'
  <2>1. stage' \in [Attempts -> Stages] /\ entry' = entry /\ hud' \in [Attempts -> HudType]
        BY <1>3, MovesOne, MovesHud
  <2>2. entry[a].email \in Emails \cup {EmptyText} /\ entry[a].name \in Names \cup {EmptyText}
        BY DEF TypeOK, Form
  <2>3. Past(a) => entry[a].email \in Emails
        BY DEF AccountsExist, TypeOK
  <2>4. CASE CreateAccount(a)
        BY <2>1, <2>2, <2>4 DEF CreateAccount, TypeOK, screen, taken
  <2>5. CASE SignInAsNew(a)
        BY <2>1, <2>3, <2>5 DEF SignInAsNew, Past, TypeOK, screen, taken
  <2>6. CASE CreateFailed(a) \/ UploadAnswered(a) \/ UploadFailed(a) \/ SaveAnswered(a) \/ SaveRejected(a)
        BY <2>1, <2>6
        DEF CreateFailed, UploadAnswered, UploadFailed, SaveAnswered, SaveRejected, TypeOK,
            screen, taken, remote
  <2>7. CASE CreateAnswered(a)
        BY <2>1, <2>7 DEF CreateAnswered, TypeOK, screen, remote
  <2>8. CASE URLAnswered(a)
    <3>1. link' \in [Attempts -> Attempts \cup {NoURL}]
          BY <2>8 DEF URLAnswered, TypeOK
    <3>2. image' \in Pictures /\ form' \in Form /\ UNCHANGED <<enabled, front>>
          BY <2>8 DEF URLAnswered, ResetAppearance, BlankForm, Form, Pictures
    <3> QED
        BY <2>1, <2>8, <3>1, <3>2 DEF URLAnswered, TypeOK, remote
  <2>9. CASE SaveStored(a)
    <3>1. Profile(a) \in Doc
          BY <2>2, <2>3, <2>9 DEF SaveStored, Past, Profile, Doc, TypeOK
    <3> QED
        BY <2>1, <2>9, <3>1 DEF SaveStored, TypeOK, screen, taken
  <2> QED
      BY <1>3, <2>4, <2>5, <2>6, <2>7, <2>8, <2>9
      DEF Moves, AuthAnswers, StorageAnswers, FirestoreAnswers
<1>4. ASSUME NEW a \in Attempts, HudTimer(a) \/ HudAnimated(a) PROVE TypeOK'
      BY <1>4, HudStepOne DEF TypeOK, screen, taken, remote
<1>5. CASE UNCHANGED vars
      BY <1>5 DEF vars, TypeOK
<1> QED
    BY <1>1, <1>2, <1>3, <1>4, <1>5 DEF Next, User, Screen, Moves

LEMMA AccountsStep == TypeOK /\ AccountsExist /\ IdleFresh /\ [Next]_vars => AccountsExist'
<1> SUFFICES ASSUME TypeOK, AccountsExist, IdleFresh, [Next]_vars PROVE AccountsExist'
    OBVIOUS
<1> USE DEF AccountsExist, Past
<1>1. CASE UNCHANGED <<stage, entry, accounts>>
      BY <1>1
<1>2. ASSUME NEW a \in Attempts, RegisterClicked(a) PROVE AccountsExist'
      BY <1>2, PressOne DEF TypeOK, remote
<1>3. ASSUME NEW a \in Attempts, Moves(a) PROVE AccountsExist'
  <2>1. CASE CreateAccount(a)
        BY <2>1 DEF CreateAccount, Reach, TypeOK, taken
  <2>2. CASE ~CreateAccount(a)
        BY <1>3, <2>2, MovesOne
  <2> QED
      BY <2>1, <2>2
<1> QED
    BY <1>1, <1>2, <1>3, ScreenOnly, HudStepOne
    DEF Next, User, Screen, Moves, vars, taken, remote

-----------------------------------------------------------------------------
(* The form and the texts an attempt took from it.                         *)

\* An address that is no text is no account's: with it createUser refuses.
LEMMA FormStep ==
  /\ TypeOK /\ IdleFresh /\ AccountsExist
  /\ ButtonInv /\ EntriesInv /\ EmptyFormNeverRegisters
  /\ [Next]_vars
  => ButtonInv' /\ EntriesInv' /\ EmptyFormNeverRegisters'
<1> SUFFICES ASSUME TypeOK, IdleFresh, AccountsExist, ButtonInv, EntriesInv,
                    EmptyFormNeverRegisters, [Next]_vars
             PROVE  ButtonInv' /\ EntriesInv' /\ EmptyFormNeverRegisters'
    OBVIOUS
<1> USE DEF ButtonInv, EntriesInv, EmptyFormNeverRegisters, FieldsValid
<1>1. CASE Screen
  <2>1. ButtonInv'
        BY <1>1, ScreenOnly
  <2>2. EntriesInv' /\ EmptyFormNeverRegisters'
        BY <1>1, ScreenOnly DEF taken
  <2> QED
      BY <2>1, <2>2
<1>2. ASSUME NEW a \in Attempts, RegisterClicked(a)
      PROVE  ButtonInv' /\ EntriesInv' /\ EmptyFormNeverRegisters'
  <2>1. UNCHANGED <<form, enabled>> /\ enabled
        BY <1>2, PressOne DEF screen
  <2>2. entry' = [entry EXCEPT ![a] = form] /\ stage' = [stage EXCEPT ![a] = "creating"]
        BY <1>2, PressOne
  <2>3. ASSUME NEW b \in Attempts
        PROVE  /\ stage'[b] # "idle" => FieldsValid(entry'[b]) \/ entry'[b].email = EmptyText
               /\ stage'[b] \notin {"idle", "creating", "refused"} => FieldsValid(entry'[b])
        BY <2>1, <2>2 DEF TypeOK
  <2> QED
      BY <2>1, <2>3
<1>3. ASSUME NEW a \in Attempts, Moves(a)
      PROVE  ButtonInv' /\ EntriesInv' /\ EmptyFormNeverRegisters'
  <2>1. ButtonInv'
    <3>1. form' = form \/ form' = BlankForm
          BY <1>3
          DEF Moves, AuthAnswers, StorageAnswers, FirestoreAnswers, CreateAccount, SignInAsNew,
              CreateFailed, CreateAnswered, UploadAnswered, UploadFailed, URLAnswered,
              ResetAppearance, SaveStored, SaveAnswered, SaveRejected, screen
    <3>2. enabled' = enabled
          BY <1>3, MovesOne
    <3> QED
        BY <3>1, <3>2 DEF BlankForm
  <2>2. EntriesInv'
        BY <1>3, MovesOne
  <2>3. CASE CreateAccount(a)
    <3>1. FieldsValid(entry[a])
          BY <2>3 DEF CreateAccount
    <3> QED
        BY <1>3, <2>1, <2>2, <3>1, MovesOne
  <2>4. CASE ~CreateAccount(a)
        BY <1>3, <2>1, <2>2, <2>4, MovesOne DEF Past
  <2> QED
      BY <2>3, <2>4
<1>4. ASSUME NEW a \in Attempts, HudTimer(a) \/ HudAnimated(a)
      PROVE  ButtonInv' /\ EntriesInv' /\ EmptyFormNeverRegisters'
      BY <1>4, HudStepOne DEF screen, taken
<1>5. CASE UNCHANGED vars
      BY <1>5 DEF vars
<1> QED
    BY <1>1, <1>2, <1>3, <1>4, <1>5 DEF Next, User, Screen, Moves

-----------------------------------------------------------------------------
(* The HUD keeps the attempts apart.                                       *)

LEMMA HudStep ==
  /\ TypeOK /\ IdleFresh /\ BusyCovered /\ PickerAlone /\ OneAtATime
  /\ [Next]_vars
  => IdleFresh' /\ BusyCovered' /\ PickerAlone' /\ OneAtATime'
<1> SUFFICES ASSUME TypeOK, IdleFresh, BusyCovered, PickerAlone, OneAtATime, [Next]_vars
             PROVE  IdleFresh' /\ BusyCovered' /\ PickerAlone' /\ OneAtATime'
    OBVIOUS
<1> USE DEF IdleFresh, BusyCovered, PickerAlone, OneAtATime
<1>1. CASE Screen
  <2>1. \A b \in Attempts : stage'[b] = stage[b] /\ hud'[b] = hud[b] /\ (Busy(b)' <=> Busy(b))
        BY <1>1, ScreenOnly DEF Busy
  <2>2. Touchable => \A b \in Attempts : ~Busy(b)
        BY HeldKept DEF Touchable
  <2>3. PickerAlone'
        BY <1>1, <2>1, <2>2, ScreenOnly
  <2> QED
      BY <2>1, <2>3
<1>2. ASSUME NEW a \in Attempts, RegisterClicked(a)
      PROVE  IdleFresh' /\ BusyCovered' /\ PickerAlone' /\ OneAtATime'
  <2>1. \A b \in Attempts : ~Busy(b)
        BY <1>2, PressAlone
  <2>2. /\ stage' = [stage EXCEPT ![a] = "creating"]
        /\ hud' = [hud EXCEPT ![a] = Show(NewHud)]
        /\ front' = "form"
        BY <1>2, PressOne DEF screen
  <2>3. \A b \in Attempts : b # a => ~Busy(b)' /\ stage'[b] = stage[b] /\ hud'[b] = hud[b]
        BY <2>1, <2>2 DEF Busy, TypeOK
  <2>4. stage'[a] = "creating" /\ Held(hud'[a])
        BY <2>2, HeldKept DEF TypeOK
  <2> QED
      BY <2>2, <2>3, <2>4
<1>3. ASSUME NEW a \in Attempts, Moves(a)
      PROVE  IdleFresh' /\ BusyCovered' /\ PickerAlone' /\ OneAtATime'
  <2>1. \A b \in Attempts : Busy(b)' => Busy(b) /\ hud'[b] = hud[b]
        BY <1>3, MovesOne, MovesHud DEF Busy
  <2>2. IdleFresh'
        BY <1>3, MovesOne, MovesHud
  <2> QED
      BY <1>3, <2>1, <2>2, MovesOne
<1>4. ASSUME NEW a \in Attempts, HudTimer(a) \/ HudAnimated(a)
      PROVE  IdleFresh' /\ BusyCovered' /\ PickerAlone' /\ OneAtATime'
  <2>1. \A b \in Attempts : stage'[b] = stage[b] /\ (Busy(b)' <=> Busy(b))
        BY <1>4, HudStepOne DEF Busy
  <2>2. \A b \in Attempts : Held(hud[b]) => Held(hud'[b])
        BY <1>4, HudStepOne
  <2>3. \A b \in Attempts : hud[b] = NewHud => hud'[b] = hud[b]
        BY <1>4, HudStepOne
  <2>4. front' = front
        BY <1>4, HudStepOne DEF screen
  <2> QED
      BY <2>1, <2>2, <2>3, <2>4
<1>5. CASE UNCHANGED vars
      BY <1>5 DEF vars, Busy
<1> QED
    BY <1>1, <1>2, <1>3, <1>4, <1>5 DEF Next, User, Screen, Moves

LEMMA SessionStep ==
  TypeOK /\ IdleFresh /\ BusyCovered /\ OneAtATime /\ SessionIsOwn /\ [Next]_vars => SessionIsOwn'
<1> SUFFICES ASSUME TypeOK, IdleFresh, BusyCovered, OneAtATime, SessionIsOwn, [Next]_vars
             PROVE  SessionIsOwn'
    OBVIOUS
<1> USE DEF SessionIsOwn
<1>1. CASE UNCHANGED <<stage, entry, session>>
      BY <1>1
<1>2. ASSUME NEW a \in Attempts, RegisterClicked(a) PROVE SessionIsOwn'
      BY <1>2, PressOne DEF TypeOK, remote
<1>3. ASSUME NEW a \in Attempts, Moves(a) PROVE SessionIsOwn'
  <2>1. CASE SignInAsNew(a)
    <3>1. ASSUME NEW b \in Attempts, b # a
          PROVE  stage'[b] \notin {"signedIn", "uploading", "asking"}
          BY <1>3, <2>1, <3>1, MovesOne DEF SignInAsNew, OneAtATime, Busy
    <3>2. session' = entry'[a].email
          BY <2>1 DEF SignInAsNew, taken
    <3> QED
        BY <3>1, <3>2
  <2>2. CASE ~SignInAsNew(a)
    <3>1. session' = session
          BY <1>3, <2>2
          DEF Moves, AuthAnswers, StorageAnswers, FirestoreAnswers, CreateAccount,
              CreateFailed, CreateAnswered, UploadAnswered, UploadFailed, URLAnswered,
              SaveStored, SaveAnswered, SaveRejected, remote
    <3>2. stage'[a] \in {"signedIn", "uploading", "asking"} => stage[a] \in {"signedIn", "uploading", "asking"}
          BY <1>3, <2>2
          DEF Moves, AuthAnswers, StorageAnswers, FirestoreAnswers, CreateAccount,
              CreateFailed, CreateAnswered, UploadAnswered, UploadFailed, URLAnswered,
              SaveStored, SaveAnswered, SaveRejected, Reach, TypeOK
    <3> QED
        BY <1>3, <3>1, <3>2, MovesOne
  <2> QED
      BY <2>1, <2>2
<1> QED
    BY <1>1, <1>2, <1>3, ScreenOnly, HudStepOne
    DEF Next, User, Screen, Moves, vars, taken, remote

-----------------------------------------------------------------------------
LEMMA SignUpInit == Init => SignUpInv
<1> SUFFICES ASSUME Init PROVE SignUpInv
    OBVIOUS
<1>1. TypeOK
  <2>1. NewHud \in HudType /\ BlankForm \in Form
        BY DEF NewHud, HudType, HudPhases, BlankForm, Form
  <2> QED
      BY <2>1 DEF Init, TypeOK, Stages, Pictures
<1> QED
    BY <1>1
    DEF Init, SignUpInv, AccountsExist, Past, ButtonInv, EntriesInv, EmptyFormNeverRegisters,
        IdleFresh, BusyCovered, Busy, PickerAlone, OneAtATime, SessionIsOwn

LEMMA SignUpAlways == Spec => []SignUpInv
<1>1. SignUpInv /\ [Next]_vars => SignUpInv'
      BY TypeStep, AccountsStep, FormStep, HudStep, SessionStep DEF SignUpInv
<1> QED
    BY <1>1, SignUpInit, PTL DEF Spec

\* Every variable of the screen keeps its type.
THEOREM InstaTypeCorrect == Spec => []TypeOK
BY SignUpAlways, PTL DEF SignUpInv

\* The HUD of a press keeps every other press away until its URL is known.
THEOREM AttemptsOneAtATime == Spec => []OneAtATime
BY SignUpAlways, PTL DEF SignUpInv

\* An upload and its write run in the session of the account they are for.
THEOREM SessionAlwaysOwn == Spec => []SessionIsOwn
BY SignUpAlways, PTL DEF SignUpInv

\* The button resetAppearance leaves enabled over empty fields makes no account.
THEOREM EmptyFormsNeverRegister == Spec => []EmptyFormNeverRegisters
BY SignUpAlways, PTL DEF SignUpInv

\* The photo of the press is the photo uploaded.
THEOREM PhotoAlwaysStaysPut == Spec => PhotoStaysPut
<1>1. ASSUME SignUpInv, Next, NEW a \in Attempts,
             stage[a] \in {"creating", "created", "signedIn"}
      PROVE  image' = image
  <2>1. Busy(a) /\ \A b \in Attempts : Busy(b) => b = a
        BY <1>1 DEF Busy, SignUpInv, OneAtATime
  <2>2. CASE Screen
        BY <1>1, <2>1, <2>2, ScreenOnly DEF SignUpInv, PickerAlone
  <2>3. ASSUME NEW b \in Attempts, URLAnswered(b) PROVE FALSE
        BY <1>1, <2>1, <2>3 DEF URLAnswered, Busy
  <2>4. ASSUME NEW b \in Attempts,
               RegisterClicked(b) \/ Moves(b) \/ HudTimer(b) \/ HudAnimated(b)
        PROVE  image' = image
        BY <2>3, <2>4
        DEF RegisterClicked, Moves, AuthAnswers, StorageAnswers, FirestoreAnswers, CreateAccount,
            SignInAsNew, CreateFailed, CreateAnswered, UploadAnswered, UploadFailed,
            SaveStored, SaveAnswered, SaveRejected, HudTimer, HudAnimated, screen
  <2> QED
      BY <1>1, <2>2, <2>4 DEF Next, User, Screen, Moves
<1>2. SignUpInv /\ [Next]_vars =>
        [\A a \in Attempts : stage[a] \in {"creating", "created", "signedIn"} => image' = image]_vars
      BY <1>1 DEF vars
<1> QED
    BY <1>2, SignUpAlways, PTL DEF Spec, PhotoStaysPut

-----------------------------------------------------------------------------
(* The screen implements its contract.  Of a step the contract sees the    *)
(* stage it leads to, the texts it takes and the name it saves.            *)

\* The state of each request, as the contract sees it.
Seen == [a \in Attempts |-> Progress(stage[a])]

LEMMA ProgressOf ==
  /\ Progress("idle") = "none" /\ Progress("creating") = "asked"
  /\ \A s \in {"created", "signedIn", "uploading", "asking", "saving"} : Progress(s) = "made"
  /\ Progress("stored") = "saved" /\ Progress("succeeded") = "reported"
  /\ \A s \in {"refused", "stuck", "unsaved"} : Progress(s) = "failed"
BY DEF Progress

LEMMA SeenMoves ==
  ASSUME TypeOK, NEW a \in Attempts, NEW s, Reach(a, s)
  PROVE  Seen' = [Seen EXCEPT ![a] = Progress(s)]
<1>1. \A b \in Attempts : stage'[b] = IF b = a THEN s ELSE stage[b]
      BY DEF Reach, TypeOK
<1>2. \A b \in Attempts : Progress(stage'[b]) = IF b = a THEN Progress(s) ELSE Progress(stage[b])
      BY <1>1
<1> QED
    BY <1>2 DEF Seen

\* A step within one stage of the contract.
LEMMA SeenStays ==
  ASSUME TypeOK, NEW a \in Attempts, NEW s, Reach(a, s), Progress(s) = Progress(stage[a])
  PROVE  Seen' = Seen
BY SeenMoves DEF Seen

LEMMA ContractInit == Init => Contract!Init
<1> SUFFICES ASSUME Init PROVE Contract!Init
    OBVIOUS
<1>1. [a \in Attempts |-> Progress(stage[a])] = [a \in Attempts |-> "none"]
      BY ProgressOf DEF Init
<1> QED
    BY <1>1 DEF Init, Contract!Init, BlankForm

LEMMA ContractAsks ==
  ASSUME TypeOK, IdleFresh, NEW a \in Attempts, RegisterClicked(a)
  PROVE  Contract!Ask(a)
<1>1. Seen[a] = "none" /\ Seen' = [Seen EXCEPT ![a] = "asked"]
      BY PressOne, SeenMoves, ProgressOf DEF Seen, Reach
<1>2. UNCHANGED <<accounts, docs>> /\ entry' = [entry EXCEPT ![a] = form]
      BY PressOne DEF remote
<1>3. /\ [b \in Attempts |-> entry'[b].email]
           = [[b \in Attempts |-> entry[b].email] EXCEPT ![a] = form.email]
      /\ [b \in Attempts |-> entry'[b].name]
           = [[b \in Attempts |-> entry[b].name] EXCEPT ![a] = form.name]
      BY <1>2 DEF TypeOK
<1>4. form.email \in Emails \cup Names \cup {EmptyText} /\ form.name \in Emails \cup Names \cup {EmptyText}
      BY DEF TypeOK, Form
<1> QED
    BY <1>1, <1>2, <1>3, <1>4 DEF Contract!Ask, Seen

LEMMA ContractMakes ==
  ASSUME TypeOK, NEW a \in Attempts, CreateAccount(a)
  PROVE  Contract!Make(a)
<1>1. Seen[a] = "asked" /\ Seen' = [Seen EXCEPT ![a] = "made"]
      BY SeenMoves, ProgressOf DEF Seen, CreateAccount
<1>2. entry[a].email \in Emails \ accounts
      BY DEF CreateAccount, TypeOK, Form
<1>3. accounts' = accounts \cup {entry[a].email} /\ UNCHANGED <<entry, docs>>
      BY DEF CreateAccount, taken
<1> QED
    BY <1>1, <1>2, <1>3 DEF Contract!Make, Seen

\* The document of one address is written, the names in the others stay.
LEMMA ContractSaves ==
  ASSUME TypeOK, AccountsExist, NEW a \in Attempts, SaveStored(a)
  PROVE  Contract!Save(a)
<1> DEFINE name(u) == IF docs[u] = NoDoc THEN NoDoc ELSE docs[u].UserName
<1>1. Seen[a] = "made" /\ Seen' = [Seen EXCEPT ![a] = "saved"]
      BY SeenMoves, ProgressOf DEF Seen, SaveStored
<1>2. entry[a].email \in Emails /\ Profile(a).UserName = entry[a].name /\ Profile(a) # NoDoc
  <2>1. entry[a].email \in Emails
        BY DEF SaveStored, Past, AccountsExist, TypeOK
  <2>2. Profile(a) \in Doc
        BY <2>1 DEF Profile, Doc, TypeOK, Form
  <2> QED
      BY <2>1, <2>2, NothingAssumption DEF Profile
<1>3. docs' = [docs EXCEPT ![entry[a].email] = Profile(a)] /\ UNCHANGED <<entry, accounts>>
      BY DEF SaveStored, taken
<1>4. \A u \in Emails : docs'[u] = IF u = entry[a].email THEN Profile(a) ELSE docs[u]
      BY <1>3 DEF TypeOK
<1>5. \A u \in Emails : name(u)' = IF u = entry[a].email THEN entry[a].name ELSE name(u)
      BY <1>2, <1>4
<1>6. [u \in Emails |-> name(u)]' = [[u \in Emails |-> name(u)] EXCEPT ![entry[a].email] = entry[a].name]
      BY <1>5
<1> QED
    BY <1>1, <1>2, <1>3, <1>6 DEF Contract!Save, Seen

LEMMA ContractReports ==
  ASSUME TypeOK, NEW a \in Attempts, SaveAnswered(a)
  PROVE  Contract!Report(a)
<1>1. Seen[a] = "saved" /\ Seen' = [Seen EXCEPT ![a] = "reported"]
      BY SeenMoves, ProgressOf DEF Seen, SaveAnswered
<1> QED
    BY <1>1 DEF SaveAnswered, Contract!Report, Seen, taken, remote

LEMMA ContractFails ==
  ASSUME TypeOK, NEW a \in Attempts, CreateFailed(a) \/ UploadFailed(a) \/ SaveRejected(a)
  PROVE  Contract!Fail(a)
<1>1. Seen[a] \in {"asked", "made"} /\ Seen' = [Seen EXCEPT ![a] = "failed"]
  <2>1. stage[a] \in {"creating", "created", "uploading", "saving"}
        BY DEF CreateFailed, UploadFailed, SaveRejected
  <2>2. \E s \in {"refused", "stuck", "unsaved"} : Reach(a, s)
        BY DEF CreateFailed, UploadFailed, SaveRejected
  <2> QED
      BY <2>1, <2>2, SeenMoves, ProgressOf DEF Seen
<1> QED
    BY <1>1 DEF CreateFailed, UploadFailed, SaveRejected, Contract!Fail, Seen, taken, remote

\* The steps in between, which the contract does not see.
LEMMA ContractStutters ==
  ASSUME TypeOK, NEW a \in Attempts,
         SignInAsNew(a) \/ CreateAnswered(a) \/ UploadAnswered(a) \/ URLAnswered(a)
  PROVE  UNCHANGED Contract!vars
<1>1. Seen' = Seen
  <2>1. \E s \in {"signedIn", "uploading", "asking", "saving"} : Reach(a, s)
        BY DEF SignInAsNew, CreateAnswered, UploadAnswered, URLAnswered
  <2>2. stage[a] \in {"created", "signedIn", "uploading", "asking"}
        BY DEF SignInAsNew, CreateAnswered, UploadAnswered, URLAnswered
  <2> QED
      BY <2>1, <2>2, SeenStays, ProgressOf
<1>2. UNCHANGED <<entry, accounts, docs>>
      BY DEF SignInAsNew, CreateAnswered, UploadAnswered, URLAnswered, taken, remote
<1> QED
    BY <1>1, <1>2 DEF Contract!vars, Seen

LEMMA ContractStep ==
  SignUpInv /\ [Next]_vars => [Contract!Next]_(Contract!vars)
<1> SUFFICES ASSUME SignUpInv, [Next]_vars
             PROVE  Contract!Next \/ UNCHANGED Contract!vars
    OBVIOUS
<1> TypeOK /\ AccountsExist /\ IdleFresh
    BY DEF SignUpInv
<1>1. CASE UNCHANGED <<stage, entry, accounts, docs>>
      BY <1>1 DEF Contract!vars
<1>2. ASSUME NEW a \in Attempts, RegisterClicked(a) \/ Moves(a)
      PROVE  Contract!Next \/ UNCHANGED Contract!vars
      BY <1>2, ContractAsks, ContractMakes, ContractSaves, ContractReports, ContractFails,
         ContractStutters
      DEF Contract!Next, Moves, AuthAnswers, StorageAnswers, FirestoreAnswers
<1> QED
    BY <1>1, <1>2, ScreenOnly, HudStepOne DEF Next, User, Screen, Moves, vars, taken, remote

\* Whatever the number of presses and the order of the answers, what the screen
\* does is a sign-up as the contract describes it.
THEOREM ImplementsContract == Spec => KeepsContract
<1>1. SignUpInv /\ [Next]_vars => [Contract!Next]_(Contract!vars)
      BY ContractStep
<1> QED
    BY <1>1, ContractInit, SignUpAlways, PTL DEF Spec, KeepsContract, Contract!Spec

-----------------------------------------------------------------------------
(* The promise of the contract.  It is proved from the contract's steps    *)
(* alone: what the screen adds to them plays no part.  No two requests     *)
(* that got an account got the same one, so the profile a request has      *)
(* saved is not written over by another.                                   *)

\* The other variables of the contract.
SeenEmail   == [a \in Attempts |-> entry[a].email]
SeenName    == [a \in Attempts |-> entry[a].name]
SeenProfile == [u \in Emails |-> IF docs[u] = NoDoc THEN NoDoc ELSE docs[u].UserName]

Served(r) == Seen[r] \in {"made", "saved", "reported"}

ContractInv ==
  /\ Contract!TypeOK
  /\ \A r \in Attempts : Served(r) => SeenEmail[r] \in accounts
  /\ \A r, s \in Attempts : Served(r) /\ Served(s) /\ SeenEmail[r] = SeenEmail[s] => r = s
  /\ \A r \in Attempts : Seen[r] \in {"saved", "reported"} => SeenProfile[SeenEmail[r]] = SeenName[r]

\* The contract's types, in the names given here.
LEMMA ContractTypes ==
  Contract!TypeOK <=>
    /\ Seen \in [Attempts -> {"none", "asked", "made", "saved", "reported", "failed"}]
    /\ SeenEmail \in [Attempts -> Emails \cup Names \cup {EmptyText}]
    /\ SeenName \in [Attempts -> Emails \cup Names \cup {EmptyText}]
    /\ accounts \subseteq Emails
    /\ SeenProfile \in [Emails -> Emails \cup Names \cup {EmptyText, NoDoc}]
<1>1. Emails \cup Names \cup {EmptyText} \cup {EmptyText} = Emails \cup Names \cup {EmptyText}
      OBVIOUS
<1>2. Emails \cup Names \cup {EmptyText} \cup {EmptyText, NoDoc} = Emails \cup Names \cup {EmptyText, NoDoc}
      OBVIOUS
<1> QED
    BY <1>1, <1>2 DEF Contract!TypeOK, Contract!States, Seen, SeenEmail, SeenName, SeenProfile

LEMMA ContractInvStep == ContractInv /\ [Contract!Next]_(Contract!vars) => ContractInv'
<1> SUFFICES ASSUME ContractInv, [Contract!Next]_(Contract!vars) PROVE ContractInv'
    OBVIOUS
<1> DEFINE Words == Emails \cup Names \cup {EmptyText}
<1>1. /\ Seen \in [Attempts -> {"none", "asked", "made", "saved", "reported", "failed"}]
      /\ SeenEmail \in [Attempts -> Words] /\ SeenName \in [Attempts -> Words]
      /\ accounts \subseteq Emails /\ SeenProfile \in [Emails -> Words \cup {NoDoc}]
      /\ \A r \in Attempts : Served(r) => SeenEmail[r] \in accounts
      /\ \A r, s \in Attempts : Served(r) /\ Served(s) /\ SeenEmail[r] = SeenEmail[s] => r = s
      /\ \A r \in Attempts :
           Seen[r] \in {"saved", "reported"} => SeenProfile[SeenEmail[r]] = SeenName[r]
      BY ContractTypes DEF ContractInv
<1>2. ASSUME /\ Seen' \in [Attempts -> {"none", "asked", "made", "saved", "reported", "failed"}]
             /\ SeenEmail' \in [Attempts -> Words] /\ SeenName' \in [Attempts -> Words]
             /\ accounts' \subseteq Emails /\ SeenProfile' \in [Emails -> Words \cup {NoDoc}]
             /\ \A r \in Attempts : Served(r)' => SeenEmail'[r] \in accounts'
             /\ \A r, s \in Attempts : Served(r)' /\ Served(s)' /\ SeenEmail'[r] = SeenEmail'[s] => r = s
             /\ \A r \in Attempts :
                  Seen'[r] \in {"saved", "reported"} => SeenProfile'[SeenEmail'[r]] = SeenName'[r]
      PROVE  ContractInv'
      <2>1. Contract!TypeOK'
            BY <1>2 DEF Contract!TypeOK, Contract!States, Seen, SeenEmail, SeenName, SeenProfile
      <2> QED
          BY <1>2, <2>1 DEF ContractInv
<1> USE DEF Served
<1>3. ASSUME NEW r \in Attempts, Contract!Ask(r) PROVE ContractInv'
      <2>1. /\ Seen[r] = "none" /\ Seen' = [Seen EXCEPT ![r] = "asked"]
            /\ \E e, n \in Words : /\ SeenEmail' = [SeenEmail EXCEPT ![r] = e]
                                   /\ SeenName' = [SeenName EXCEPT ![r] = n]
            /\ accounts' = accounts /\ SeenProfile' = SeenProfile
            BY <1>3 DEF Contract!Ask, Seen, SeenEmail, SeenName, SeenProfile
      <2> QED
          BY <1>1, <1>2, <2>1
<1>4. ASSUME NEW r \in Attempts, Contract!Make(r) PROVE ContractInv'
      <2>1. /\ Seen[r] = "asked" /\ Seen' = [Seen EXCEPT ![r] = "made"]
            /\ SeenEmail[r] \in Emails \ accounts /\ accounts' = accounts \cup {SeenEmail[r]}
            /\ SeenEmail' = SeenEmail /\ SeenName' = SeenName /\ SeenProfile' = SeenProfile
            BY <1>4 DEF Contract!Make, Seen, SeenEmail, SeenName, SeenProfile
      <2> QED
          BY <1>1, <1>2, <2>1
<1>5. ASSUME NEW r \in Attempts, Contract!Save(r) PROVE ContractInv'
      <2>1. /\ Seen[r] = "made" /\ Seen' = [Seen EXCEPT ![r] = "saved"]
            /\ SeenProfile' = [SeenProfile EXCEPT ![SeenEmail[r]] = SeenName[r]]
            /\ SeenEmail' = SeenEmail /\ SeenName' = SeenName /\ accounts' = accounts
            BY <1>5 DEF Contract!Save, Seen, SeenEmail, SeenName, SeenProfile
      <2> QED
          BY <1>1, <1>2, <2>1
<1>6. ASSUME NEW r \in Attempts, Contract!Report(r) \/ Contract!Fail(r) PROVE ContractInv'
      <2>1. /\ \/ Seen[r] = "saved" /\ Seen' = [Seen EXCEPT ![r] = "reported"]
               \/ Seen' = [Seen EXCEPT ![r] = "failed"]
            /\ SeenEmail' = SeenEmail /\ SeenName' = SeenName
            /\ accounts' = accounts /\ SeenProfile' = SeenProfile
            BY <1>6 DEF Contract!Report, Contract!Fail, Seen, SeenEmail, SeenName, SeenProfile
      <2> QED
          BY <1>1, <1>2, <2>1
<1>7. CASE UNCHANGED Contract!vars
      <2>1. Seen' = Seen /\ SeenEmail' = SeenEmail /\ SeenName' = SeenName
            /\ accounts' = accounts /\ SeenProfile' = SeenProfile
            BY <1>7 DEF Contract!vars, Seen, SeenEmail, SeenName, SeenProfile
      <2> QED
          BY <1>1, <1>2, <2>1
<1> QED
    BY <1>3, <1>4, <1>5, <1>6, <1>7 DEF Contract!Next

\* In whatever keeps the contract under this mapping, success is reported of
\* accounts that exist and have the profile asked for.
THEOREM ContractHolds == Contract!Spec => []Contract!SuccessMeansRegistered
<1>1. Contract!Init => ContractInv
      <2> SUFFICES ASSUME Contract!Init PROVE ContractInv
          OBVIOUS
      <2>1. /\ Seen = [r \in Attempts |-> "none"]
            /\ SeenEmail = [r \in Attempts |-> EmptyText] /\ SeenName = [r \in Attempts |-> EmptyText]
            /\ accounts \subseteq Emails /\ SeenProfile = [e \in Emails |-> NoDoc]
            BY DEF Contract!Init, Seen, SeenEmail, SeenName, SeenProfile
      <2>2. Contract!TypeOK
            BY <2>1, ContractTypes
      <2> QED
          BY <2>1, <2>2 DEF ContractInv, Served
<1>2. ContractInv => Contract!SuccessMeansRegistered
      <2> SUFFICES ASSUME ContractInv, NEW r \in Attempts, Seen[r] = "reported"
                   PROVE  SeenEmail[r] \in accounts /\ SeenProfile[SeenEmail[r]] = SeenName[r]
          BY DEF Contract!SuccessMeansRegistered, Seen, SeenEmail, SeenName, SeenProfile
      <2> QED
          BY DEF ContractInv, Served
<1> QED
    BY <1>1, <1>2, ContractInvStep, PTL DEF Contract!Spec

\* What the contract promises holds of the screen.
THEOREM AlwaysRegisteredOnSuccess == Spec => []RegisteredOnSuccess
BY ImplementsContract, ContractHolds, PTL DEF KeepsContract, RegisteredOnSuccess
=============================================================================
