---------------------------- MODULE Registration ----------------------------
(***************************************************************************)
(* The sign-up screen of TinderClone: RegisterViewController, its          *)
(* RegisterViewModel, and the Firebase calls one press of Register makes:  *)
(* create the account, upload the photo, ask for its URL, save the profile *)
(* document.  The button stays enabled and the HUD leaves after a second,  *)
(* so several presses ("attempts") can be under way at once; every answer  *)
(* is a block on the main queue, and answers of different attempts come in *)
(* any order.                                                              *)
(*                                                                         *)
(* An account is identified with its e-mail address and its uid.  Which    *)
(* photo is selected is data nothing here depends on, and left out.        *)
(***************************************************************************)
EXTENDS ProgressHUD, FiniteSets

CONSTANTS
  Attempts,      \* presses of Register that get past the guard (the bound)
  Emails, Names, Passwords,
  NilText,       \* a String? of the view model that was never set
  EmptyText,     \* ""
  NoUser, NoDoc

ASSUME TextsAssumption ==
  /\ {NilText, EmptyText} \cap (Emails \cup Names \cup Passwords) = {}
  /\ NilText # EmptyText

VARIABLES
  form,      \* the view model's emailAdress, nameSurname and password
  enabled,   \* registerButton.isEnabled
  front,     \* what is in front: this screen's form, the photo picker, Login
  hud,       \* registerHud, one for the whole screen
  errorHud,  \* the HUD errorInfoJGHud makes for a failed attempt
  stage,     \* how far each attempt has come
  entry,     \* the copy of the view model each attempt captured
  owner,     \* the uid an attempt's profile is saved under
  before,    \* the writes queued ahead of an attempt's setData
  accounts,  \* accounts of the Auth server
  session,   \* Auth.auth().currentUser
  blobs,     \* Storage: the attempts whose photo it holds
  docs       \* Firestore, collection Users: uid -> document

formVars   == <<form, enabled, front>>
hudVars    == <<hud, errorHud>>
taken      == <<entry, owner, before>>  \* what an attempt holds on to
remoteVars == <<accounts, session, blobs, docs>>
vars == <<form, enabled, front, hud, errorHud, stage, entry, owner, before,
          accounts, session, blobs, docs>>

Stages == {"idle", "creating", "created", "signedIn", "uploading", "asking",
           "saving", "stored", "succeeded", "refused", "failed"}

Form == [email    : Emails \cup {NilText, EmptyText},
         name     : Names \cup {NilText, EmptyText},
         password : Passwords \cup {NilText, EmptyText}]

\* What userInfoSaveToFirebase writes.  Every upload has a name of its own (a
\* UUID), so its URL is as good as the attempt that uploaded it.
Doc == [NameSurname : Names \cup {EmptyText}, ImageURL : Attempts,
        UserID : Emails]

ASSUME NoneAssumption ==
  /\ NoUser \notin Emails
  /\ NoDoc \notin Doc

TypeOK ==
  /\ form \in Form
  /\ enabled \in BOOLEAN
  /\ front \in {"form", "picker", "login"}
  /\ hud \in HudType
  /\ errorHud \in [Attempts -> HudType]
  /\ stage \in [Attempts -> Stages]
  /\ entry \in [Attempts -> Form]
  /\ owner \in [Attempts -> Emails \cup {NoUser}]
  /\ before \in [Attempts -> SUBSET Attempts]
  /\ accounts \subseteq Emails
  /\ session \in Emails \cup {NoUser}
  /\ blobs \subseteq Attempts
  /\ docs \in [Emails -> Doc \cup {NoDoc}]

BlankForm == [email |-> NilText, name |-> NilText, password |-> NilText]

\* Some addresses may belong to accounts made elsewhere.
Init ==
  /\ form = BlankForm
  /\ enabled = FALSE
  /\ front = "form"
  /\ hud = NewHud
  /\ errorHud = [a \in Attempts |-> NewHud]
  /\ stage = [a \in Attempts |-> "idle"]
  /\ entry = [a \in Attempts |-> BlankForm]
  /\ owner = [a \in Attempts |-> NoUser]
  /\ before = [a \in Attempts |-> {}]
  /\ accounts \in SUBSET Emails
  /\ session = NoUser
  /\ blobs = {}
  /\ docs = [u \in Emails |-> NoDoc]

-----------------------------------------------------------------------------
(* The user's side: the form, the photo picker, the Login screen.          *)

Filled(text) == text \notin {NilText, EmptyText}

\* controlOfValidData
ValidData(f) == Filled(f.email) /\ Filled(f.name) /\ Filled(f.password)

\* The view takes touches: nothing covers it and no HUD swallows them.
Touchable ==
  /\ front = "form"
  /\ ~BlocksTouches(hud)
  /\ \A a \in Attempts : ~BlocksTouches(errorHud[a])

\* catchTheTextFieldChange, with the didSet and the observer it sets off.
\* A field being edited keeps the keyboard while an error HUD is up; pressing
\* Register ends the editing (catchTheTap).
EditField(field, text) ==
  /\ front = "form" /\ ~BlocksTouches(hud)
  /\ form' = [form EXCEPT ![field] = text]
  /\ enabled' = ValidData(form')
  /\ UNCHANGED <<front, hudVars, stage, taken, remoteVars>>

OpenPicker ==
  /\ Touchable
  /\ front' = "picker"
  /\ UNCHANGED <<form, enabled, hudVars, stage, taken, remoteVars>>

\* A photo is picked, or none is.
LeavePicker ==
  /\ front = "picker"
  /\ front' = "form"
  /\ UNCHANGED <<form, enabled, hudVars, stage, taken, remoteVars>>

\* Login pushes an empty screen; its back button returns.
OpenLogin ==
  /\ Touchable
  /\ front' = "login"
  /\ UNCHANGED <<form, enabled, hudVars, stage, taken, remoteVars>>

BackFromLogin ==
  /\ front = "login"
  /\ front' = "form"
  /\ UNCHANGED <<form, enabled, hudVars, stage, taken, remoteVars>>

-----------------------------------------------------------------------------
(* One attempt: the chain of closures of userRegister.                     *)

RegisteringObservedNoTimer(registering) ==
  hud' = IF registering THEN Show(hud) ELSE Dismiss(hud)

\* The observer of bindableRegistering.
RegisteringObserved(registering) ==
  hud' = IF registering THEN Show(DismissAfterDelay(hud)) ELSE Dismiss(hud)

Reach(a, s) == stage' = [stage EXCEPT ![a] = s]

\* completion(error): the attempt is over, refused by createUser or failed
\* later, and its error HUD comes up.
Fail(a, outcome) ==
  /\ Reach(a, outcome)
  /\ errorHud' = [errorHud EXCEPT ![a] = DismissAfterDelay(Show(@))]

\* registerButtonPressed and userRegister up to the call of createUser.  The
\* closures capture the view model, a struct, as it is now; its Bindables
\* stay shared.
PressRegister(a) ==
  /\ Touchable /\ enabled
  /\ stage[a] = "idle"
  /\ form.email # NilText /\ form.password # NilText
  /\ RegisteringObserved(TRUE)
  /\ entry' = [entry EXCEPT ![a] = form]
  /\ Reach(a, "creating")
  /\ UNCHANGED <<formVars, errorHud, owner, before, remoteVars>>

\* The server makes the account.
CreateAccount(a) ==
  /\ stage[a] = "creating"
  /\ Filled(entry[a].email) /\ Filled(entry[a].password)
  /\ entry[a].email \notin accounts
  /\ accounts' = accounts \cup {entry[a].email}
  /\ Reach(a, "created")
  /\ UNCHANGED <<formVars, hudVars, taken, session, blobs, docs>>

\* Auth's work queue makes it the current user, before the callback runs.
SignInAsNew(a) ==
  /\ stage[a] = "created"
  /\ session' = entry[a].email
  /\ Reach(a, "signedIn")
  /\ UNCHANGED <<formVars, hudVars, taken, accounts, blobs, docs>>

\* createUser answers with an error: the address is taken, the password weak,
\* the network gone, or the new account could not be signed in.
CreateFailed(a) ==
  /\ stage[a] \in {"creating", "created"}
  /\ Fail(a, "refused")
  /\ UNCHANGED <<formVars, hud, taken, remoteVars>>

\* createUser answers with success: imageSaveToFirebase starts the upload of
\* the photo selected by now.
CreateAnswered(a) ==
  /\ stage[a] = "signedIn"
  /\ Reach(a, "uploading")
  /\ UNCHANGED <<formVars, hudVars, taken, remoteVars>>

UploadAnswered(a) ==
  /\ stage[a] = "uploading"
  /\ blobs' = blobs \cup {a}
  /\ Reach(a, "asking")
  /\ UNCHANGED <<formVars, hudVars, taken, accounts, session, docs>>

UploadFailedSilently(a) ==
  /\ stage[a] \in {"uploading", "asking"}
  /\ Reach(a, "idle")
  /\ UNCHANGED <<formVars, hudVars, taken, remoteVars>>

\* putData or downloadURL answers with an error.  bindableRegistering is left
\* TRUE.
UploadFailed(a) ==
  /\ stage[a] \in {"uploading", "asking"}
  /\ Fail(a, "failed")
  /\ UNCHANGED <<formVars, hud, taken, remoteVars>>

\* The write of a is queued or on its way, its answer not delivered.
Pending(a) == stage[a] \in {"saving", "stored"}

\* downloadURL answers: registering = false, then userInfoSaveToFirebase,
\* which asks Auth who is signed in now and queues the write behind those the
\* same user still has pending.
URLAnswered(a) ==
  /\ stage[a] = "asking"
  /\ RegisteringObserved(FALSE)
  /\ owner' = [owner EXCEPT ![a] = session]
  /\ before' = [before EXCEPT ![a] = {b \in Attempts : Pending(b) /\ owner[b] = session}]
  /\ Reach(a, "saving")
  /\ UNCHANGED <<formVars, errorHud, entry, remoteVars>>

ProfileOfTheForm(a) ==
  [NameSurname |-> IF Filled(form.name) THEN form.name ELSE EmptyText,
   ImageURL |-> a, UserID |-> owner[a]]

\* The document of a's setData.
Profile(a) ==
  [NameSurname |-> IF Filled(entry[a].name) THEN entry[a].name ELSE EmptyText,
   ImageURL |-> a, UserID |-> owner[a]]

\* setData reaches the server.  A write is sent from the queue of the user who
\* made it; after another sign-in it may still be on its way, or not leave.
SaveStored(a) ==
  /\ stage[a] = "saving" /\ owner[a] # NoUser
  /\ \A b \in before[a] : stage[b] # "saving"
  /\ docs' = [docs EXCEPT ![owner[a]] = Profile(a)]
  /\ Reach(a, "stored")
  /\ UNCHANGED <<formVars, hudVars, taken, accounts, session, blobs>>

\* setData answers with success: "Kayit basarili" is printed.  Only the
\* current user's writes are answered.
SaveAnswered(a) ==
  /\ stage[a] = "stored" /\ owner[a] = session
  /\ \A b \in before[a] : ~Pending(b)
  /\ Reach(a, "succeeded")
  /\ UNCHANGED <<formVars, hudVars, taken, remoteVars>>

SaveRejected(a) ==
  /\ stage[a] = "saving" /\ owner[a] = session
  /\ \A b \in before[a] : ~Pending(b)
  /\ Fail(a, "failed")
  /\ UNCHANGED <<formVars, hud, taken, remoteVars>>

-----------------------------------------------------------------------------
(* The HUDs' own steps.                                                    *)

RegisterHudTimer ==
  /\ hud.timers > 0
  /\ hud' = TimerFired(hud)
  /\ UNCHANGED <<formVars, errorHud, stage, taken, remoteVars>>

RegisterHudAnimated ==
  /\ Transitioning(hud)
  /\ hud' = AnimationFinished(hud)
  /\ UNCHANGED <<formVars, errorHud, stage, taken, remoteVars>>

ErrorHudTimer(a) ==
  /\ errorHud[a].timers > 0
  /\ errorHud' = [errorHud EXCEPT ![a] = TimerFired(@)]
  /\ UNCHANGED <<formVars, hud, stage, taken, remoteVars>>

ErrorHudAnimated(a) ==
  /\ Transitioning(errorHud[a])
  /\ errorHud' = [errorHud EXCEPT ![a] = AnimationFinished(@)]
  /\ UNCHANGED <<formVars, hud, stage, taken, remoteVars>>

-----------------------------------------------------------------------------
Texts(field) ==
  {EmptyText} \cup CASE field = "email"    -> Emails
                     [] field = "name"     -> Names
                     [] field = "password" -> Passwords

User ==
  \/ \E field \in DOMAIN form : \E text \in Texts(field) : EditField(field, text)
  \/ OpenPicker \/ LeavePicker \/ OpenLogin \/ BackFromLogin
  \/ \E a \in Attempts : PressRegister(a)

AuthAnswers(a) ==
  CreateAccount(a) \/ SignInAsNew(a) \/ CreateFailed(a) \/ CreateAnswered(a)

StorageAnswers(a) == UploadAnswered(a) \/ UploadFailed(a) \/ URLAnswered(a)

FirestoreAnswers(a) == SaveStored(a) \/ SaveAnswered(a) \/ SaveRejected(a)

HudSteps ==
  \/ RegisterHudTimer \/ RegisterHudAnimated
  \/ \E a \in Attempts : ErrorHudTimer(a) \/ ErrorHudAnimated(a)

Next ==
  \/ User
  \/ \E a \in Attempts :
       AuthAnswers(a) \/ StorageAnswers(a) \/ FirestoreAnswers(a)
  \/ HudSteps

Spec == Init /\ [][Next]_vars

\* Auth and Storage give up after a time, so they answer.  Firestore keeps an
\* unsent write for ever: no fairness.
Fairness == \A a \in Attempts : WF_vars(AuthAnswers(a) \/ StorageAnswers(a))

FairSpec == Spec /\ Fairness

-----------------------------------------------------------------------------
(* Properties.                                                             *)

\* The Register button is enabled exactly when all three fields hold text,
\* whatever the order of edits and answers (controlOfValidData).
ButtonMatchesForm == enabled <=> \A field \in DOMAIN form : Filled(form[field])

\* A HUD never stays by mistake: while it is up, or coming up, a dismissal is
\* scheduled or remembered.  No error path of userRegister resets
\* bindableRegistering, so for registerHud all hangs on the one-second timer.
WillLeave(h) ==
  h.phase \in {"showing", "shown"} => h.timers > 0 \/ (h.phase = "showing" /\ h.later)

HudsWillLeave == WillLeave(hud) /\ \A a \in Attempts : WillLeave(errorHud[a])

\* The attempt's own account has been the current user at some time.
SignedIn(a) == stage[a] \notin {"idle", "creating", "created", "refused"}

\* userInfoSaveToFirebase never falls back to the empty uid, and the account
\* it saves under was signed in on this screen by an attempt of its own.
SavesAreAddressed ==
  \A a \in Attempts : Pending(a) \/ stage[a] = "succeeded" =>
    /\ owner[a] \in accounts
    /\ \E b \in Attempts : SignedIn(b) /\ entry[b].email = owner[a]

\* A stored profile is whole: it names its own account, its photo is in
\* Storage, and its name and photo come from the same attempt, even when
\* attempts with different names and addresses come to save under one uid and
\* overwrite each other (userInfoSaveToFirebase, Firestore's write queue).
ProfilesAreWhole ==
  \A u \in Emails : docs[u] # NoDoc =>
    LET a == docs[u].ImageURL
    IN  docs[u].UserID = u /\ a \in blobs /\ docs[u].NameSurname = entry[a].name

\* "Kayit basarili" is never printed while the account now in use has no
\* profile at all.
SuccessLeavesAProfile ==
  \A a \in Attempts : stage[a] = "succeeded" => docs[owner[a]] # NoDoc

\* Nobody's profile is saved, or being saved, before they are signed in.
NoProfileBeforeSession ==
  [][session' # session =>
       /\ docs[session'] = NoDoc
       /\ \A a \in Attempts : Pending(a) => owner[a] # session']_vars

\* Every press of Register comes to an error HUD or to the saving of a profile.
PressIsAnswered ==
  []<>(\A a \in Attempts : entry[a] # BlankForm =>
         stage[a] \in {"saving", "stored", "succeeded", "refused", "failed"})

\* What "// Register Success" and the print of "Kayit basarili" say: when an
\* attempt has succeeded, the account it registered has its profile, with the
\* name typed for it.
SuccessMeansRegistered ==
  \A a \in Attempts : stage[a] = "succeeded" =>
    /\ docs[entry[a].email] # NoDoc
    /\ docs[entry[a].email].NameSurname = entry[a].name
=============================================================================
