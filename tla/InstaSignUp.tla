----------------------------- MODULE InstaSignUp -----------------------------
(***************************************************************************)
(* The sign-up screen of InstaClone, ViewController.  One press of         *)
(* Register ("attempt") makes the account, uploads the photo, asks for its *)
(* URL and saves the profile, each step in the callback of the one before. *)
(* Unlike TinderClone's screen it reads its texts at the press, saves      *)
(* under the uid createUser returned, and keeps its HUD up until the URL   *)
(* is known, so that only the saving of two attempts can overlap.          *)
(*                                                                         *)
(* An account is identified with its e-mail address and its uid.           *)
(***************************************************************************)
EXTENDS ProgressHUD

CONSTANTS
  Attempts,     \* bound: presses of Register
  Emails, Names, Passwords, Images,
  EmptyText,    \* ""
  AddPhoto,     \* the picture of addPhotoButton before a photo is chosen
  NoImage,      \* a picked item without an original image
  NoUser, NoURL, NoDoc

ASSUME EmptyAssumption == EmptyText \notin Emails \cup Names \cup Passwords
ASSUME NoURLAssumption == NoURL \notin Attempts

VARIABLES
  form,      \* the texts of the three fields
  image,     \* addPhotoButton's image
  enabled,   \* registerButton.isEnabled
  front,     \* this screen, or the photo picker over it
  hud,       \* the HUD each attempt makes
  stage,     \* how far each attempt has come
  entry,     \* the texts an attempt captured
  photo,     \* the image data an attempt uploads
  link,      \* the ProfileImageURL an attempt writes
  accounts,  \* accounts of the Auth server
  session,   \* Auth.auth().currentUser
  docs       \* Firestore, collection Users: uid -> document

screen == <<form, image, enabled, front>>
taken  == <<entry, photo, link>>
remote == <<accounts, session, docs>>
vars == <<form, image, enabled, front, hud, stage, entry, photo, link,
          accounts, session, docs>>

Stages == {"idle", "creating", "created", "signedIn", "uploading", "asking",
           "saving", "stored", "succeeded", "refused", "stuck", "unsaved"}

Form == [email    : Emails \cup {EmptyText},
         name     : Names \cup {EmptyText},
         password : Passwords \cup {EmptyText}]

Pictures == Images \cup {AddPhoto, NoImage}

\* Every upload has a UUID for its name, so a URL is as good as the attempt.
Doc == [UserName : Names \cup {EmptyText}, UserID : Emails,
        ProfileImageURL : Attempts \cup {NoURL}]

ASSUME NothingAssumption == NoDoc \notin Doc /\ NoUser \notin Emails

TypeOK ==
  /\ form \in Form
  /\ image \in Pictures
  /\ enabled \in BOOLEAN
  /\ front \in {"form", "picker"}
  /\ hud \in [Attempts -> HudType]
  /\ stage \in [Attempts -> Stages]
  /\ entry \in [Attempts -> Form]
  /\ photo \in [Attempts -> Pictures]
  /\ link \in [Attempts -> Attempts \cup {NoURL}]
  /\ accounts \subseteq Emails
  /\ session \in Emails \cup {NoUser}
  /\ docs \in [Emails -> Doc \cup {NoDoc}]

BlankForm == [email |-> EmptyText, name |-> EmptyText, password |-> EmptyText]

\* Some addresses may belong to accounts made elsewhere.
Init ==
  /\ form = BlankForm
  /\ image = AddPhoto
  /\ enabled = FALSE
  /\ front = "form"
  /\ hud = [a \in Attempts |-> NewHud]
  /\ stage = [a \in Attempts |-> "idle"]
  /\ entry = [a \in Attempts |-> BlankForm]
  /\ photo = [a \in Attempts |-> NoImage]
  /\ link = [a \in Attempts |-> NoURL]
  /\ accounts \in SUBSET Emails
  /\ session = NoUser
  /\ docs = [u \in Emails |-> NoDoc]

-----------------------------------------------------------------------------
(* The user's side.                                                        *)

Touchable == front = "form" /\ \A a \in Attempts : ~BlocksTouches(hud[a])

\* textFieldControl
FieldsValid(f) == f.email # EmptyText /\ f.name # EmptyText /\ f.password # EmptyText

\* Typing.  Nothing ends the editing of a field, so its keyboard stays in reach
\* while a HUD covers the screen.
EditField(field, text) ==
  /\ front = "form"
  /\ form' = [form EXCEPT ![field] = text]
  /\ enabled' = FieldsValid(form')
  /\ UNCHANGED <<image, front, hud, stage, taken, remote>>

ChoosePhoto ==
  /\ Touchable
  /\ front' = "picker"
  /\ UNCHANGED <<form, image, enabled, hud, stage, taken, remote>>

PickPhoto(img) ==
  /\ front = "picker"
  /\ image' = img
  /\ front' = "form"
  /\ UNCHANGED <<form, enabled, hud, stage, taken, remote>>

CancelPicker ==
  /\ front = "picker"
  /\ front' = "form"
  /\ UNCHANGED <<form, image, enabled, hud, stage, taken, remote>>

-----------------------------------------------------------------------------
(* One attempt: registerButtonClicked and its callbacks.                   *)

Reach(a, s) == stage' = [stage EXCEPT ![a] = s]

RegisterClickedNoHud(a) ==
  /\ Touchable /\ enabled
  /\ stage[a] = "idle"
  /\ entry' = [entry EXCEPT ![a] = form]
  /\ Reach(a, "creating")
  /\ UNCHANGED <<screen, hud, photo, link, remote>>

RegisterClicked(a) ==
  /\ Touchable /\ enabled
  /\ stage[a] = "idle"
  /\ hud' = [hud EXCEPT ![a] = Show(@)]
  /\ entry' = [entry EXCEPT ![a] = form]
  /\ Reach(a, "creating")
  /\ UNCHANGED <<screen, photo, link, remote>>

\* Auth makes the account; an empty address or password is refused.
CreateAccount(a) ==
  /\ stage[a] = "creating"
  /\ entry[a].email # EmptyText /\ entry[a].password # EmptyText
  /\ entry[a].email \notin accounts
  /\ accounts' = accounts \cup {entry[a].email}
  /\ Reach(a, "created")
  /\ UNCHANGED <<screen, hud, taken, session, docs>>

\* Auth's work queue makes it the current user, before the callback runs.
SignInAsNew(a) ==
  /\ stage[a] = "created"
  /\ session' = entry[a].email
  /\ Reach(a, "signedIn")
  /\ UNCHANGED <<screen, hud, taken, accounts, docs>>

\* createUser answers with an error: the HUD shows it and leaves after a while.
CreateFailed(a) ==
  /\ stage[a] \in {"creating", "created"}
  /\ hud' = [hud EXCEPT ![a] = DismissAfterDelay(@)]
  /\ Reach(a, "refused")
  /\ UNCHANGED <<screen, taken, remote>>

CreateAnsweredHudLeft(a) ==
  /\ stage[a] = "signedIn"
  /\ photo' = [photo EXCEPT ![a] = image]
  /\ hud' = [hud EXCEPT ![a] = Dismiss(@)]
  /\ Reach(a, "uploading")
  /\ UNCHANGED <<screen, entry, link, remote>>

\* createUser answers with success: the image of addPhotoButton is uploaded,
\* empty data if it has none.
CreateAnswered(a) ==
  /\ stage[a] = "signedIn"
  /\ photo' = [photo EXCEPT ![a] = image]
  /\ Reach(a, "uploading")
  /\ UNCHANGED <<screen, hud, entry, link, remote>>

UploadAnswered(a) ==
  /\ stage[a] = "uploading"
  /\ Reach(a, "asking")
  /\ UNCHANGED <<screen, hud, taken, remote>>

\* putData answers with an error: nothing but a print.  The HUD stays.
UploadFailed(a) ==
  /\ stage[a] = "uploading"
  /\ Reach(a, "stuck")
  /\ UNCHANGED <<screen, hud, taken, remote>>

ResetForgettingTexts ==
  /\ image' = AddPhoto
  /\ form' = [form EXCEPT !.name = EmptyText]
  /\ UNCHANGED <<enabled, front>>

\* resetAppearance.  Setting a text in code sends no editingChanged.
ResetAppearance ==
  /\ image' = AddPhoto
  /\ form' = BlankForm
  /\ UNCHANGED <<enabled, front>>

URLAnsweredHudKept(a) ==
  /\ stage[a] = "asking"
  /\ \E url \in {a, NoURL} : link' = [link EXCEPT ![a] = url]
  /\ ResetAppearance
  /\ Reach(a, "saving")
  /\ UNCHANGED <<hud, entry, photo, remote>>

\* downloadURL answers, with the URL or an error that is only printed: the
\* write is queued, the HUD dismissed, the form emptied.
URLAnswered(a) ==
  /\ stage[a] = "asking"
  /\ \E url \in {a, NoURL} : link' = [link EXCEPT ![a] = url]
  /\ hud' = [hud EXCEPT ![a] = Dismiss(@)]
  /\ ResetAppearance
  /\ Reach(a, "saving")
  /\ UNCHANGED <<entry, photo, remote>>

ProfileOfTheFields(a) ==
  [UserName |-> form.name, UserID |-> entry[a].email, ProfileImageURL |-> link[a]]

\* willBeAddedData
Profile(a) ==
  [UserName |-> entry[a].name, UserID |-> entry[a].email, ProfileImageURL |-> link[a]]

\* setData reaches the server: under registeredUserID, whoever is signed in.
SaveStored(a) ==
  /\ stage[a] = "saving"
  /\ docs' = [docs EXCEPT ![entry[a].email] = Profile(a)]
  /\ Reach(a, "stored")
  /\ UNCHANGED <<screen, hud, taken, accounts, session>>

\* setData answers.  Firestore drops the answers of a user who is no longer
\* the current one.
SaveAnswered(a) ==
  /\ stage[a] = "stored" /\ session = entry[a].email
  /\ Reach(a, "succeeded")
  /\ UNCHANGED <<screen, hud, taken, remote>>

SaveRejected(a) ==
  /\ stage[a] = "saving" /\ session = entry[a].email
  /\ Reach(a, "unsaved")
  /\ UNCHANGED <<screen, hud, taken, remote>>

HudTimer(a) ==
  /\ hud[a].timers > 0
  /\ hud' = [hud EXCEPT ![a] = TimerFired(@)]
  /\ UNCHANGED <<screen, stage, taken, remote>>

HudAnimated(a) ==
  /\ Transitioning(hud[a])
  /\ hud' = [hud EXCEPT ![a] = AnimationFinished(@)]
  /\ UNCHANGED <<screen, stage, taken, remote>>

-----------------------------------------------------------------------------
Texts(field) ==
  {EmptyText} \cup CASE field = "email"    -> Emails
                     [] field = "name"     -> Names
                     [] field = "password" -> Passwords

User ==
  \/ \E field \in DOMAIN form : \E text \in Texts(field) : EditField(field, text)
  \/ ChoosePhoto \/ CancelPicker \/ \E img \in Images \cup {NoImage} : PickPhoto(img)
  \/ \E a \in Attempts : RegisterClicked(a)

AuthAnswers(a) ==
  CreateAccount(a) \/ SignInAsNew(a) \/ CreateFailed(a) \/ CreateAnswered(a)

StorageAnswers(a) == UploadAnswered(a) \/ UploadFailed(a) \/ URLAnswered(a)

FirestoreAnswers(a) == SaveStored(a) \/ SaveAnswered(a) \/ SaveRejected(a)

Next ==
  \/ User
  \/ \E a \in Attempts : AuthAnswers(a) \/ StorageAnswers(a) \/ FirestoreAnswers(a)
                           \/ HudTimer(a) \/ HudAnimated(a)

Spec == Init /\ [][Next]_vars

\* Animations end, the dispatched block runs, and Auth and Storage give up
\* after a time.  Firestore keeps an unsent write for ever: no fairness.
Fairness ==
  \A a \in Attempts :
    /\ WF_vars(HudTimer(a)) /\ WF_vars(HudAnimated(a))
    /\ WF_vars(AuthAnswers(a)) /\ WF_vars(StorageAnswers(a))

FairSpec == Spec /\ Fairness

-----------------------------------------------------------------------------
(* Properties.                                                             *)

\* The attempt waits for Auth or Storage.
Busy(a) == stage[a] \in {"creating", "created", "signedIn", "uploading", "asking"}

\* The HUD of an attempt blocks the screen for as long as the attempt is busy,
\* so attempts are busy one at a time.
OneAtATime == \A a, b \in Attempts : Busy(a) /\ Busy(b) => a = b

\* While the photo of an attempt is uploaded the account it made is the current
\* one: what is written then carries the right credentials.
SessionIsOwn ==
  \A a \in Attempts : stage[a] \in {"signedIn", "uploading", "asking"} =>
    session = entry[a].email

\* Although resetAppearance leaves the button enabled over empty fields, no
\* attempt gets an account unless all three fields held text.
EmptyFormNeverRegisters ==
  \A a \in Attempts : stage[a] \notin {"idle", "creating", "refused"} => FieldsValid(entry[a])

\* The photo uploaded is the one that was on the button at the press: nothing
\* changes it before createUser has answered.
PhotoStaysPut ==
  [][\A a \in Attempts : stage[a] \in {"creating", "created", "signedIn"} => image' = image]_vars

\* The HUD of an attempt leaves, unless the upload has failed.
HudsLeave == \A a \in Attempts : Visible(hud[a]) ~> ~Visible(hud[a]) \/ stage[a] = "stuck"

-----------------------------------------------------------------------------
\* How far an attempt has come in the eyes of its user and of the server.
Progress(s) ==
  CASE s = "idle"      -> "none"
    [] s = "creating"  -> "asked"
    [] s \in {"created", "signedIn", "uploading", "asking", "saving"} -> "made"
    [] s = "stored"    -> "saved"
    [] s = "succeeded" -> "reported"
    [] s \in {"refused", "stuck", "unsaved"} -> "failed"

Contract == INSTANCE SignUpContract WITH
  Requests  <- Attempts,
  Words     <- Emails \cup Names \cup {EmptyText},
  Blank     <- EmptyText,
  NoProfile <- NoDoc,
  state     <- [a \in Attempts |-> Progress(stage[a])],
  email     <- [a \in Attempts |-> entry[a].email],
  name      <- [a \in Attempts |-> entry[a].name],
  profile   <- [u \in Emails |-> IF docs[u] = NoDoc THEN NoDoc ELSE docs[u].UserName]

\* However its attempts overlap, the screen keeps the contract: an account's
\* profile has the name typed for it, and success is reported only then.
KeepsContract == Contract!Spec

\* When the screen has been told of success, the account exists and its profile
\* has the name its user typed.
RegisteredOnSuccess == Contract!SuccessMeansRegistered
=============================================================================
