--------------------------- MODULE SignUpContract ---------------------------
(***************************************************************************)
(* What a sign-up screen promises, without screens, HUDs or uploads: a     *)
(* request asks for an account; if it gets one, the account's profile is   *)
(* saved with the name of that very request, and success is only reported  *)
(* afterwards.  A request may fail at any time before it has saved, and    *)
(* may leave an account without a profile behind.                          *)
(***************************************************************************)
CONSTANTS
  Requests,
  Emails,    \* addresses an account can be made for
  Words,     \* what may be typed as an address or a name
  Blank,     \* nothing asked for yet
  NoProfile

VARIABLES
  state,     \* how far each request has come
  email,     \* the address each request asks for
  name,      \* and the name
  accounts,  \* addresses that have an account
  profile    \* the name in each account's profile

vars == <<state, email, name, accounts, profile>>

States == {"none", "asked", "made", "saved", "reported", "failed"}

TypeOK ==
  /\ state \in [Requests -> States]
  /\ email \in [Requests -> Words \cup {Blank}]
  /\ name \in [Requests -> Words \cup {Blank}]
  /\ accounts \subseteq Emails
  /\ profile \in [Emails -> Words \cup {Blank, NoProfile}]

Init ==
  /\ state = [r \in Requests |-> "none"]
  /\ email = [r \in Requests |-> Blank]
  /\ name = [r \in Requests |-> Blank]
  /\ accounts \in SUBSET Emails
  /\ profile = [e \in Emails |-> NoProfile]

Ask(r) ==
  /\ state[r] = "none"
  /\ state' = [state EXCEPT ![r] = "asked"]
  /\ \E e, n \in Words :
       email' = [email EXCEPT ![r] = e] /\ name' = [name EXCEPT ![r] = n]
  /\ UNCHANGED <<accounts, profile>>

\* An account is made for an address that has none.
Make(r) ==
  /\ state[r] = "asked"
  /\ email[r] \in Emails \ accounts
  /\ state' = [state EXCEPT ![r] = "made"]
  /\ accounts' = accounts \cup {email[r]}
  /\ UNCHANGED <<email, name, profile>>

\* The profile goes to the request's own account, with its own name.
Save(r) ==
  /\ state[r] = "made"
  /\ state' = [state EXCEPT ![r] = "saved"]
  /\ profile' = [profile EXCEPT ![email[r]] = name[r]]
  /\ UNCHANGED <<email, name, accounts>>

Report(r) ==
  /\ state[r] = "saved"
  /\ state' = [state EXCEPT ![r] = "reported"]
  /\ UNCHANGED <<email, name, accounts, profile>>

Fail(r) ==
  /\ state[r] \in {"asked", "made"}
  /\ state' = [state EXCEPT ![r] = "failed"]
  /\ UNCHANGED <<email, name, accounts, profile>>

Next == \E r \in Requests : Ask(r) \/ Make(r) \/ Save(r) \/ Report(r) \/ Fail(r)

Spec == Init /\ [][Next]_vars

-----------------------------------------------------------------------------
\* When success is reported, the account asked for exists and its profile has
\* the name that was asked for, whatever other requests do.
SuccessMeansRegistered ==
  \A r \in Requests : state[r] = "reported" =>
    email[r] \in accounts /\ profile[email[r]] = name[r]
=============================================================================
