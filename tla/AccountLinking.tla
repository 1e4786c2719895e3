--------------------------- MODULE AccountLinking ---------------------------
(***************************************************************************)
(* The accounts behind local and Auth0 sign-in: SyncAuth0User and          *)
(* UpdateProfile (user_service.go), ConfirmAccountLink, SetPassword and    *)
(* VerifyEmail (local_auth_service.go) over users and user_identities.     *)
(*                                                                         *)
(* Every repository call is one atomic step and no transaction spans two.  *)
(* Update writes the whole row a request has read before (gorm's Save), so *)
(* a request keeps its copy and may write back what others have changed.   *)
(* The unique indexes of the two tables are the only coordination.         *)
(***************************************************************************)
EXTENDS Naturals, FiniteSets

CONSTANTS Requests,    \* the requests served at one time
          Emails,      \* the email addresses
          Subjects,    \* the Auth0 subjects (provider|id)
          Claims,      \* the <<subject, address>> pairs that Auth0 vouches for
          SignUps,     \* the <<address, password hash>> pairs that register
          ProviderOf,  \* ProviderOf[s]: the provider in the subject
          Passwords,   \* password hashes
          NoPassword,  \* PasswordHash is NULL
          Nobody,      \* no subject, no email
          MaxUsers     \* bound: accounts created

ASSUME LinkingAssumption ==
  /\ MaxUsers \in Nat /\ Claims \subseteq Subjects \X Emails
  /\ SignUps \subseteq Emails \X Passwords
  /\ NoPassword \notin Passwords /\ Nobody \notin Subjects \cup Emails

VARIABLES users,       \* users[u]: the row of account u
          identities,  \* the rows of user_identities
          pending,     \* the link tokens the middleware has handed out
          req,         \* req[r]: what request r is doing
          local,       \* history: the accounts made by Register
          abandoned    \* history: accounts whose Sync ended without linking them

vars == <<users, identities, pending, req, local, abandoned>>

Accounts == DOMAIN users
Row == [email : Emails, hash : Passwords \cup {NoPassword}, verified : BOOLEAN]
Identity == [sub : Subjects, uid : 1..MaxUsers, primary : BOOLEAN, how : {"created", "fallback", "consent"}]
NoRow == [email |-> Nobody, hash |-> NoPassword, verified |-> FALSE]
Idle == [pc |-> "idle", flow |-> "none", sub |-> Nobody, email |-> Nobody, uid |-> 0,
         row |-> NoRow, stale |-> FALSE]
States == {"idle", "profile", "byEmail", "create", "fallback", "identity", "existing",
           "verify", "save", "answer"}
Flows == {"none", "created", "fallback", "consent", "password", "update", "mail"}
InSync(r) == req[r].flow \in {"created", "fallback"}
InConfirm(r) == req[r].flow = "consent"

SignsIn(u) == \/ users[u].verified /\ users[u].hash # NoPassword
              \/ \E i \in identities : i.uid = u
HasEmail(e) == {u \in Accounts : users[u].email = e}
LinkOf(s) == {i \in identities : i.sub = s}

\* The unique indexes of user_identities: the subject, one primary identity
\* of a user, and one identity of a user with a provider.
Admits(i) ==
  \A j \in identities :
    /\ j.sub # i.sub
    /\ j.uid = i.uid => /\ ~(i.primary /\ j.primary)
                        /\ ProviderOf[j.sub] # ProviderOf[i.sub]

Starts(r, new) == req' = [req EXCEPT ![r] = new]
Goto(r, s) == req' = [req EXCEPT ![r].pc = s]
Ends(r) == req' = [req EXCEPT ![r] = Idle]
AnswersWith(r, u) == req' = [req EXCEPT ![r].pc = "answer", ![r].uid = u, ![r].row = NoRow, ![r].stale = FALSE]

Init == /\ users = [u \in {} |-> NoRow]
        /\ identities = {} /\ pending = {}
        /\ req = [r \in Requests |-> Idle]
        /\ local = {} /\ abandoned = {}

NewAccount(row) == users' = [u \in 1..(Cardinality(Accounts) + 1) |->
                               IF u \in Accounts THEN users[u] ELSE row]
-----------------------------------------------------------------------------
\* A repository call fails and its error is returned, or the server dies.
Dies(r) ==
  /\ req[r] # Idle
  /\ abandoned' = IF InSync(r) /\ req[r].pc \in {"identity", "existing"}
                  THEN abandoned \cup {req[r].uid} ELSE abandoned
  /\ Ends(r)
  /\ UNCHANGED <<users, identities, pending, local>>

\* Register creates an unverified account with a password, unless the
\* address is taken.
Register(e, p) ==
  /\ HasEmail(e) = {} /\ Cardinality(Accounts) < MaxUsers
  /\ NewAccount([email |-> e, hash |-> p, verified |-> FALSE])
  /\ local' = local \cup {Cardinality(Accounts) + 1}
  /\ UNCHANGED <<identities, pending, req, abandoned>>

-----------------------------------------------------------------------------
\* SyncAuth0User(s, e), e verified by Auth0: FindByProviderSubject.
SyncFind(r, s, e) ==
  /\ req[r] = Idle
  /\ LET new == [Idle EXCEPT !.flow = "created", !.sub = s, !.email = e] IN
     \/ \E i \in LinkOf(s) : Starts(r, [new EXCEPT !.pc = "profile", !.uid = i.uid])
     \/ LinkOf(s) = {} /\ Starts(r, [new EXCEPT !.pc = "byEmail"])
  /\ UNCHANGED <<users, identities, pending, local, abandoned>>

\* A known subject: FindByID and updateUserProfile, which writes the row if
\* the email, the name or the avatar of the claims differs.
SyncProfile(r) ==
  /\ req[r].pc = "profile"
  /\ LET u == req[r].uid IN
     \/ users[u].email = req[r].email /\ AnswersWith(r, u)
     \/ req' = [req EXCEPT ![r].pc = "save", ![r].row = [users[u] EXCEPT !.email = req[r].email]]
  /\ UNCHANGED <<users, identities, pending, local, abandoned>>

\* Mutant: an account with the address is linked at once.
SyncByEmail_AutoLinks(r) ==
  /\ req[r].pc = "byEmail"
  /\ \/ \E u \in HasEmail(req[r].email) : req' = [req EXCEPT ![r].pc = "identity", ![r].uid = u]
     \/ HasEmail(req[r].email) = {} /\ Goto(r, "create")
  /\ UNCHANGED <<users, identities, pending, local, abandoned>>

\* An unknown subject: an account with its address is not linked; the
\* middleware answers 409 with a pending token for the address.
SyncByEmail(r) ==
  /\ req[r].pc = "byEmail"
  /\ \/ /\ HasEmail(req[r].email) # {}
        /\ pending' = pending \cup {[sub |-> req[r].sub, email |-> req[r].email]}
        /\ Ends(r)
     \/ /\ HasEmail(req[r].email) = {}
        /\ Goto(r, "create")
        /\ UNCHANGED pending
  /\ UNCHANGED <<users, identities, local, abandoned>>

\* Mutant: the id of the created row is not picked up.
SyncCreate_NoId(r) ==
  /\ req[r].pc = "create" /\ HasEmail(req[r].email) = {} /\ Cardinality(Accounts) < MaxUsers
  /\ NewAccount([email |-> req[r].email, hash |-> NoPassword, verified |-> TRUE])
  /\ Goto(r, "identity")
  /\ UNCHANGED <<identities, pending, local, abandoned>>

\* Mutant: the account is created without EmailVerified.
SyncCreate_Unverified(r) ==
  /\ req[r].pc = "create" /\ HasEmail(req[r].email) = {} /\ Cardinality(Accounts) < MaxUsers
  /\ NewAccount([email |-> req[r].email, hash |-> NoPassword, verified |-> FALSE])
  /\ req' = [req EXCEPT ![r].pc = "identity", ![r].uid = Cardinality(Accounts) + 1]
  /\ UNCHANGED <<identities, pending, local, abandoned>>

\* Create: a verified account without a password, or the unique index on
\* email refuses it ...
SyncCreate(r) ==
  /\ req[r].pc = "create"
  /\ \/ /\ HasEmail(req[r].email) = {} /\ Cardinality(Accounts) < MaxUsers
        /\ NewAccount([email |-> req[r].email, hash |-> NoPassword, verified |-> TRUE])
        /\ req' = [req EXCEPT ![r].pc = "identity", ![r].uid = Cardinality(Accounts) + 1]
     \/ /\ HasEmail(req[r].email) # {}
        /\ req' = [req EXCEPT ![r].pc = "fallback", ![r].flow = "fallback"]
        /\ UNCHANGED users
  /\ UNCHANGED <<identities, pending, local, abandoned>>

\* ... and the request goes on with the account that has the address now.
SyncFallback(r) ==
  /\ req[r].pc = "fallback"
  /\ \/ \E u \in HasEmail(req[r].email) : req' = [req EXCEPT ![r].pc = "identity", ![r].uid = u]
     \/ HasEmail(req[r].email) = {} /\ Ends(r)
  /\ UNCHANGED <<users, identities, pending, local, abandoned>>

\* The primary identity is created, or an index refuses it ...
SyncIdentity(r) ==
  /\ req[r].pc = "identity" /\ InSync(r)
  /\ LET i == [sub |-> req[r].sub, uid |-> req[r].uid, primary |-> TRUE, how |-> req[r].flow] IN
     \/ /\ Admits(i)
        /\ identities' = identities \cup {i}
        /\ AnswersWith(r, i.uid)
     \/ /\ ~Admits(i)
        /\ Goto(r, "existing")
        /\ UNCHANGED identities
  /\ UNCHANGED <<users, pending, local, abandoned>>

\* ... and the answer is the account the subject is linked to, or the error.
SyncExisting(r) ==
  /\ req[r].pc = "existing" /\ InSync(r)
  /\ \/ \E i \in LinkOf(req[r].sub) : AnswersWith(r, i.uid)
     \/ LinkOf(req[r].sub) = {} /\ Ends(r)
  /\ abandoned' = abandoned \cup {req[r].uid}
  /\ UNCHANGED <<users, identities, pending, local>>

-----------------------------------------------------------------------------
\* ConfirmAccountLink with a pending token and the password of the account
\* that has its address; anything else is refused.
ConfirmFind(r, p) ==
  /\ req[r] = Idle /\ p \in pending
  /\ \E u \in HasEmail(p.email) :
       /\ users[u].hash # NoPassword
       /\ Starts(r, [Idle EXCEPT !.pc = "identity", !.flow = "consent", !.sub = p.sub,
                                 !.email = p.email, !.uid = u, !.row = users[u]])
  /\ UNCHANGED <<users, identities, pending, local, abandoned>>

\* A second identity is created, or an index refuses it ...
ConfirmLink(r) ==
  /\ req[r].pc = "identity" /\ InConfirm(r)
  /\ LET i == [sub |-> req[r].sub, uid |-> req[r].uid, primary |-> FALSE, how |-> "consent"] IN
     \/ /\ Admits(i)
        /\ identities' = identities \cup {i}
        /\ Goto(r, "verify")
     \/ /\ ~Admits(i)
        /\ Goto(r, "existing")
        /\ UNCHANGED identities
  /\ UNCHANGED <<users, pending, local, abandoned>>

\* Mutant: the owner of the existing link is not compared.
ConfirmExisting_AnyOwner(r) ==
  /\ req[r].pc = "existing" /\ InConfirm(r)
  /\ IF LinkOf(req[r].sub) # {} THEN Goto(r, "verify") ELSE Ends(r)
  /\ UNCHANGED <<users, identities, pending, local, abandoned>>

\* ... which is no error if the subject is linked to this very account.
ConfirmExisting(r) ==
  /\ req[r].pc = "existing" /\ InConfirm(r)
  /\ IF \E i \in LinkOf(req[r].sub) : i.uid = req[r].uid THEN Goto(r, "verify") ELSE Ends(r)
  /\ UNCHANGED <<users, identities, pending, local, abandoned>>

\* An unverified account becomes verified, with the row read at the start.
ConfirmVerify(r) ==
  /\ req[r].pc = "verify"
  /\ IF req[r].row.verified THEN AnswersWith(r, req[r].uid)
     ELSE req' = [req EXCEPT ![r].pc = "save", ![r].row.verified = TRUE]
  /\ UNCHANGED <<users, identities, pending, local, abandoned>>

-----------------------------------------------------------------------------
\* Mutant: a password that exists is replaced.
SetPasswordFind_Replaces(r, u, p) ==
  /\ req[r] = Idle /\ SignsIn(u)
  /\ Starts(r, [Idle EXCEPT !.pc = "save", !.flow = "password", !.uid = u,
                            !.row = [users[u] EXCEPT !.hash = p]])
  /\ UNCHANGED <<users, identities, pending, local, abandoned>>

\* SetPassword for a signed-in account: FindByID, and a password that exists
\* is refused.
SetPasswordFind(r, u, p) ==
  /\ req[r] = Idle /\ SignsIn(u) /\ users[u].hash = NoPassword
  /\ Starts(r, [Idle EXCEPT !.pc = "save", !.flow = "password", !.uid = u,
                            !.row = [users[u] EXCEPT !.hash = p]])
  /\ UNCHANGED <<users, identities, pending, local, abandoned>>

\* UpdateProfile: FindByID, and a name, avatar or status that differs.
UpdateProfileFind(r, u) ==
  /\ req[r] = Idle /\ SignsIn(u)
  /\ Starts(r, [Idle EXCEPT !.pc = "save", !.flow = "update", !.uid = u, !.row = users[u]])
  /\ UNCHANGED <<users, identities, pending, local, abandoned>>

\* VerifyEmail, its token consumed: FindByID.
VerifyEmailFind(r, u) ==
  /\ req[r] = Idle /\ u \in local
  /\ Starts(r, [Idle EXCEPT !.pc = "save", !.flow = "mail", !.uid = u,
                            !.row = [users[u] EXCEPT !.verified = TRUE]])
  /\ UNCHANGED <<users, identities, pending, local, abandoned>>

\* Update: the whole copy replaces the row, unless the unique index on email
\* refuses it; the copies of other requests become stale.
Save(r) ==
  /\ req[r].pc = "save"
  /\ LET u == req[r].uid IN
     IF HasEmail(req[r].row.email) \subseteq {u}
     THEN /\ users' = [users EXCEPT ![u] = req[r].row]
          /\ req' = [q \in Requests |->
                       IF q = r THEN IF InSync(r) \/ InConfirm(r)
                                     THEN [req[r] EXCEPT !.pc = "answer", !.row = NoRow, !.stale = FALSE]
                                     ELSE Idle
                       ELSE IF req[q].row # NoRow /\ req[q].uid = u
                            THEN [req[q] EXCEPT !.stale = TRUE]
                            ELSE req[q]]
     ELSE Ends(r) /\ UNCHANGED users
  /\ UNCHANGED <<identities, pending, local, abandoned>>

\* The sign-in succeeds: the middleware goes on as this account, or
\* ConfirmAccountLink issues tokens for it.
Answer(r) ==
  /\ req[r].pc = "answer"
  /\ Ends(r)
  /\ UNCHANGED <<users, identities, pending, local, abandoned>>

Next ==
  \/ \E k \in SignUps : Register(k[1], k[2])
  \/ \E r \in Requests :
       \/ Dies(r) \/ Save(r) \/ Answer(r)
       \/ \E k \in Claims : SyncFind(r, k[1], k[2])
       \/ SyncProfile(r) \/ SyncByEmail(r) \/ SyncCreate(r) \/ SyncFallback(r)
       \/ SyncIdentity(r) \/ SyncExisting(r)
       \/ \E p \in pending : ConfirmFind(r, p)
       \/ ConfirmLink(r) \/ ConfirmExisting(r) \/ ConfirmVerify(r)
       \/ \E u \in Accounts : \/ \E p \in Passwords : SetPasswordFind(r, u, p)
                              \/ UpdateProfileFind(r, u) \/ VerifyEmailFind(r, u)

Spec == Init /\ [][Next]_vars
-----------------------------------------------------------------------------
TypeOK ==
  /\ Accounts = 1..Cardinality(Accounts) /\ Cardinality(Accounts) <= MaxUsers
  /\ users \in [Accounts -> Row]
  /\ identities \subseteq Identity
  /\ pending \subseteq [sub : Subjects, email : Emails]
  /\ req \in [Requests -> [pc : States, flow : Flows, sub : Subjects \cup {Nobody},
                           email : Emails \cup {Nobody}, uid : Accounts \cup {0},
                           row : Row \cup {NoRow}, stale : BOOLEAN]]
  /\ local \subseteq Accounts /\ abandoned \subseteq Accounts

\* A sign-in with an Auth0 subject is answered with the account the subject
\* is linked to, in whatever order concurrent first logins, confirmations
\* and their fallbacks run: one subject never gets into two accounts.
AnswerIsLinked ==
  \A r \in Requests : req[r].pc = "answer" => \E i \in LinkOf(req[r].sub) : i.uid = req[r].uid

\* user_service.go:88: an account made by Register is linked to an Auth0
\* subject by an explicit consent (its password) only.
NeverAutoLinked == \A i \in identities : i.uid \in local => i.how = "consent"

\* ... which holds unless the account appeared between SyncAuth0User's
\* FindByEmail and its Create.
AutoLinkedOnlyIfRaced ==
  \A i \in identities : i.uid \in local => i.how \in {"consent", "fallback"}

\* An account without a password is verified, and it can be signed into, being
\* linked to a subject or about to be, unless the first login that created it
\* ended before it had linked it (user_service.go:113): such an account is
\* abandoned, nobody can sign into it, and the property does not speak of it.
\* What it excludes is every other way to one, by the writes of stale copies.
PasswordlessCanSignIn ==
  \A u \in Accounts : users[u].hash = NoPassword =>
    /\ users[u].verified
    /\ \/ \E i \in identities : i.uid = u
       \/ \E r \in Requests : InSync(r) /\ req[r].pc \in {"identity", "existing"} /\ req[r].uid = u
       \/ u \in abandoned

\* A password, once set, stays and a verified account stays verified, except
\* when a request writes back a copy that another write has overtaken.
CredentialsStayUnlessStale ==
  [][\A u \in Accounts :
       \/ /\ users[u].hash # NoPassword => users'[u].hash = users[u].hash
          /\ users[u].verified => users'[u].verified
       \/ \E r \in Requests : req[r].pc = "save" /\ req[r].uid = u /\ req[r].stale /\ req'[r].pc # "save"]_users
=============================================================================
