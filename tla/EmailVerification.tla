------------------------- MODULE EmailVerification --------------------------
(***************************************************************************)
(* The registration of one email address: Register, ResendVerification,    *)
(* VerifyEmail and Login of local_auth_service.go over the tables users,   *)
(* email_verification_tokens and refresh_tokens.                           *)
(*                                                                         *)
(* Requests run concurrently, every repository call is one atomic step and *)
(* no transaction spans two of them.  The mail server may fail, also after *)
(* it has delivered.  A row that VerifyEmail writes back with Save is      *)
(* inserted again when it has been deleted in between.                     *)
(***************************************************************************)
EXTENDS Naturals, Sequences

CONSTANTS Requests,    \* the requests served at one time
          MaxUsers,    \* bound: accounts created for the address
          MaxTokens    \* bound: verification tokens created

ASSUME VerificationAssumption == MaxUsers \in Nat /\ MaxTokens \in Nat

VARIABLES account,    \* the row of users with this address
          created,    \* the accounts ever created are 1..created
          owner,      \* owner[t]: the account the t-th token was made for
          table,      \* the rows of email_verification_tokens
          aged,       \* tokens 1..aged are older than the resend cooldown
          lapsed,     \* tokens 1..lapsed are past their expires_at
          mailed,     \* the tokens that reached the mailbox
          sessions,   \* the accounts with rows in refresh_tokens
          req,        \* req[r]: what request r is doing
          answered,   \* history: accounts whose Register was answered with success
          redeemed,   \* history: tokens that VerifyEmail accepted
          solo,       \* history: tokens whose sending overlapped no other one
                      \* (dead ones are dropped with the next insertion)
          swept       \* history: the last token sent alone after a DeleteByUserID
                      \* that succeeded, or 0

vars == <<account, created, owner, table, aged, lapsed, mailed, sessions, req,
          answered, redeemed, solo, swept>>
clock == <<aged, lapsed>>
history == <<answered, redeemed, solo, swept>>

Accounts == 1..created
Tokens == 1..Len(owner)
NoUser == [id |-> 0, verified |-> FALSE]
Idle == [pc |-> "idle", flow |-> "none", uid |-> 0, tok |-> 0, solo |-> FALSE, cleared |-> FALSE]
States == {"idle", "create", "latest", "clear", "token", "mail", "rollback", "find", "update", "issue"}
Flows == {"none", "register", "resend"}

Goto(r, s) == req' = [req EXCEPT ![r].pc = s]
Ends(r) == req' = [req EXCEPT ![r] = Idle]
GivesUp(r) ==
  req' = [req EXCEPT ![r] = [Idle EXCEPT !.pc = "rollback", !.flow = req[r].flow, !.uid = req[r].uid]]
Sending(q) == req[q].pc \in {"clear", "token"}

\* Request r enters sendVerificationEmail for account u.
StartsSending(r, flow, u) ==
  LET others == {q \in Requests \ {r} : Sending(q)} IN
  req' = [q \in Requests |->
            IF q = r THEN [Idle EXCEPT !.pc = "clear", !.flow = flow, !.uid = u, !.solo = (others = {})]
            ELSE IF q \in others THEN [req[q] EXCEPT !.solo = FALSE, !.cleared = FALSE]
            ELSE req[q]]

Init == /\ account = NoUser /\ created = 0
        /\ owner = <<>> /\ table = {} /\ aged = 0 /\ lapsed = 0
        /\ mailed = {} /\ sessions = {}
        /\ req = [r \in Requests |-> Idle]
        /\ answered = {} /\ redeemed = {} /\ solo = {} /\ swept = 0

-----------------------------------------------------------------------------
\* One minute (resendVerificationCooldown) or 24 hours (verificationTokenExpiry)
\* pass; older tokens age first.
Age == /\ aged < Len(owner) /\ aged' \in (aged + 1)..Len(owner)
       /\ UNCHANGED <<account, created, owner, table, lapsed, mailed, sessions, req, history>>

Lapse == /\ lapsed < aged /\ lapsed' = lapsed + 1
         /\ UNCHANGED <<account, created, owner, table, aged, mailed, sessions, req, history>>

\* A repository call fails and its error is returned, or the server dies
\* there: nothing more is done for the request.
Dies(r) == /\ req[r] # Idle
           /\ Ends(r)
           /\ UNCHANGED <<account, created, owner, table, clock, mailed, sessions, history>>

-----------------------------------------------------------------------------
\* Register: FindByEmail refuses an address that is taken.
RegisterFind(r) ==
  /\ req[r] = Idle
  /\ IF account # NoUser THEN UNCHANGED req
     ELSE req' = [req EXCEPT ![r] = [Idle EXCEPT !.pc = "create", !.flow = "register"]]
  /\ UNCHANGED <<account, created, owner, table, clock, mailed, sessions, history>>

\* Create, which the unique index on email refuses to the later of two.
RegisterCreate(r) ==
  /\ req[r].pc = "create"
  /\ IF account # NoUser
     THEN Ends(r) /\ UNCHANGED <<account, created>>
     ELSE /\ created < MaxUsers
          /\ created' = created + 1
          /\ account' = [id |-> created', verified |-> FALSE]
          /\ StartsSending(r, "register", created')
  /\ UNCHANGED <<owner, table, clock, mailed, sessions, history>>

\* ResendVerification: an unknown or verified address gets nothing.
ResendFind(r) ==
  /\ req[r] = Idle
  /\ IF account = NoUser \/ account.verified THEN UNCHANGED req
     ELSE req' = [req EXCEPT ![r] = [Idle EXCEPT !.pc = "latest", !.flow = "resend", !.uid = account.id]]
  /\ UNCHANGED <<account, created, owner, table, clock, mailed, sessions, history>>

\* Mutant: no cooldown.
ResendLatest_NoCooldown(r) ==
  /\ req[r].pc = "latest"
  /\ StartsSending(r, "resend", req[r].uid)
  /\ UNCHANGED <<account, created, owner, table, clock, mailed, sessions, history>>

\* FindLatestByUserID and the cooldown.
ResendLatest(r) ==
  /\ req[r].pc = "latest"
  /\ IF \E t \in table : owner[t] = req[r].uid /\ t > aged
     THEN Ends(r)
     ELSE StartsSending(r, "resend", req[r].uid)
  /\ UNCHANGED <<account, created, owner, table, clock, mailed, sessions, history>>

\* Mutant: only the expired tokens are deleted.
SendClear_Expired(r) ==
  /\ req[r].pc = "clear"
  /\ table' = {t \in table : owner[t] # req[r].uid \/ t > lapsed}
  /\ req' = [req EXCEPT ![r].pc = "token", ![r].cleared = req[r].solo]
  /\ UNCHANGED <<account, created, owner, clock, mailed, sessions, history>>

\* sendVerificationEmail: DeleteByUserID, whose error is ignored ...
SendClear(r) ==
  /\ req[r].pc = "clear"
  /\ \/ /\ table' = {t \in table : owner[t] # req[r].uid}
        /\ req' = [req EXCEPT ![r].pc = "token", ![r].cleared = req[r].solo]
     \/ /\ Goto(r, "token")
        /\ UNCHANGED table
  /\ UNCHANGED <<account, created, owner, clock, mailed, sessions, history>>

\* ... Create, for a user who still exists (the foreign key) ...
SendCreate(r) ==
  /\ req[r].pc = "token" /\ account.id = req[r].uid /\ Len(owner) < MaxTokens
  /\ owner' = Append(owner, req[r].uid)
  /\ table' = table \cup {Len(owner')}
  /\ req' = [req EXCEPT ![r].pc = "mail", ![r].tok = Len(owner')]
  /\ solo' = (solo \cap table) \cup (IF req[r].solo THEN {Len(owner')} ELSE {})
  /\ swept' = IF req[r].cleared THEN Len(owner') ELSE swept
  /\ UNCHANGED <<account, created, clock, mailed, sessions, answered, redeemed>>

\* ... which may fail ...
SendCreateFails(r) ==
  /\ req[r].pc = "token"
  /\ IF req[r].flow = "register" THEN GivesUp(r) ELSE Ends(r)
  /\ UNCHANGED <<account, created, owner, table, clock, mailed, sessions, history>>

\* ... and the mail, after which Register and ResendVerification succeed ...
SendMail(r) ==
  /\ req[r].pc = "mail"
  /\ mailed' = mailed \cup {req[r].tok}
  /\ answered' = IF req[r].flow = "register" THEN answered \cup {req[r].uid} ELSE answered
  /\ Ends(r)
  /\ UNCHANGED <<account, created, owner, table, clock, sessions, redeemed, solo, swept>>

\* Mutant: a failed resend takes the account back as well.
SendMailFails_AlwaysRollsBack(r) ==
  /\ req[r].pc = "mail"
  /\ mailed' \in {mailed, mailed \cup {req[r].tok}}
  /\ GivesUp(r)
  /\ UNCHANGED <<account, created, owner, table, clock, sessions, history>>

\* ... or an error of the mail server, before or after it delivered.
SendMailFails(r) ==
  /\ req[r].pc = "mail"
  /\ mailed' \in {mailed, mailed \cup {req[r].tok}}
  /\ IF req[r].flow = "register" THEN GivesUp(r) ELSE Ends(r)
  /\ UNCHANGED <<account, created, owner, table, clock, sessions, history>>

\* Mutant: the tokens of a deleted user stay (no ON DELETE CASCADE).
Rollback_NoCascade(r) ==
  /\ req[r].pc = "rollback"
  /\ account' = IF account.id = req[r].uid THEN NoUser ELSE account
  /\ Ends(r)
  /\ UNCHANGED <<created, owner, table, clock, mailed, sessions, history>>

\* Register takes its account back: DeleteByID, which cascades.
Rollback(r) ==
  /\ req[r].pc = "rollback"
  /\ IF account.id = req[r].uid
     THEN /\ account' = NoUser
          /\ table' = {t \in table : owner[t] # req[r].uid}
          /\ sessions' = sessions \ {req[r].uid}
     ELSE UNCHANGED <<account, table, sessions>>
  /\ Ends(r)
  /\ UNCHANGED <<created, owner, clock, mailed, history>>

-----------------------------------------------------------------------------
\* Mutant: the row is looked up but not deleted.
VerifyConsume_Keeps(r, t) ==
  /\ req[r] = Idle /\ t \in mailed \cap table /\ t > lapsed
  /\ redeemed' = redeemed \cup {t}
  /\ req' = [req EXCEPT ![r] = [Idle EXCEPT !.pc = "find", !.uid = owner[t]]]
  /\ UNCHANGED <<account, created, owner, table, clock, mailed, sessions, answered, solo, swept>>

\* VerifyEmail with a link from the mailbox: ConsumeValidByHash deletes the
\* row and returns its user in one statement.
VerifyConsume(r, t) ==
  /\ req[r] = Idle /\ t \in mailed
  /\ IF t \in table /\ t > lapsed
     THEN /\ table' = table \ {t}
          /\ redeemed' = redeemed \cup {t}
          /\ req' = [req EXCEPT ![r] = [Idle EXCEPT !.pc = "find", !.uid = owner[t]]]
     ELSE UNCHANGED <<table, redeemed, req>>
  /\ UNCHANGED <<account, created, owner, clock, mailed, sessions, answered, solo, swept>>

\* FindByID; the row read is kept and written back whole.
VerifyFind(r) ==
  /\ req[r].pc = "find"
  /\ IF account.id = req[r].uid THEN Goto(r, "update") ELSE Ends(r)
  /\ UNCHANGED <<account, created, owner, table, clock, mailed, sessions, history>>

\* Mutant: the update finds its row by email instead of by id.
VerifyUpdate_ByEmail(r) ==
  /\ req[r].pc = "update" /\ account # NoUser
  /\ account' = [account EXCEPT !.verified = TRUE]
  /\ Goto(r, "issue")
  /\ UNCHANGED <<created, owner, table, clock, mailed, sessions, history>>

\* Update (Save): the row is written, inserted again if it is gone, and
\* refused by the unique index if the address has another account by now.
VerifyUpdate(r) ==
  /\ req[r].pc = "update"
  /\ IF account \in {NoUser, [id |-> req[r].uid, verified |-> account.verified]}
     THEN account' = [id |-> req[r].uid, verified |-> TRUE] /\ Goto(r, "issue")
     ELSE Ends(r) /\ UNCHANGED account
  /\ UNCHANGED <<created, owner, table, clock, mailed, sessions, history>>

\* Mutant: EmailVerified is not looked at.
LoginFind_Unverified(r) ==
  /\ req[r] = Idle /\ account # NoUser
  /\ req' = [req EXCEPT ![r] = [Idle EXCEPT !.pc = "issue", !.uid = account.id]]
  /\ UNCHANGED <<account, created, owner, table, clock, mailed, sessions, history>>

\* Login with the right password.
LoginFind(r) ==
  /\ req[r] = Idle
  /\ IF account.verified
     THEN req' = [req EXCEPT ![r] = [Idle EXCEPT !.pc = "issue", !.uid = account.id]]
     ELSE UNCHANGED req
  /\ UNCHANGED <<account, created, owner, table, clock, mailed, sessions, history>>

\* issueTokenPair, for a user who still exists (the foreign key).
Issue(r) ==
  /\ req[r].pc = "issue"
  /\ sessions' = IF account.id = req[r].uid THEN sessions \cup {req[r].uid} ELSE sessions
  /\ Ends(r)
  /\ UNCHANGED <<account, created, owner, table, clock, mailed, history>>

Next == \/ Age \/ Lapse
        \/ \E r \in Requests :
             \/ Dies(r)
             \/ RegisterFind(r) \/ RegisterCreate(r) \/ Rollback(r)
             \/ ResendFind(r) \/ ResendLatest(r)
             \/ SendClear(r) \/ SendCreate(r) \/ SendCreateFails(r)
             \/ SendMail(r) \/ SendMailFails(r)
             \/ \E t \in mailed : VerifyConsume(r, t)
             \/ VerifyFind(r) \/ VerifyUpdate(r)
             \/ LoginFind(r) \/ Issue(r)

Spec == Init /\ [][Next]_vars
-----------------------------------------------------------------------------
TypeOK ==
  /\ account \in [id : Accounts, verified : BOOLEAN] \cup {NoUser}
  /\ created \in Nat
  /\ owner \in Seq(Accounts)
  /\ table \subseteq Tokens /\ \A t \in table : owner[t] = account.id
  /\ aged \in 0..Len(owner) /\ lapsed \in 0..aged
  /\ mailed \subseteq Tokens /\ redeemed \subseteq mailed /\ solo \subseteq Tokens /\ swept \in Tokens \cup {0}
  /\ sessions \subseteq Accounts /\ answered \subseteq Accounts
  /\ req \in [Requests -> [pc : States, flow : Flows, uid : Accounts \cup {0},
                           tok : Tokens \cup {0}, solo : BOOLEAN, cleared : BOOLEAN]]

\* An address is verified only by the holder of its mailbox: a verified
\* account redeemed a link that was made for this very account, also when
\* accounts of the address were rolled back, created again or resurrected.
VerifiedHasProof == account.verified => \E t \in redeemed : owner[t] = account.id

\* A verification link works once: concurrent or repeated clicks, a crash
\* after the redemption or a resend never make it valid again.
RedeemedIsDead == redeemed \cap table = {}

\* A mail whose sending overlapped no other, and whose DeleteByUserID
\* succeeded, leaves no older link of the account valid, whatever the sendings
\* before and after it do.
NewestLinkWins ==
  swept # 0 => \A u \in table : owner[u] = owner[swept] => u >= swept

\* The cooldown of ResendVerification: beside a link younger than it no other
\* young link is valid, unless the sending of the first (the steps from
\* FindLatestByUserID to the insertion) overlapped another one.  It does not
\* need the cleanup to succeed; a failed one can leave an aged link valid
\* beside a young one, of which this says nothing.
CooldownUnlessRaced ==
  \A t \in solo \cap table, u \in table : t > aged /\ u > aged => t = u

\* A registration that was answered with success is never taken back, by
\* whatever failure of a later mail or other registration of the address.
AnsweredAccountStays ==
  [][account.id \in answered => account'.id = account.id]_account

\* Only verified accounts have sessions: not an unverified one, nor one that
\* was rolled back while its login was served.  docs/architecture.md:392-397 says
\* so too; docs/frontend-guide.md:399-416 shows tokens in the answer of
\* POST /auth/register, before any verification, which Register does not give.
SessionsAreVerified == \A u \in sessions : account = [id |-> u, verified |-> TRUE]
=============================================================================
