----------------------- MODULE EmailVerificationProofs ----------------------
(***************************************************************************)
(* The safety of EmailVerification for any number of concurrent requests   *)
(* and any number of accounts and tokens.                                  *)
(***************************************************************************)
EXTENDS EmailVerification, TLAPS

USE VerificationAssumption

Request == [pc : States, flow : Flows, uid : Accounts \cup {0},
            tok : Tokens \cup {0}, solo : BOOLEAN, cleared : BOOLEAN]

\* Why the invariants below are inductive.  What a request carries is about an
\* account and a token that were made, and about a redeemed link if it is to
\* verify the account.
KnowsItsAccount(q) == q.pc \notin {"idle", "create"} => q.uid \in Accounts
KnowsItsToken(q) == q.pc = "mail" => q.tok \in Tokens
HoldsProof(q) == q.pc \in {"find", "update"} => \E t \in redeemed : owner[t] = q.uid

\* Whoever is to get a session signs into a verified account, if it exists.
IssuesToVerified(q) == q.pc = "issue" /\ account.id = q.uid => account.verified

\* Only Register takes an account back, its own, before its answer.
Undoable(q) == q.flow = "register" /\ q.pc \in {"clear", "token", "mail", "rollback"}
UndoesUnanswered(q) == /\ Undoable(q) => q.uid \notin answered
                       /\ q.pc = "rollback" => q.flow = "register"

\* Between its clearing and its insertion no link of the account is valid; and
\* the links it found when it began have aged, which are all there are if it
\* sends alone, and all that were sent alone if it does not.
InSending(q) == q.pc \in {"clear", "token"}
ClearedIsEmpty(q) == /\ q.pc = "clear" => ~q.cleared
                     /\ q.pc = "token" /\ q.cleared => q.solo /\ \A u \in table : owner[u] # q.uid
YoungIsSeen(q) ==
  InSending(q) => \A t \in table : owner[t] = q.uid /\ (q.solo \/ t \in solo) => t <= aged

RequestOK(q) ==
  /\ KnowsItsAccount(q) /\ KnowsItsToken(q) /\ HoldsProof(q) /\ IssuesToVerified(q)
  /\ UndoesUnanswered(q) /\ ClearedIsEmpty(q) /\ YoungIsSeen(q)

\* Of two requests: who sends alone is alone, and no two undo one account.
PairOK(p, q) ==
  /\ InSending(p) /\ p.solo => ~InSending(q)
  /\ Undoable(p) /\ Undoable(q) => p.uid # q.uid

IInv == /\ TypeOK /\ VerifiedHasProof /\ RedeemedIsDead /\ NewestLinkWins /\ CooldownUnlessRaced
        /\ SessionsAreVerified
        /\ \A r \in Requests : RequestOK(req[r])
        /\ \A r, q \in Requests : r # q => PairOK(req[r], req[q])

\* IInv, the requests apart.
TableInv ==
  /\ account \in [id : Accounts, verified : BOOLEAN] \cup {NoUser} /\ created \in Nat
  /\ owner \in Seq(Accounts)
  /\ table \subseteq Tokens /\ \A t \in table : owner[t] = account.id
  /\ aged \in 0..Len(owner) /\ lapsed \in 0..aged
  /\ mailed \subseteq Tokens /\ redeemed \subseteq mailed /\ solo \subseteq Tokens /\ swept \in Tokens \cup {0}
  /\ sessions \subseteq Accounts /\ answered \subseteq Accounts
  /\ VerifiedHasProof /\ RedeemedIsDead /\ NewestLinkWins /\ CooldownUnlessRaced
  /\ SessionsAreVerified

LEMMA InvSplit ==
  IInv <=> /\ TableInv /\ req \in [Requests -> Request] /\ \A r \in Requests : RequestOK(req[r])
           /\ \A r, q \in Requests : r # q => PairOK(req[r], req[q])
  BY DEF IInv, TableInv, TypeOK, Request

LEMMA InvSplitNext ==
  IInv' <=> /\ TableInv' /\ req' \in [Requests -> Request'] /\ \A r \in Requests : RequestOK(req[r])'
            /\ \A r, q \in Requests : r # q => PairOK(req'[r], req'[q])
  BY DEF IInv, TableInv, TypeOK, Request, PairOK, InSending, Undoable

-----------------------------------------------------------------------------
\* Lemmas about the tables and the requests.
LEMMA Typed ==
  ASSUME TableInv
  PROVE  /\ Len(owner) \in Nat /\ aged \in Nat /\ lapsed \in Nat /\ created \in Nat
         /\ Tokens \subseteq Nat /\ \A t \in Tokens : owner[t] \in Accounts
         /\ Accounts \subseteq Nat \ {0}
         /\ account = NoUser \/ (account.id \in Accounts /\ account.verified \in BOOLEAN
                                 /\ account = [id |-> account.id, verified |-> account.verified])
         /\ account = NoUser => account.id = 0 /\ table = {} /\ sessions = {}
         /\ account.id \in Accounts => account # NoUser
<1>1. /\ Len(owner) \in Nat /\ aged \in Nat /\ lapsed \in Nat /\ created \in Nat
      /\ Tokens \subseteq Nat /\ Accounts \subseteq Nat \ {0}
  BY DEF TableInv, Tokens, Accounts
<1>2. \A t \in Tokens : owner[t] \in Accounts
  BY DEF TableInv, Tokens
<1>3. account = NoUser \/ (account.id \in Accounts /\ account.verified \in BOOLEAN
                           /\ account = [id |-> account.id, verified |-> account.verified])
  BY DEF TableInv
<1>4. account = NoUser => account.id = 0 /\ ~account.verified
  BY DEF NoUser
<1>5. account = NoUser => table = {} /\ sessions = {}
  <2> SUFFICES ASSUME account = NoUser PROVE table = {} /\ sessions = {}
    OBVIOUS
  <2>1. \A t \in table : owner[t] \in Accounts /\ owner[t] = 0
    BY <1>2, <1>4 DEF TableInv
  <2>2. \A u \in sessions : u \in Accounts /\ u = 0
    BY <1>4 DEF TableInv, SessionsAreVerified, NoUser
  <2> QED
    BY <1>1, <2>1, <2>2
<1> QED
  BY <1>1, <1>2, <1>3, <1>4, <1>5

LEMMA IdleOK ==
  /\ Idle \in Request /\ Idle \in Request' /\ RequestOK(Idle) /\ RequestOK(Idle)'
  /\ ~InSending(Idle) /\ ~Undoable(Idle)
  BY DEF Idle, Request, RequestOK, KnowsItsAccount, KnowsItsToken, HoldsProof, IssuesToVerified,
     Undoable, UndoesUnanswered, InSending, ClearedIsEmpty, YoungIsSeen, States, Flows

\* What every step does but the creation of a token.
Keeps ==
  /\ created <= created' /\ owner' = owner /\ redeemed \subseteq redeemed' /\ aged <= aged'
  /\ table' \subseteq table /\ solo' = solo
  /\ \A u \in Accounts : account'.id = u => account'.verified \/ account' = account

LEMMA StaysOK ==
  ASSUME TableInv, TableInv', Keeps, NEW q \in Request, RequestOK(q), Undoable(q) => q.uid \notin answered'
  PROVE  q \in Request' /\ RequestOK(q)'
<1>1. Accounts \subseteq Accounts' /\ Tokens' = Tokens /\ aged \in Nat /\ aged' \in Nat /\ Tokens \subseteq Nat
  BY Typed DEF Keeps, TableInv, Accounts, Tokens
<1>2. q \in Request'
  BY <1>1 DEF Request
<1>3. KnowsItsAccount(q)' /\ KnowsItsToken(q)'
  BY <1>1 DEF RequestOK, KnowsItsAccount, KnowsItsToken
<1>4. HoldsProof(q)'
  BY DEF RequestOK, HoldsProof, Keeps
<1>5. IssuesToVerified(q)'
  BY DEF RequestOK, IssuesToVerified, KnowsItsAccount, Keeps
<1>6. UndoesUnanswered(q)'
  BY DEF RequestOK, UndoesUnanswered, Undoable
<1>7. ClearedIsEmpty(q)'
  BY DEF RequestOK, ClearedIsEmpty, Keeps
<1>8. YoungIsSeen(q)'
  <2> SUFFICES ASSUME InSending(q), NEW t \in table, owner[t] = q.uid, q.solo \/ t \in solo PROVE t <= aged'
    BY DEF YoungIsSeen, Keeps
  <2>1. t <= aged /\ t \in Nat
    BY <1>1 DEF RequestOK, YoungIsSeen, TableInv
  <2> QED
    BY <1>1, <2>1 DEF Keeps
<1> QED
  BY <1>2, <1>3, <1>4, <1>5, <1>6, <1>7, <1>8 DEF RequestOK

\* The step of one request, in which it becomes new and does not enter
\* sendVerificationEmail.
LEMMA RequestStep ==
  ASSUME IInv, NEW r \in Requests, NEW new, req' = [req EXCEPT ![r] = new],
         TableInv', Keeps, new \in Request', RequestOK(new)',
         \A q \in Requests \ {r} : Undoable(req[q]) => req[q].uid \notin answered',
         InSending(new) => InSending(req[r]) /\ new.solo = req[r].solo,
         Undoable(new) => Undoable(req[r]) /\ new.uid = req[r].uid
  PROVE  IInv'
<1>0. TableInv /\ req \in [Requests -> Request] /\ req'[r] = new
  BY InvSplit
<1>1. ASSUME NEW q \in Requests, q # r PROVE req'[q] \in Request' /\ RequestOK(req[q])' /\ req'[q] = req[q]
  <2>1. req'[q] = req[q] /\ req[q] \in Request /\ RequestOK(req[q])
    BY <1>0, <1>1, InvSplit
  <2>2. PICK old : old = req[q]
    OBVIOUS
  <2>3. old \in Request /\ RequestOK(old) /\ (Undoable(old) => old.uid \notin answered')
    BY <1>1, <2>1, <2>2
  <2>4. old \in Request' /\ RequestOK(old)'
    BY <1>0, <2>3, StaysOK
  <2>5. RequestOK(req[q])'
    BY <2>1, <2>2, <2>4 DEF RequestOK, KnowsItsAccount, KnowsItsToken, HoldsProof, IssuesToVerified,
       Undoable, UndoesUnanswered, InSending, ClearedIsEmpty, YoungIsSeen
  <2> QED
    BY <2>1, <2>2, <2>4, <2>5
<1>2. RequestOK(req[r])'
  BY <1>0 DEF RequestOK, KnowsItsAccount, KnowsItsToken, HoldsProof, IssuesToVerified,
     Undoable, UndoesUnanswered, InSending, ClearedIsEmpty, YoungIsSeen
<1>3. \A p, q \in Requests : p # q => PairOK(req[p], req[q])
  BY InvSplit
<1>4. \A p, q \in Requests : p # q => PairOK(req'[p], req'[q])
  <2> SUFFICES ASSUME NEW p \in Requests, NEW q \in Requests, p # q PROVE PairOK(req'[p], req'[q])
    OBVIOUS
  <2>1. CASE p # r /\ q # r
    BY <1>1, <1>3, <2>1
  <2>2. CASE p = r
    BY <1>0, <1>1, <1>3, <2>2 DEF PairOK
  <2>3. CASE q = r
    BY <1>0, <1>1, <1>3, <2>3 DEF PairOK
  <2> QED
    BY <2>1, <2>2, <2>3
<1>5. req' \in [Requests -> Request']
  BY <1>0, <1>1
<1> QED
  BY <1>1, <1>2, <1>4, <1>5, InvSplitNext

-----------------------------------------------------------------------------
\* IInv is inductive.  The steps that change one request only ...
LEMMA InvInit == Init => IInv
<1> SUFFICES ASSUME Init PROVE IInv
  OBVIOUS
<1>1. TableInv
  BY DEF Init, TableInv, VerifiedHasProof, RedeemedIsDead, NewestLinkWins, CooldownUnlessRaced,
     SessionsAreVerified, NoUser, Tokens, Accounts
<1>2. /\ req \in [Requests -> Request] /\ \A r \in Requests : RequestOK(req[r])
      /\ \A r, q \in Requests : r # q => PairOK(req[r], req[q])
  BY IdleOK DEF Init, PairOK
<1> QED
  BY <1>1, <1>2, InvSplit

Still == UNCHANGED <<account, created, owner, table, clock, mailed, sessions, history>>

LEMMA StillTables ==
  ASSUME TableInv, Still
  PROVE  TableInv' /\ Keeps /\ answered' = answered /\ Request' = Request
<1>1. TableInv'
  BY DEF Still, clock, history, TableInv, VerifiedHasProof, RedeemedIsDead, NewestLinkWins,
     CooldownUnlessRaced, SessionsAreVerified, Tokens, Accounts
<1>2. Request' = Request
  BY DEF Still, Request, Tokens, Accounts
<1>3. Keeps
  BY Typed DEF Still, clock, history, Keeps
<1> QED
  BY <1>1, <1>2, <1>3 DEF Still, history

\* What is in order for a request does not depend on primes of equal tables.
LEMMA StillOK ==
  ASSUME Still, NEW q, RequestOK(q)
  PROVE  RequestOK(q)'
  BY DEF Still, clock, history, RequestOK, KnowsItsAccount, KnowsItsToken, HoldsProof, IssuesToVerified,
     Undoable, UndoesUnanswered, InSending, ClearedIsEmpty, YoungIsSeen, Tokens, Accounts

LEMMA StillStep ==
  ASSUME IInv, Still, NEW r \in Requests, NEW new \in Request, req' = [req EXCEPT ![r] = new], RequestOK(new),
         InSending(new) => InSending(req[r]) /\ new.solo = req[r].solo,
         Undoable(new) => Undoable(req[r]) /\ new.uid = req[r].uid
  PROVE  IInv'
<1>0. TableInv
  BY InvSplit
<1>1. TableInv' /\ Keeps /\ answered' = answered /\ Request' = Request /\ RequestOK(new)'
  BY <1>0, StillTables, StillOK
<1>2. \A q \in Requests : Undoable(req[q]) => req[q].uid \notin answered'
  BY <1>1, InvSplit DEF RequestOK, UndoesUnanswered
<1> QED
  BY <1>1, <1>2, RequestStep

LEMMA EndsStep ==
  ASSUME IInv, Still, NEW r \in Requests, Ends(r)
  PROVE  IInv'
  BY IdleOK, StillStep DEF Ends

LEMMA SkipStep ==
  ASSUME IInv, Still, UNCHANGED req
  PROVE  IInv'
<1>0. TableInv /\ req \in [Requests -> Request]
  BY InvSplit
<1>1. TableInv' /\ Request' = Request
  BY <1>0, StillTables
<1>2. ASSUME NEW r \in Requests PROVE RequestOK(req[r])'
  BY InvSplit DEF Still, clock, history, RequestOK, KnowsItsAccount, KnowsItsToken, HoldsProof, IssuesToVerified,
     Undoable, UndoesUnanswered, InSending, ClearedIsEmpty, YoungIsSeen, Tokens, Accounts
<1> QED
  BY <1>0, <1>1, <1>2, InvSplit, InvSplitNext

\* ... by a read of the account or the clock ...
LEMMA ReadSteps ==
  ASSUME IInv, NEW r \in Requests,
         \/ Dies(r) \/ RegisterFind(r) \/ ResendFind(r) \/ SendCreateFails(r) \/ VerifyFind(r) \/ LoginFind(r)
  PROVE  IInv'
<1>0. TableInv /\ req[r] \in Request /\ RequestOK(req[r])
  BY InvSplit
<1>1. Still
  BY DEF Still, Dies, RegisterFind, ResendFind, SendCreateFails, VerifyFind, LoginFind
<1>2. CASE Ends(r) \/ UNCHANGED req
  BY <1>1, <1>2, EndsStep, SkipStep
<1>3. CASE RegisterFind(r)
  <2>1. PICK new : new = [Idle EXCEPT !.pc = "create", !.flow = "register"]
    OBVIOUS
  <2>2. new \in Request /\ RequestOK(new) /\ ~InSending(new) /\ ~Undoable(new)
    BY <2>1 DEF Idle, Request, RequestOK, KnowsItsAccount, KnowsItsToken, HoldsProof, IssuesToVerified,
       Undoable, UndoesUnanswered, InSending, ClearedIsEmpty, YoungIsSeen, States, Flows
  <2>3. req' = [req EXCEPT ![r] = new] \/ UNCHANGED req
    BY <1>3, <2>1 DEF RegisterFind
  <2> QED
    BY <1>1, <1>2, <2>2, <2>3, StillStep
<1>4. CASE (ResendFind(r) \/ LoginFind(r)) /\ account # NoUser /\ ~ UNCHANGED req
  <2>1. PICK new : new \in {[Idle EXCEPT !.pc = "latest", !.flow = "resend", !.uid = account.id],
                            [Idle EXCEPT !.pc = "issue", !.uid = account.id]}
                   /\ req' = [req EXCEPT ![r] = new] /\ (new.pc = "issue" => account.verified)
    <3>1. CASE ResendFind(r)
      <4>1. PICK x : x = [Idle EXCEPT !.pc = "latest", !.flow = "resend", !.uid = account.id]
        OBVIOUS
      <4>2. x.pc = "latest"
        BY <4>1 DEF Idle
      <4> QED
        BY <1>4, <3>1, <4>1, <4>2 DEF ResendFind
    <3>2. CASE LoginFind(r)
      BY <1>4, <3>2 DEF LoginFind
    <3> QED
      BY <1>4, <3>1, <3>2
  <2>2. account.id \in Accounts
    BY <1>0, <1>4, Typed
  <2>3. /\ new \in Request /\ new.pc \in {"latest", "issue"} /\ new.uid = account.id
        /\ ~InSending(new) /\ ~Undoable(new)
    <3>1. PICK u : u = account.id
      OBVIOUS
    <3>2. CASE new = [Idle EXCEPT !.pc = "latest", !.flow = "resend", !.uid = u]
      BY <2>2, <3>1, <3>2 DEF Idle, Request, InSending, Undoable, States, Flows
    <3>3. CASE new = [Idle EXCEPT !.pc = "issue", !.uid = u]
      BY <2>2, <3>1, <3>3 DEF Idle, Request, InSending, Undoable, States, Flows
    <3> QED
      BY <2>1, <3>1, <3>2, <3>3
  <2>4. RequestOK(new)
    BY <2>1, <2>2, <2>3 DEF RequestOK, KnowsItsAccount, KnowsItsToken, HoldsProof,
       IssuesToVerified, Undoable, UndoesUnanswered, InSending, ClearedIsEmpty, YoungIsSeen
  <2> QED
    BY <1>1, <2>1, <2>3, <2>4, StillStep
<1>5. CASE SendCreateFails(r)
  <2>1. CASE req[r].flow = "register"
    <3>1. PICK new : new = [Idle EXCEPT !.pc = "rollback", !.flow = req[r].flow, !.uid = req[r].uid]
      OBVIOUS
    <3>2. req[r].pc = "token" /\ req' = [req EXCEPT ![r] = new]
      BY <1>5, <2>1, <3>1 DEF SendCreateFails, GivesUp
    <3>3. req[r].uid \in Accounts
      BY <1>0, <3>2 DEF RequestOK, KnowsItsAccount
    <3>4. /\ new \in Request /\ new.pc = "rollback" /\ new.flow = "register" /\ new.uid = req[r].uid
          /\ ~InSending(new) /\ Undoable(req[r])
      BY <2>1, <3>1, <3>2, <3>3 DEF Idle, Request, Undoable, InSending, States, Flows
    <3>5. RequestOK(new)
      BY <1>0, <3>3, <3>4 DEF RequestOK, KnowsItsAccount, KnowsItsToken, HoldsProof,
         IssuesToVerified, Undoable, UndoesUnanswered, InSending, ClearedIsEmpty, YoungIsSeen
    <3> QED
      BY <1>1, <3>2, <3>4, <3>5, StillStep
  <2> QED
    BY <1>2, <1>5, <2>1 DEF SendCreateFails
<1>6. CASE VerifyFind(r)
  <2>1. CASE account.id = req[r].uid
    <3>1. PICK new : new = [req[r] EXCEPT !.pc = "update"]
      OBVIOUS
    <3>2. req[r].pc = "find" /\ req' = [req EXCEPT ![r] = new]
      BY <1>6, <2>1, <3>1, InvSplit DEF VerifyFind, Goto
    <3>3. new \in Request /\ RequestOK(new) /\ ~InSending(new) /\ ~Undoable(new)
      BY <1>0, <2>1, <3>1, <3>2 DEF Request, RequestOK, KnowsItsAccount, KnowsItsToken, HoldsProof,
         IssuesToVerified, Undoable, UndoesUnanswered, InSending, ClearedIsEmpty, YoungIsSeen, States, Flows
    <3> QED
      BY <1>1, <3>2, <3>3, StillStep
  <2> QED
    BY <1>2, <1>6, <2>1 DEF VerifyFind
<1>7. CASE ResendFind(r) \/ LoginFind(r)
  BY <1>2, <1>4, <1>7 DEF ResendFind, LoginFind, NoUser
<1> QED
  BY <1>2, <1>3, <1>5, <1>6, <1>7 DEF Dies

-----------------------------------------------------------------------------
\* ... and those that write a table as well.  SendClear, whose deletion may
\* fail: the links that are left are fewer, and none if it succeeds.
LEMMA SendClearStep ==
  ASSUME IInv, NEW r \in Requests, SendClear(r)
  PROVE  IInv'
<1>0. TableInv /\ req[r] \in Request /\ RequestOK(req[r]) /\ req[r].pc = "clear"
  BY InvSplit DEF SendClear
<1>1. PICK new : /\ req' = [req EXCEPT ![r] = new]
                 /\ \/ new = [req[r] EXCEPT !.pc = "token", !.cleared = req[r].solo]
                       /\ new.cleared = req[r].solo
                       /\ table' = {t \in table : owner[t] # req[r].uid}
                    \/ new = [req[r] EXCEPT !.pc = "token"] /\ UNCHANGED table
                       /\ new.cleared = req[r].cleared
  <2>1. CASE req' = [req EXCEPT ![r].pc = "token", ![r].cleared = req[r].solo]
             /\ table' = {t \in table : owner[t] # req[r].uid}
    <3>1. req' = [req EXCEPT ![r] = [req[r] EXCEPT !.pc = "token", !.cleared = req[r].solo]]
      BY <2>1, InvSplit
    <3>2. PICK x : x = [req[r] EXCEPT !.pc = "token", !.cleared = req[r].solo]
      OBVIOUS
    <3>3. x.cleared = req[r].solo
      BY <1>0, <3>2 DEF Request
    <3> QED
      BY <2>1, <3>1, <3>2, <3>3
  <2>2. CASE Goto(r, "token") /\ UNCHANGED table
    <3>1. PICK x : x = [req[r] EXCEPT !.pc = "token"]
      OBVIOUS
    <3>2. req' = [req EXCEPT ![r] = x]
      BY <2>2, <3>1, InvSplit DEF Goto
    <3>3. x.cleared = req[r].cleared
      BY <1>0, <3>1 DEF Request
    <3> QED
      BY <2>2, <3>1, <3>2, <3>3
  <2> QED
    BY <2>1, <2>2 DEF SendClear
<1>2. /\ UNCHANGED <<account, created, owner, clock, mailed, sessions, history>> /\ table' \subseteq table
  BY <1>1 DEF SendClear
<1>3. TableInv'
  BY <1>0, <1>2 DEF clock, history, TableInv, VerifiedHasProof, RedeemedIsDead, NewestLinkWins,
     CooldownUnlessRaced, SessionsAreVerified, Tokens, Accounts
<1>4. Keeps /\ answered' = answered /\ Request' = Request
  BY <1>0, <1>2, Typed DEF clock, history, Keeps, Request, Tokens, Accounts
<1>5. /\ new \in Request /\ new.pc = "token" /\ new.uid = req[r].uid /\ new.flow = req[r].flow
      /\ new.solo = req[r].solo
  BY <1>0, <1>1 DEF Request, States
<1>6. KnowsItsAccount(new)' /\ KnowsItsToken(new)' /\ HoldsProof(new)' /\ IssuesToVerified(new)'
  BY <1>0, <1>2, <1>5 DEF RequestOK, KnowsItsAccount, KnowsItsToken, HoldsProof, IssuesToVerified, Accounts
<1>7. UndoesUnanswered(new)' /\ (Undoable(new) => Undoable(req[r]))
  BY <1>0, <1>4, <1>5 DEF RequestOK, UndoesUnanswered, Undoable
<1>8. YoungIsSeen(new)'
  BY <1>0, <1>2, <1>5 DEF RequestOK, YoungIsSeen, InSending, clock, history
<1>9. ClearedIsEmpty(new)'
  <2>1. CASE table' = {t \in table : owner[t] # req[r].uid} /\ new.cleared = req[r].solo
    BY <1>2, <1>5, <2>1 DEF ClearedIsEmpty
  <2>2. CASE ~req[r].cleared /\ new.cleared = req[r].cleared
    BY <2>2 DEF ClearedIsEmpty
  <2>3. ~req[r].cleared
    BY <1>0 DEF RequestOK, ClearedIsEmpty
  <2> QED
    BY <1>1, <2>1, <2>2, <2>3
<1>10. \A q \in Requests : Undoable(req[q]) => req[q].uid \notin answered'
  BY <1>4, InvSplit DEF RequestOK, UndoesUnanswered
<1>11. RequestOK(new)' /\ InSending(req[r])
  BY <1>0, <1>6, <1>7, <1>8, <1>9 DEF RequestOK, InSending
<1> QED
  BY <1>1, <1>3, <1>4, <1>5, <1>7, <1>10, <1>11, RequestStep

\* What appending to the list of owners changes.
LEMMA AppendLemma ==
  ASSUME owner \in Seq(Accounts), NEW u \in Accounts, owner' = Append(owner, u), created' = created,
         NEW n, n = Len(owner')
  PROVE  /\ Len(owner) \in Nat /\ n \in Nat /\ n = Len(owner) + 1 /\ owner' \in Seq(Accounts')
         /\ Tokens' = Tokens \cup {n} /\ n \notin Tokens
         /\ \A t \in Tokens : t < n /\ owner'[t] = owner[t]
         /\ owner'[n] = u
<1>1. Len(owner) \in Nat /\ n \in Nat /\ n = Len(owner) + 1 /\ owner' \in Seq(Accounts')
  BY DEF Accounts
<1>2. \A t \in 1..Len(owner) : t < n /\ owner'[t] = owner[t]
  BY <1>1
<1>3. owner'[n] = u
  BY <1>1
<1> QED
  BY <1>1, <1>2, <1>3 DEF Tokens

\* SendCreate.  The new link is the newest; if its request was alone, nobody else
\* is sending and no other link is young, and if it has also cleared the table
\* there is no other link.
LEMMA SendCreateStep ==
  ASSUME IInv, NEW r \in Requests, SendCreate(r)
  PROVE  IInv'
<1>0. TableInv /\ req \in [Requests -> Request] /\ req[r] \in Request /\ RequestOK(req[r]) /\ req[r].pc = "token"
  BY InvSplit DEF SendCreate
<1>1. PICK n : n = Len(owner')
  OBVIOUS
<1>2. PICK u : u = req[r].uid
  OBVIOUS
<1>3. /\ UNCHANGED <<account, created, clock, mailed, sessions, answered, redeemed>> /\ account.id = u
      /\ owner' = Append(owner, u) /\ table' = table \cup {n} /\ u \in Accounts
      /\ solo' = (solo \cap table) \cup (IF req[r].solo THEN {n} ELSE {})
      /\ swept' = IF req[r].cleared THEN n ELSE swept
  BY <1>0, <1>1, <1>2 DEF SendCreate, RequestOK, KnowsItsAccount
<1>4. /\ Len(owner) \in Nat /\ n = Len(owner) + 1 /\ owner' \in Seq(Accounts') /\ n \in Nat
      /\ Tokens' = Tokens \cup {n} /\ n \notin Tokens /\ Tokens \subseteq Nat /\ aged \in Nat
      /\ \A t \in Tokens : t < n /\ owner'[t] = owner[t]
      /\ owner'[n] = u
  <2>1. owner \in Seq(Accounts) /\ Tokens \subseteq Nat /\ aged \in Nat /\ created' = created
    BY <1>0, <1>3, Typed DEF TableInv
  <2>2. owner' = Append(owner, u) /\ u \in Accounts
    BY <1>3
  <2> QED
    BY <1>1, <2>1, <2>2, AppendLemma
<1>5. Accounts' = Accounts /\ table \subseteq Tokens /\ solo \subseteq Tokens /\ swept \in Tokens \cup {0}
      /\ redeemed \subseteq Tokens
  BY <1>0, <1>3 DEF Accounts, TableInv
<1>6. req[r].cleared => table = {}
  <2> SUFFICES ASSUME req[r].cleared PROVE table = {}
    OBVIOUS
  <2>1. \A t \in table : owner[t] = u /\ owner[t] # u
    BY <1>0, <1>2, <1>3 DEF TableInv, RequestOK, ClearedIsEmpty
  <2> QED
    BY <2>1
<1>7. \A t \in table : (req[r].solo \/ t \in solo) => t <= aged
  <2>1. \A t \in table : owner[t] = u /\ (req[r].solo \/ t \in solo) => t <= aged
    BY <1>0, <1>2 DEF RequestOK, YoungIsSeen, InSending
  <2> QED
    BY <1>0, <1>3, <2>1 DEF TableInv
<1>8. VerifiedHasProof' /\ RedeemedIsDead'
  BY <1>0, <1>3, <1>4, <1>5 DEF TableInv, VerifiedHasProof, RedeemedIsDead
<1>9. NewestLinkWins'
  <2> SUFFICES ASSUME swept' # 0, NEW k \in table', owner'[k] = owner'[swept'] PROVE k >= swept'
    BY DEF NewestLinkWins
  <2>1. CASE req[r].cleared
    BY <1>3, <1>4, <1>6, <2>1
  <2>2. CASE ~req[r].cleared
    <3>1. swept' = swept /\ swept \in Tokens /\ owner'[swept] = owner[swept]
      BY <1>3, <1>4, <1>5, <2>2
    <3>2. CASE k = n
      BY <1>4, <3>1, <3>2
    <3>3. CASE k \in table
      BY <1>0, <1>4, <1>5, <3>1, <3>3 DEF TableInv, NewestLinkWins
    <3> QED
      BY <1>3, <3>2, <3>3
  <2> QED
    BY <2>1, <2>2
<1>10. CooldownUnlessRaced'
  <2> SUFFICES ASSUME NEW t \in solo' \cap table', NEW k \in table', t > aged, k > aged PROVE t = k
    BY <1>3 DEF CooldownUnlessRaced, clock
  <2>0. \A i \in table : i > aged => ~(i <= aged)
    BY <1>4, <1>5
  <2>1. t = n
    BY <1>3, <1>7, <2>0
  <2>2. req[r].solo
    BY <1>3, <1>4, <1>5, <2>1
  <2> QED
    BY <1>3, <1>7, <2>0, <2>1, <2>2
<1>11. TableInv'
  <2>1. table' \subseteq Tokens' /\ \A t \in table' : owner'[t] = account'.id
    BY <1>0, <1>3, <1>4, <1>5 DEF TableInv
  <2>2. aged' \in 0..Len(owner') /\ lapsed' \in 0..aged' /\ solo' \subseteq Tokens' /\ swept' \in Tokens' \cup {0}
        /\ mailed' \subseteq Tokens'
    <3>1. aged \in 0..Len(owner) /\ lapsed \in 0..aged /\ mailed \subseteq Tokens
      BY <1>0 DEF TableInv
    <3>2. aged' = aged /\ lapsed' = lapsed /\ mailed' = mailed
      BY <1>3 DEF clock
    <3>3. aged \in 0..n
      BY <1>4, <3>1
    <3> QED
      BY <1>1, <1>3, <1>4, <1>5, <3>1, <3>2, <3>3
  <2>3. SessionsAreVerified'
    BY <1>0, <1>3 DEF TableInv, SessionsAreVerified
  <2> QED
    BY <1>0, <1>3, <1>4, <1>5, <1>8, <1>9, <1>10, <2>1, <2>2, <2>3 DEF TableInv
<1>12. PICK new : new = [req[r] EXCEPT !.pc = "mail", !.tok = n]
  OBVIOUS
<1>13. req' = [req EXCEPT ![r] = new]
  BY <1>0, <1>1, <1>12 DEF SendCreate
<1>14. \A q \in Request : q \in Request'
  BY <1>4, <1>5 DEF Request
<1>15. /\ new \in Request' /\ new.pc = "mail" /\ new.uid = u /\ new.tok = n
       /\ ~InSending(new) /\ (Undoable(new) => Undoable(req[r]))
  BY <1>0, <1>2, <1>4, <1>5, <1>12 DEF Request, States, InSending, Undoable
<1>16. RequestOK(new)'
  BY <1>0, <1>2, <1>3, <1>4, <1>5, <1>15 DEF RequestOK, KnowsItsAccount, KnowsItsToken, HoldsProof,
     IssuesToVerified, UndoesUnanswered, Undoable, ClearedIsEmpty, YoungIsSeen, InSending
<1>17. ASSUME NEW q \in Requests, q # r PROVE RequestOK(req[q])' /\ req'[q] = req[q]
  <2>0. req'[q] = req[q] /\ RequestOK(req[q]) /\ PairOK(req[r], req[q])
    BY <1>13, <1>17, InvSplit
  <2>1. InSending(req[q]) => ~req[r].solo
    BY <1>0, <2>0 DEF PairOK, InSending
  <2>2. KnowsItsAccount(req[q])' /\ KnowsItsToken(req[q])' /\ HoldsProof(req[q])'
    BY <1>3, <1>4, <1>5, <2>0 DEF RequestOK, KnowsItsAccount, KnowsItsToken, HoldsProof
  <2>3. IssuesToVerified(req[q])' /\ UndoesUnanswered(req[q])'
    BY <1>3, <2>0 DEF RequestOK, IssuesToVerified, UndoesUnanswered, Undoable
  <2>4. YoungIsSeen(req[q])'
    <3>1. InSending(req[q]) => solo' = solo \cap table
      BY <1>3, <2>1
    <3>2. InSending(req[q]) => ~req[q].solo
      <4>1. PairOK(req[q], req[r])
        BY <1>17, InvSplit
      <4> QED
        BY <1>0, <4>1 DEF PairOK, InSending
    <3>3. InSending(req[q]) => \A t \in solo' \cap table' : t \in solo \cap table /\ owner'[t] = owner[t]
      BY <1>3, <1>4, <1>5, <3>1
    <3> QED
      BY <1>3, <2>0, <3>2, <3>3 DEF RequestOK, YoungIsSeen, InSending, clock
  <2>5. ClearedIsEmpty(req[q])'
    <3>0. req'[q].pc = "clear" => ~req'[q].cleared
      BY <2>0 DEF RequestOK, ClearedIsEmpty
    <3> SUFFICES ASSUME req[q].pc = "token", req[q].cleared PROVE FALSE
      BY <2>0, <3>0 DEF ClearedIsEmpty
    <3>1. PairOK(req[q], req[r]) /\ req[q].solo
      BY <1>17, <2>0, InvSplit DEF RequestOK, ClearedIsEmpty
    <3> QED
      BY <1>0, <3>1 DEF PairOK, InSending
  <2> QED
    BY <2>0, <2>2, <2>3, <2>4, <2>5 DEF RequestOK
<1>18. req'[r] = new
  BY <1>0, <1>13
<1>19. RequestOK(req[r])'
  BY <1>16, <1>18 DEF RequestOK, KnowsItsAccount, KnowsItsToken, HoldsProof, IssuesToVerified,
     Undoable, UndoesUnanswered, InSending, ClearedIsEmpty, YoungIsSeen
<1>20. req' \in [Requests -> Request']
  BY <1>0, <1>13, <1>14, <1>15
<1>21. ASSUME NEW p \in Requests, NEW q \in Requests, p # q PROVE PairOK(req'[p], req'[q])
  <2>0. PairOK(req[p], req[q])
    BY <1>21, InvSplit
  <2>1. CASE p = r
    BY <1>2, <1>15, <1>17, <1>18, <1>21, <2>0, <2>1 DEF PairOK
  <2>2. CASE q = r
    BY <1>2, <1>15, <1>17, <1>18, <1>21, <2>0, <2>2 DEF PairOK
  <2>3. CASE p # r /\ q # r
    BY <1>17, <2>0, <2>3
  <2> QED
    BY <2>1, <2>2, <2>3
<1> QED
  BY <1>11, <1>17, <1>19, <1>20, <1>21, InvSplitNext

\* The mail.  Register is answered for an account that it alone could undo.
LEMMA MailSteps ==
  ASSUME IInv, NEW r \in Requests, SendMail(r) \/ SendMailFails(r)
  PROVE  IInv'
<1>0. TableInv /\ req[r] \in Request /\ RequestOK(req[r]) /\ req[r].pc = "mail"
  BY InvSplit DEF SendMail, SendMailFails
<1>1. /\ req[r].tok \in Tokens /\ req[r].uid \in Accounts
      /\ UNCHANGED <<account, created, owner, table, clock, sessions, redeemed, solo, swept>>
      /\ mailed \subseteq mailed' /\ mailed' \subseteq mailed \cup {req[r].tok}
      /\ answered' \subseteq answered \cup {req[r].uid}
      /\ answered' # answered => req[r].flow = "register"
  BY <1>0 DEF SendMail, SendMailFails, RequestOK, KnowsItsAccount, KnowsItsToken, history
<1>2. TableInv'
  BY <1>0, <1>1 DEF clock, TableInv, VerifiedHasProof, RedeemedIsDead, NewestLinkWins,
     CooldownUnlessRaced, SessionsAreVerified, Tokens, Accounts
<1>3. Keeps /\ Request' = Request
  BY <1>0, <1>1, Typed DEF clock, Keeps, Request, Tokens, Accounts
<1>4. ASSUME NEW q \in Requests \ {r}, Undoable(req[q]) PROVE req[q].uid \notin answered'
  <2>1. PairOK(req[r], req[q]) /\ req[q].uid \notin answered
    BY <1>4, InvSplit DEF RequestOK, UndoesUnanswered
  <2> QED
    BY <1>0, <1>1, <1>4, <2>1 DEF PairOK, Undoable
<1>5. CASE Ends(r)
  BY <1>2, <1>3, <1>4, <1>5, IdleOK, RequestStep DEF Ends
<1>6. CASE SendMailFails(r) /\ req[r].flow = "register"
  <2>1. PICK new : new = [Idle EXCEPT !.pc = "rollback", !.flow = req[r].flow, !.uid = req[r].uid]
    OBVIOUS
  <2>2. req' = [req EXCEPT ![r] = new] /\ answered' = answered
    BY <1>6, <2>1 DEF SendMailFails, GivesUp, history
  <2>3. new \in Request /\ ~InSending(new) /\ Undoable(req[r]) /\ new.uid = req[r].uid
        /\ new.pc = "rollback" /\ new.flow = "register"
    BY <1>0, <1>1, <1>6, <2>1 DEF Idle, Request, Undoable, InSending, States, Flows
  <2>4. RequestOK(new)'
    BY <1>0, <1>1, <2>2, <2>3 DEF RequestOK, KnowsItsAccount, KnowsItsToken, HoldsProof,
       IssuesToVerified, Undoable, UndoesUnanswered, InSending, ClearedIsEmpty, YoungIsSeen, Accounts
  <2> QED
    BY <1>2, <1>3, <1>4, <2>2, <2>3, <2>4, RequestStep
<1> QED
  BY <1>5, <1>6 DEF SendMail, SendMailFails

\* Register takes its account back, with the links and sessions of it.
LEMMA RollbackStep ==
  ASSUME IInv, NEW r \in Requests, Rollback(r)
  PROVE  IInv'
<1>0. TableInv
  BY InvSplit
<1>1. CASE UNCHANGED <<account, table, sessions>>
  BY <1>1, EndsStep DEF Rollback, Still
<1>2. CASE account.id = req[r].uid
  <2>1. account' = NoUser /\ UNCHANGED <<created, owner, clock, mailed, history>>
    BY <1>2 DEF Rollback
  <2>2. table' = {}
    BY <1>0, <1>2 DEF Rollback, TableInv
  <2>3. sessions' = {}
    BY <1>0, <1>2 DEF Rollback, TableInv, SessionsAreVerified
  <2>4. TableInv'
    BY <1>0, <2>1, <2>2, <2>3 DEF clock, history, TableInv, VerifiedHasProof, RedeemedIsDead, NewestLinkWins,
       CooldownUnlessRaced, SessionsAreVerified, Tokens, Accounts, NoUser
  <2>5. Keeps /\ answered' = answered /\ Request' = Request
    BY <1>0, <2>1, <2>2, Typed DEF clock, history, Keeps, Request, Tokens, Accounts, NoUser
  <2>6. \A q \in Requests : Undoable(req[q]) => req[q].uid \notin answered'
    BY <2>5, InvSplit DEF RequestOK, UndoesUnanswered
  <2> QED
    BY <2>4, <2>5, <2>6, IdleOK, RequestStep DEF Rollback, Ends
<1> QED
  BY <1>1, <1>2 DEF Rollback

-----------------------------------------------------------------------------
\* VerifyEmail: the link is redeemed, once ...
LEMMA ConsumeStep ==
  ASSUME IInv, NEW r \in Requests, NEW t \in mailed, VerifyConsume(r, t)
  PROVE  IInv'
<1>0. TableInv
  BY InvSplit
<1>1. CASE UNCHANGED <<table, redeemed, req>>
  BY <1>1, SkipStep DEF VerifyConsume, Still, history
<1>2. CASE t \in table /\ t > lapsed
  <2>1. PICK new : new = [Idle EXCEPT !.pc = "find", !.uid = owner[t]]
    OBVIOUS
  <2>2. /\ table' = table \ {t} /\ redeemed' = redeemed \cup {t} /\ req' = [req EXCEPT ![r] = new]
        /\ UNCHANGED <<account, created, owner, clock, mailed, sessions, answered, solo, swept>>
    BY <1>2, <2>1 DEF VerifyConsume
  <2>3. TableInv'
    BY <1>0, <2>2 DEF clock, TableInv, VerifiedHasProof, RedeemedIsDead, NewestLinkWins,
       CooldownUnlessRaced, SessionsAreVerified, Tokens, Accounts
  <2>4. Keeps /\ Request' = Request
    BY <1>0, <2>2, Typed DEF clock, Keeps, Request, Tokens, Accounts
  <2>5. owner[t] \in Accounts
    BY <1>0, <1>2, Typed DEF TableInv
  <2>6. new \in Request /\ ~InSending(new) /\ ~Undoable(new) /\ new.pc = "find" /\ new.uid = owner[t]
    BY <2>1, <2>5 DEF Idle, Request, States, Flows, InSending, Undoable
  <2>7. RequestOK(new)'
    BY <2>2, <2>5, <2>6 DEF RequestOK, KnowsItsAccount, KnowsItsToken, HoldsProof, IssuesToVerified,
       Undoable, UndoesUnanswered, InSending, ClearedIsEmpty, YoungIsSeen, Accounts
  <2>8. \A q \in Requests : Undoable(req[q]) => req[q].uid \notin answered'
    BY <2>2, InvSplit DEF RequestOK, UndoesUnanswered
  <2> QED
    BY <2>2, <2>3, <2>4, <2>6, <2>7, <2>8, RequestStep
<1> QED
  BY <1>1, <1>2 DEF VerifyConsume

\* ... and the account it was made for is written, also if it was gone.
LEMMA UpdateStep ==
  ASSUME IInv, NEW r \in Requests, VerifyUpdate(r)
  PROVE  IInv'
<1>0. TableInv /\ req[r] \in Request /\ RequestOK(req[r]) /\ req[r].pc = "update"
  BY InvSplit DEF VerifyUpdate
<1>1. CASE Ends(r) /\ UNCHANGED account
  BY <1>1, EndsStep DEF VerifyUpdate, Still
<1>2. CASE /\ account \in {NoUser, [id |-> req[r].uid, verified |-> account.verified]}
           /\ account' = [id |-> req[r].uid, verified |-> TRUE] /\ Goto(r, "issue")
  <2>1. PICK u : u = req[r].uid
    OBVIOUS
  <2>2. /\ u \in Accounts /\ \E t \in redeemed : owner[t] = u
        /\ account' = [id |-> u, verified |-> TRUE]
        /\ UNCHANGED <<created, owner, table, clock, mailed, sessions, history>>
    BY <1>0, <1>2, <2>1 DEF RequestOK, KnowsItsAccount, HoldsProof, VerifyUpdate
  <2>3. account = NoUser \/ account.id = u
    BY <1>2, <2>1
  <2>4. \A t \in table : owner[t] = u
    BY <1>0, <2>3, Typed DEF TableInv
  <2>5. \A v \in sessions : v = u
    BY <1>0, <2>3, Typed DEF TableInv, SessionsAreVerified
  <2>6. TableInv'
    BY <1>0, <2>2, <2>4, <2>5 DEF clock, history, TableInv, VerifiedHasProof, RedeemedIsDead, NewestLinkWins,
       CooldownUnlessRaced, SessionsAreVerified, Tokens, Accounts
  <2>7. Keeps /\ answered' = answered /\ Request' = Request
    BY <1>0, <2>2, Typed DEF clock, history, Keeps, Request, Tokens, Accounts
  <2>8. PICK new : new = [req[r] EXCEPT !.pc = "issue"]
    OBVIOUS
  <2>9. req' = [req EXCEPT ![r] = new]
    BY <1>2, <2>8, InvSplit DEF Goto
  <2>10. new \in Request /\ ~InSending(new) /\ ~Undoable(new) /\ new.pc = "issue" /\ new.uid = u
    BY <1>0, <2>1, <2>8 DEF Request, States, InSending, Undoable
  <2>11. RequestOK(new)'
    BY <2>2, <2>10 DEF RequestOK, KnowsItsAccount, KnowsItsToken, HoldsProof, IssuesToVerified,
       Undoable, UndoesUnanswered, InSending, ClearedIsEmpty, YoungIsSeen, Accounts
  <2>12. \A q \in Requests : Undoable(req[q]) => req[q].uid \notin answered'
    BY <2>7, InvSplit DEF RequestOK, UndoesUnanswered
  <2> QED
    BY <2>6, <2>7, <2>9, <2>10, <2>11, <2>12, RequestStep
<1> QED
  BY <1>1, <1>2 DEF VerifyUpdate

\* A session is issued, for an account that exists and then is verified.
LEMMA IssueStep ==
  ASSUME IInv, NEW r \in Requests, Issue(r)
  PROVE  IInv'
<1>0. TableInv /\ req[r] \in Request /\ RequestOK(req[r]) /\ req[r].pc = "issue"
  BY InvSplit DEF Issue
<1>1. UNCHANGED <<account, created, owner, table, clock, mailed, history>>
  BY DEF Issue
<1>2. SessionsAreVerified' /\ sessions' \subseteq Accounts
  <2>1. CASE account.id # req[r].uid
    BY <1>0, <1>1, <2>1 DEF Issue, TableInv, SessionsAreVerified
  <2>2. CASE account.id = req[r].uid
    <3>1. account.id \in Accounts /\ account.verified
      BY <1>0, <2>2 DEF RequestOK, KnowsItsAccount, IssuesToVerified
    <3>2. account = [id |-> req[r].uid, verified |-> TRUE]
      BY <1>0, <2>2, <3>1, Typed
    <3> QED
      BY <1>0, <1>1, <2>2, <3>1, <3>2 DEF Issue, TableInv, SessionsAreVerified
  <2> QED
    BY <2>1, <2>2
<1>3. TableInv'
  BY <1>0, <1>1, <1>2 DEF clock, history, TableInv, VerifiedHasProof, RedeemedIsDead, NewestLinkWins,
     CooldownUnlessRaced, Tokens, Accounts
<1>4. Keeps /\ answered' = answered
  BY <1>0, <1>1, Typed DEF clock, history, Keeps
<1>5. \A q \in Requests : Undoable(req[q]) => req[q].uid \notin answered'
  BY <1>4, InvSplit DEF RequestOK, UndoesUnanswered
<1> QED
  BY <1>3, <1>4, <1>5, IdleOK, RequestStep DEF Issue, Ends

\* Time passes.
LEMMA ClockSteps ==
  ASSUME IInv, Age \/ Lapse
  PROVE  IInv'
<1>0. /\ TableInv /\ aged \in Nat /\ lapsed \in Nat /\ Len(owner) \in Nat
      /\ table \subseteq Nat /\ req \in [Requests -> Request]
  BY InvSplit, Typed DEF TableInv
<1>1. /\ UNCHANGED <<account, created, owner, table, mailed, sessions, req, history>>
      /\ aged' \in 0..Len(owner) /\ lapsed' \in 0..aged' /\ aged <= aged'
  BY <1>0 DEF Age, Lapse, TableInv
<1>2. CooldownUnlessRaced'
  <2>1. \A t \in table : t > aged' => t > aged
    BY <1>0, <1>1
  <2> QED
    BY <1>0, <1>1, <2>1 DEF TableInv, CooldownUnlessRaced, history
<1>3. TableInv'
  BY <1>0, <1>1, <1>2 DEF history, TableInv, VerifiedHasProof, RedeemedIsDead, NewestLinkWins,
     SessionsAreVerified, Tokens, Accounts
<1>4. Keeps /\ Request' = Request /\ req' = req
  <2>1. Request' = Request /\ req' = req
    BY <1>1 DEF Request, Tokens, Accounts
  <2> QED
    BY <1>0, <1>1, <2>1, Typed DEF history, Keeps
<1>5. ASSUME NEW q \in Requests PROVE RequestOK(req[q])'
  <2>1. PICK old : old = req[q]
    OBVIOUS
  <2>2. old \in Request /\ RequestOK(old) /\ (Undoable(old) => old.uid \notin answered')
    BY <1>1, <2>1, InvSplit DEF history, RequestOK, UndoesUnanswered
  <2>3. RequestOK(old)'
    BY <1>0, <1>3, <1>4, <2>2, StaysOK
  <2> QED
    BY <1>4, <2>1, <2>3 DEF RequestOK, KnowsItsAccount, KnowsItsToken, HoldsProof, IssuesToVerified,
       Undoable, UndoesUnanswered, InSending, ClearedIsEmpty, YoungIsSeen
<1> QED
  BY <1>0, <1>3, <1>4, <1>5, InvSplit, InvSplitNext

-----------------------------------------------------------------------------
\* sendVerificationEmail begins: for a new account of Register, or for one
\* whose links ResendLatest has seen to be old.
LEMMA StartsSendingStep ==
  ASSUME IInv, NEW r \in Requests, NEW u \in Accounts', NEW flow \in {"register", "resend"},
         StartsSending(r, flow, u), TableInv', Keeps, answered' = answered,
         \A t \in table : owner[t] = u => t <= aged,
         flow = "register" => u \notin Accounts
  PROVE  IInv'
<1> DEFINE others == {q \in Requests \ {r} : Sending(q)}
<1>0. TableInv /\ req \in [Requests -> Request]
  BY InvSplit
<1>1. PICK new : new = [Idle EXCEPT !.pc = "clear", !.flow = flow, !.uid = u, !.solo = (others = {})]
  OBVIOUS
<1>2. req'[r] = new
  BY <1>1 DEF StartsSending
<1>3. /\ new.pc = "clear" /\ new.flow = flow /\ new.uid = u /\ ~new.cleared /\ new.tok = 0
      /\ new.solo \in BOOLEAN /\ (new.solo => others = {})
  BY <1>1 DEF Idle
<1>4. new \in Request'
  BY <1>1 DEF Idle, Request, States, Flows
<1>5. u \notin answered' \/ flow = "resend"
  BY <1>0 DEF TableInv
<1>6. RequestOK(req[r])'
  <2>1. \A t \in table' : owner'[t] = u => t <= aged'
    <3>1. table \subseteq Nat /\ aged \in Nat /\ aged' \in Nat
      BY <1>0, Typed DEF TableInv, Tokens
    <3>2. aged <= aged' /\ owner' = owner /\ table' \subseteq table
      BY DEF Keeps
    <3>3. \A t \in table' : owner'[t] = u => t \in Nat /\ t <= aged
      BY <3>1, <3>2
    <3> QED
      BY <3>1, <3>2, <3>3
  <2>2. YoungIsSeen(req[r])'
    BY <1>2, <1>3, <2>1 DEF YoungIsSeen
  <2> QED
    BY <1>2, <1>3, <1>5, <2>2 DEF RequestOK, KnowsItsAccount, KnowsItsToken, HoldsProof, IssuesToVerified,
       Undoable, UndoesUnanswered, ClearedIsEmpty
<1>7. ASSUME NEW q \in Requests, q # r
      PROVE  /\ req'[q] \in Request' /\ RequestOK(req[q])'
             /\ InSending(req'[q]) <=> InSending(req[q])
             /\ Undoable(req'[q]) <=> Undoable(req[q])
             /\ req'[q].uid = req[q].uid /\ ~(InSending(req'[q]) /\ req'[q].solo)
  <2>0. req[q] \in Request /\ RequestOK(req[q])
    BY InvSplit
  <2>1. PICK old : old = req'[q]
    OBVIOUS
  <2>2. /\ old.pc = req[q].pc /\ old.uid = req[q].uid /\ old.flow = req[q].flow /\ old.tok = req[q].tok
        /\ (InSending(old) => ~old.cleared) /\ old \in Request
        /\ ~(InSending(old) /\ old.solo)
        /\ old.solo => req[q].solo
    <3>1. CASE q \in others
      <4>1. old = [req[q] EXCEPT !.solo = FALSE, !.cleared = FALSE]
        BY <1>7, <2>1, <3>1 DEF StartsSending
      <4> QED
        BY <2>0, <4>1 DEF Request
    <3>2. CASE q \notin others
      <4>1. old = req[q]
        BY <1>7, <2>1, <3>2 DEF StartsSending
      <4>2. ~InSending(old)
        BY <1>7, <3>2, <4>1 DEF InSending, Sending
      <4> QED
        BY <2>0, <4>1, <4>2
    <3> QED
      BY <3>1, <3>2
  <2>3. RequestOK(old)
    BY <2>0, <2>2 DEF RequestOK, KnowsItsAccount, KnowsItsToken, HoldsProof, IssuesToVerified,
       Undoable, UndoesUnanswered, InSending, ClearedIsEmpty, YoungIsSeen
  <2>4. Undoable(old) => old.uid \notin answered'
    BY <2>3 DEF RequestOK, UndoesUnanswered
  <2>5. old \in Request' /\ RequestOK(old)'
    BY <1>0, <2>2, <2>3, <2>4, StaysOK
  <2>6. RequestOK(req[q])'
    BY <2>1, <2>5 DEF RequestOK, KnowsItsAccount, KnowsItsToken, HoldsProof, IssuesToVerified,
       Undoable, UndoesUnanswered, InSending, ClearedIsEmpty, YoungIsSeen
  <2> QED
    BY <2>1, <2>2, <2>5, <2>6 DEF InSending, Undoable
<1>8. req' \in [Requests -> Request']
  BY <1>2, <1>4, <1>7 DEF StartsSending
<1>9. ASSUME NEW p \in Requests, NEW q \in Requests, p # q PROVE PairOK(req'[p], req'[q])
  <2>1. PairOK(req[p], req[q]) /\ RequestOK(req[p]) /\ RequestOK(req[q])
    BY <1>9, InvSplit
  <2>2. CASE p # r
    <3>1. CASE q # r
      BY <1>7, <2>1, <2>2, <3>1 DEF PairOK
    <3>2. CASE q = r
      <4>1. Undoable(req[p]) => req[p].uid \in Accounts
        BY <2>1 DEF RequestOK, KnowsItsAccount, Undoable
      <4> QED
        BY <1>2, <1>3, <1>7, <2>2, <3>2, <4>1 DEF PairOK, Undoable
    <3> QED
      BY <3>1, <3>2
  <2>3. CASE p = r
    <3>1. Undoable(req[q]) => req[q].uid \in Accounts
      BY <2>1 DEF RequestOK, KnowsItsAccount, Undoable
    <3>2. new.solo => ~InSending(req[q])
      BY <1>3, <1>9, <2>3 DEF Sending, InSending
    <3> QED
      BY <1>2, <1>3, <1>7, <1>9, <2>3, <3>1, <3>2 DEF PairOK, Undoable
  <2> QED
    BY <2>2, <2>3
<1> QED
  BY <1>6, <1>7, <1>8, <1>9, InvSplitNext

LEMMA SeqGrows == ASSUME NEW S, NEW T, S \subseteq T, NEW s \in Seq(S) PROVE s \in Seq(T)
  OBVIOUS

LEMMA BeginSteps ==
  ASSUME IInv, NEW r \in Requests, RegisterCreate(r) \/ ResendLatest(r)
  PROVE  IInv'
<1>0. TableInv /\ req[r] \in Request /\ RequestOK(req[r])
  BY InvSplit
<1>1. CASE Ends(r) /\ UNCHANGED <<account, created>>
  BY <1>1, EndsStep DEF RegisterCreate, ResendLatest, Still
<1>2. CASE /\ account = NoUser /\ created' = created + 1
           /\ account' = [id |-> created', verified |-> FALSE]
           /\ StartsSending(r, "register", created')
           /\ UNCHANGED <<owner, table, clock, mailed, sessions, history>>
  <2>1. /\ table = {} /\ sessions = {} /\ created \in Nat /\ created' \in Accounts'
        /\ created' \notin Accounts /\ Accounts \subseteq Accounts'
    BY <1>0, <1>2, Typed DEF Accounts
  <2>2. owner' \in Seq(Accounts')
    <3>1. owner \in Seq(Accounts) /\ owner' = owner
      BY <1>0, <1>2 DEF TableInv
    <3> QED
      BY <2>1, <3>1, SeqGrows
  <2>3. TableInv'
    BY <1>0, <1>2, <2>1, <2>2 DEF clock, history, TableInv, VerifiedHasProof, RedeemedIsDead, NewestLinkWins,
       CooldownUnlessRaced, SessionsAreVerified, Tokens
  <2>4. Keeps /\ answered' = answered
    BY <1>0, <1>2, <2>1, Typed DEF clock, history, Keeps
  <2> QED
    BY <1>2, <2>1, <2>3, <2>4, StartsSendingStep
<1>3. CASE ResendLatest(r) /\ ~ \E t \in table : owner[t] = req[r].uid /\ t > aged
  <2>1. Still /\ req[r].pc = "latest" /\ StartsSending(r, "resend", req[r].uid)
    BY <1>3 DEF ResendLatest, Still
  <2>2. TableInv' /\ Keeps /\ answered' = answered
    BY <1>0, <2>1, StillTables
  <2>3. req[r].uid \in Accounts'
    BY <1>0, <2>1 DEF RequestOK, KnowsItsAccount, Still, Accounts
  <2>4. \A t \in table : owner[t] = req[r].uid => t <= aged
    <3>1. table \subseteq Nat /\ aged \in Nat
      BY <1>0, Typed DEF TableInv
    <3> SUFFICES ASSUME NEW t \in table, owner[t] = req[r].uid PROVE t <= aged
      OBVIOUS
    <3>2. ~(t > aged)
      BY <1>3
    <3>3. t \in Nat /\ aged \in Nat
      BY <3>1
    <3> QED
      BY <3>2, <3>3
  <2>5. PICK u : u = req[r].uid
    OBVIOUS
  <2> QED
    BY <2>1, <2>2, <2>3, <2>4, <2>5, StartsSendingStep
<1> QED
  BY <1>1, <1>2, <1>3 DEF RegisterCreate, ResendLatest

LEMMA InvNext == IInv /\ [Next]_vars => IInv'
<1> SUFFICES ASSUME IInv, [Next]_vars PROVE IInv'
  OBVIOUS
<1>1. CASE UNCHANGED vars
  BY <1>1, SkipStep DEF vars, Still, clock, history
<1>2. CASE Age \/ Lapse
  BY <1>2, ClockSteps
<1>3. ASSUME NEW r \in Requests,
             \/ Dies(r) \/ RegisterFind(r) \/ RegisterCreate(r) \/ Rollback(r)
             \/ ResendFind(r) \/ ResendLatest(r) \/ SendClear(r) \/ SendCreate(r) \/ SendCreateFails(r)
             \/ SendMail(r) \/ SendMailFails(r) \/ VerifyFind(r) \/ VerifyUpdate(r)
             \/ LoginFind(r) \/ Issue(r)
      PROVE  IInv'
  BY <1>3, ReadSteps, BeginSteps, RollbackStep, SendClearStep, SendCreateStep, MailSteps, UpdateStep, IssueStep
<1>4. ASSUME NEW r \in Requests, NEW t \in mailed, VerifyConsume(r, t) PROVE IInv'
  BY <1>4, ConsumeStep
<1>5. CASE Next
  BY <1>2, <1>3, <1>4, <1>5 DEF Next
<1> QED
  BY <1>1, <1>5

LEMMA Invariant == Spec => []IInv
  BY InvInit, InvNext, PTL DEF Spec

\* Type correctness: every variable keeps its type; in particular every valid
\* link belongs to the account that has the address now.
THEOREM VerificationTyped == Spec => []TypeOK
<1>1. IInv => TypeOK
  BY DEF IInv
<1> QED
  BY <1>1, Invariant, PTL

\* An account is verified only by a link that was mailed for it, also when the
\* Save of VerifyEmail puts a row back that Register had taken back.
THEOREM VerifiedByMailbox == Spec => []VerifiedHasProof
<1>1. IInv => VerifiedHasProof
  BY DEF IInv
<1> QED
  BY <1>1, Invariant, PTL

\* A link that ConsumeValidByHash has accepted is never valid again.
THEOREM LinksWorkOnce == Spec => []RedeemedIsDead
<1>1. IInv => RedeemedIsDead
  BY DEF IInv
<1> QED
  BY <1>1, Invariant, PTL

\* A link whose sending overlapped no other one and whose DeleteByUserID
\* succeeded leaves no older link of its account valid.
THEOREM LastLinkWorks == Spec => []NewestLinkWins
<1>1. IInv => NewestLinkWins
  BY DEF IInv
<1> QED
  BY <1>1, Invariant, PTL

\* The resend cooldown: two links younger than it are valid together only if the
\* sendings of both overlapped others, also when a DeleteByUserID fails.  (A link
\* older than the cooldown may be valid beside a young one after such a failure;
\* LastLinkWorks says when it is not.)
THEOREM CooldownHolds == Spec => []CooldownUnlessRaced
<1>1. IInv => CooldownUnlessRaced
  BY DEF IInv
<1> QED
  BY <1>1, Invariant, PTL

\* Whoever has a session has the account of the address now, verified.
THEOREM SessionsBelong == Spec => []SessionsAreVerified
<1>1. IInv => SessionsAreVerified
  BY DEF IInv
<1> QED
  BY <1>1, Invariant, PTL

\* A registration that was answered with success stays: an account is removed
\* by the rollback of its own Register only, which then gives no such answer.
THEOREM AnsweredStays == Spec => AnsweredAccountStays
<1> DEFINE Step == account.id \in answered => account'.id = account.id
<1>1. IInv /\ Next => Step \/ UNCHANGED account
  <2> SUFFICES ASSUME IInv, Next, account' # account, account.id \in answered PROVE account'.id = account.id
    OBVIOUS
  <2>0. TableInv /\ account # NoUser
    BY InvSplit, Typed DEF TableInv
  <2>1. PICK r \in Requests : RegisterCreate(r) \/ Rollback(r) \/ VerifyUpdate(r)
    BY DEF Next, Age, Lapse, Dies, RegisterFind, ResendFind, ResendLatest, SendClear, SendCreate, SendCreateFails,
       SendMail, SendMailFails, VerifyConsume, VerifyFind, LoginFind, Issue
  <2>2. ~RegisterCreate(r)
    BY <2>0 DEF RegisterCreate
  <2>3. ~Rollback(r)
    <3> SUFFICES ASSUME Rollback(r) PROVE FALSE
      OBVIOUS
    <3>1. req[r].pc = "rollback" /\ account.id = req[r].uid
      BY DEF Rollback
    <3> QED
      BY <3>1, InvSplit DEF RequestOK, UndoesUnanswered, Undoable
  <2> QED
    BY <2>0, <2>1, <2>2, <2>3 DEF VerifyUpdate
<1>2. IInv /\ [Next]_vars => [Step]_account
  BY <1>1 DEF vars
<1> QED
  BY <1>2, Invariant, PTL DEF Spec, AnsweredAccountStays
=============================================================================
