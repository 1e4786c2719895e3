------------------------ MODULE AccountLinkingProofs ------------------------
(***************************************************************************)
(* The safety of AccountLinking for any number of requests, accounts and   *)
(* subjects, any claims Auth0 vouches for and any registrations.           *)
(***************************************************************************)
EXTENDS AccountLinking, FiniteSetTheorems, TLAPS

USE LinkingAssumption

Request == [pc : States, flow : Flows, sub : Subjects \cup {Nobody}, email : Emails \cup {Nobody},
            uid : Accounts \cup {0}, row : Row \cup {NoRow}, stale : BOOLEAN]

\* Why the invariants below are inductive.  A sign-in with Auth0 carries the
\* subject and the address of its claims, and from the point on where it goes
\* for an account, that account; one that is past its link is linked.
SignIn(q) == q.flow \in {"created", "fallback", "consent"}
Sync(q) == q.flow \in {"created", "fallback"}
CarriesClaims(q) ==
  /\ SignIn(q) => q.sub \in Subjects /\ q.email \in Emails
  /\ q.pc \in {"profile", "byEmail", "create", "fallback"} => Sync(q)
  /\ q.pc \in {"identity", "existing", "verify"} => SignIn(q)
KnowsAccount(q) == q.pc \in {"profile", "identity", "existing", "verify", "save", "answer"} => q.uid \in Accounts
PastItsLink(q) == q.pc \in {"profile", "verify", "answer"} \/ (q.pc = "save" /\ SignIn(q))
IsLinked(q) == PastItsLink(q) => \E i \in identities : i.sub = q.sub /\ i.uid = q.uid

\* An account that a first login has created is not one that Register made,
\* and one that it found instead is linked as such.
LinksOwnAccount(q) == /\ q.pc = "identity" /\ q.flow = "created" => q.uid \notin local
                      /\ q.pc = "fallback" => q.flow = "fallback"
LinksAreOfAccounts == \A i \in identities : i.uid \in Accounts

\* A copy of a row that no Save has overtaken has the credentials of the row.
HasCopy(q) == q.row # NoRow
CopiesInTime(q) ==
  /\ q.pc \in {"verify", "save"} => HasCopy(q)
  /\ q.pc \in {"identity", "existing"} /\ q.flow = "consent" => HasCopy(q)
  /\ q.pc \in {"profile", "byEmail", "create", "fallback"} => ~HasCopy(q)
  /\ HasCopy(q) => q.uid \in Accounts
Preserves(old, new) == /\ old.hash # NoPassword => new.hash = old.hash
                       /\ old.verified => new.verified
CopyIsFresh(q) == HasCopy(q) /\ ~q.stale => Preserves(users[q.uid], q.row)

\* A row without a password, in the table or in a copy, is of an account that
\* is verified and linked, or is being linked, or was abandoned.
Linking(q) == Sync(q) /\ q.pc \in {"identity", "existing"}
Linkable(u) == \/ \E i \in identities : i.uid = u
               \/ \E r \in Requests : Linking(req[r]) /\ req[r].uid = u
               \/ u \in abandoned
Passwordless(row, u) == row.hash = NoPassword => row.verified /\ Linkable(u)
CopiesCanSignIn == \A r \in Requests : HasCopy(req[r]) => Passwordless(req[r].row, req[r].uid)

\* The accounts are numbered in the order of their making, and a subject is
\* linked once.
Numbered == \E n \in 0..MaxUsers : Accounts = 1..n
LinkedOnce == \A i, j \in identities : i.sub = j.sub => i = j

RequestOK(q) == /\ CarriesClaims(q) /\ KnowsAccount(q) /\ IsLinked(q) /\ LinksOwnAccount(q)
                /\ CopiesInTime(q) /\ CopyIsFresh(q)

IInv == /\ TypeOK /\ AnswerIsLinked /\ AutoLinkedOnlyIfRaced /\ PasswordlessCanSignIn
        /\ Numbered /\ LinksAreOfAccounts /\ LinkedOnce /\ CopiesCanSignIn
        /\ \A r \in Requests : RequestOK(req[r])

\* IInv, the requests apart.
RowsCanSignIn == \A u \in Accounts : Passwordless(users[u], u)
TableInv ==
  /\ Numbered /\ users \in [Accounts -> Row] /\ identities \subseteq Identity
  /\ pending \subseteq [sub : Subjects, email : Emails]
  /\ local \subseteq Accounts /\ abandoned \subseteq Accounts
  /\ AutoLinkedOnlyIfRaced /\ LinksAreOfAccounts /\ LinkedOnce

-----------------------------------------------------------------------------
\* Lemmas about the tables and the requests.
LEMMA Counted ==
  ASSUME NEW S, NEW n \in 0..MaxUsers, S = 1..n
  PROVE  Cardinality(S) = n /\ S = 1..Cardinality(S) /\ Cardinality(S) \in Nat /\ Cardinality(S) <= MaxUsers
<1>1. Cardinality(1..n) = n
  BY FS_Interval
<1> QED
  BY <1>1

LEMMA CountedAccounts ==
  ASSUME Numbered
  PROVE  /\ Accounts = 1..Cardinality(Accounts) /\ Cardinality(Accounts) \in Nat
         /\ Cardinality(Accounts) <= MaxUsers
  BY Counted DEF Numbered

LEMMA SameWords ==
  /\ PasswordlessCanSignIn <=> RowsCanSignIn
  /\ (\A r \in Requests : RequestOK(req[r])) => AnswerIsLinked
<1>1. PasswordlessCanSignIn <=> RowsCanSignIn
  BY DEF PasswordlessCanSignIn, RowsCanSignIn, Passwordless, Linkable, Linking, Sync, InSync
<1>2. (\A r \in Requests : RequestOK(req[r])) => AnswerIsLinked
  BY DEF AnswerIsLinked, LinkOf, RequestOK, IsLinked, PastItsLink
<1> QED
  BY <1>1, <1>2

LEMMA InvSplit ==
  IInv <=> /\ TableInv /\ req \in [Requests -> Request] /\ RowsCanSignIn /\ CopiesCanSignIn
           /\ \A r \in Requests : RequestOK(req[r])
<1>1. TableInv => /\ Accounts = 1..Cardinality(Accounts) /\ Cardinality(Accounts) <= MaxUsers
  BY CountedAccounts DEF TableInv
<1> QED
  BY <1>1, SameWords DEF IInv, TableInv, TypeOK, Request

LEMMA InvSplitNext ==
  IInv' <=> /\ TableInv' /\ req' \in [Requests -> Request'] /\ RowsCanSignIn' /\ CopiesCanSignIn'
            /\ \A r \in Requests : RequestOK(req[r])'
<1>1. TableInv' => /\ Accounts' = 1..Cardinality(Accounts') /\ Cardinality(Accounts') <= MaxUsers
  BY Counted DEF TableInv, Numbered
<1>2. PasswordlessCanSignIn' <=> RowsCanSignIn'
  BY DEF PasswordlessCanSignIn, RowsCanSignIn, Passwordless, Linkable, Linking, Sync, InSync
<1>3. (\A r \in Requests : RequestOK(req[r])') => AnswerIsLinked'
  BY DEF AnswerIsLinked, LinkOf, RequestOK, IsLinked, PastItsLink
<1> QED
  BY <1>1, <1>2, <1>3 DEF IInv, TableInv, TypeOK, Request

LEMMA IdleOK ==
  /\ Idle \in Request /\ Idle \in Request' /\ RequestOK(Idle) /\ RequestOK(Idle)'
  /\ ~HasCopy(Idle) /\ ~Linking(Idle)
  BY DEF Idle, NoRow, Request, RequestOK, CarriesClaims, KnowsAccount, IsLinked, LinksOwnAccount, CopiesInTime,
     CopyIsFresh, HasCopy, Linking, PastItsLink, SignIn, Sync, States, Flows

LEMMA RowFacts == NoRow \notin Row
  BY DEF NoRow, Row

\* What every step does but Save: rows are added to the tables.
Keeps ==
  /\ Accounts \subseteq Accounts' /\ identities \subseteq identities' /\ abandoned \subseteq abandoned'
  /\ \A u \in Accounts : users'[u] = users[u] /\ (u \in local' => u \in local)

LEMMA StaysOK ==
  ASSUME Keeps, NEW q \in Request, RequestOK(q)
  PROVE  q \in Request' /\ RequestOK(q)'
<1>1. q \in Request'
  BY DEF Keeps, Request
<1>2. CarriesClaims(q)'
  BY DEF RequestOK, CarriesClaims, SignIn, Sync
<1>3. KnowsAccount(q)' /\ CopiesInTime(q)'
  BY DEF Keeps, RequestOK, KnowsAccount, CopiesInTime, HasCopy
<1>4. IsLinked(q)'
  BY DEF Keeps, RequestOK, IsLinked, PastItsLink, SignIn
<1>5. LinksOwnAccount(q)'
  BY DEF Keeps, RequestOK, LinksOwnAccount, KnowsAccount
<1>6. CopyIsFresh(q)'
  BY DEF Keeps, RequestOK, CopyIsFresh, CopiesInTime, HasCopy, Preserves
<1> QED
  BY <1>1, <1>2, <1>3, <1>4, <1>5, <1>6 DEF RequestOK

\* A request goes on, or away, without leaving an account behind that only it
\* could link.
LEMMA LinkableStays ==
  ASSUME Keeps, NEW r \in Requests, NEW new, req \in [Requests -> Request], req' = [req EXCEPT ![r] = new],
         Linking(req[r]) => \/ Linking(new) /\ new.uid = req[r].uid
                            \/ \E i \in identities' : i.uid = req[r].uid
                            \/ req[r].uid \in abandoned',
         NEW u, Linkable(u)
  PROVE  Linkable(u)'
<1>1. CASE \E i \in identities : i.uid = u
  BY <1>1 DEF Keeps, Linkable
<1>2. CASE u \in abandoned
  BY <1>2 DEF Keeps, Linkable
<1>3. CASE \E q \in Requests : Linking(req[q]) /\ req[q].uid = u
  <2>1. PICK q \in Requests : Linking(req[q]) /\ req[q].uid = u
    BY <1>3
  <2>2. CASE q = r
    <3>1. req'[r] = new
      OBVIOUS
    <3>2. Linking(new) /\ new.uid = u => Linkable(u)'
      BY <3>1 DEF Linkable, Linking, Sync
    <3> QED
      BY <2>1, <2>2, <3>2 DEF Linkable
  <2>3. CASE q # r
    <3>1. req'[q] = req[q]
      BY <2>3
    <3> QED
      BY <2>1, <3>1 DEF Linkable, Linking, Sync
  <2> QED
    BY <2>2, <2>3
<1> QED
  BY <1>1, <1>2, <1>3 DEF Linkable

\* The step of one request, in which it becomes new.
LEMMA RequestStep ==
  ASSUME IInv, NEW r \in Requests, NEW new, req' = [req EXCEPT ![r] = new],
         TableInv', Keeps, new \in Request', RequestOK(new)',
         Linking(req[r]) => \/ Linking(new) /\ new.uid = req[r].uid
                            \/ \E i \in identities' : i.uid = req[r].uid
                            \/ req[r].uid \in abandoned',
         HasCopy(new) => Passwordless(new.row, new.uid),
         \A u \in Accounts' \ Accounts : users'[u].verified /\ Linking(new) /\ new.uid = u
  PROVE  IInv'
<1>0. TableInv /\ req \in [Requests -> Request] /\ req'[r] = new
  BY InvSplit
<1>1. ASSUME NEW u, Linkable(u) PROVE Linkable(u)'
  BY <1>0, <1>1, LinkableStays
<1>2. ASSUME NEW u, NEW row, Passwordless(row, u) PROVE Passwordless(row, u)'
  BY <1>1, <1>2 DEF Passwordless
<1>3. ASSUME NEW q \in Requests, q # r
      PROVE  /\ req'[q] = req[q] /\ req'[q] \in Request' /\ RequestOK(req[q])'
             /\ HasCopy(req[q])' => Passwordless(req[q].row, req[q].uid)'
  <2>1. req'[q] = req[q] /\ req[q] \in Request /\ RequestOK(req[q])
    BY <1>0, <1>3, InvSplit
  <2>2. PICK old : old = req[q]
    OBVIOUS
  <2>3. old \in Request /\ RequestOK(old) /\ (HasCopy(old) => Passwordless(old.row, old.uid))
    BY <2>1, <2>2, InvSplit DEF CopiesCanSignIn
  <2>4. old \in Request' /\ RequestOK(old)' /\ (HasCopy(old) => Passwordless(old.row, old.uid)')
    BY <1>2, <2>3, StaysOK
  <2>5. RequestOK(req[q])'
    BY <2>1, <2>2, <2>4 DEF RequestOK, CarriesClaims, KnowsAccount, IsLinked, LinksOwnAccount, CopiesInTime,
     CopyIsFresh, HasCopy, PastItsLink, SignIn, Sync, Preserves
  <2>6. HasCopy(req[q])' => Passwordless(req[q].row, req[q].uid)'
    BY <2>1, <2>2, <2>4 DEF HasCopy, Passwordless, Linkable
  <2> QED
    BY <2>1, <2>2, <2>4, <2>5, <2>6
<1>4. RequestOK(req[r])'
  BY <1>0 DEF RequestOK, CarriesClaims, KnowsAccount, IsLinked, LinksOwnAccount, CopiesInTime,
     CopyIsFresh, HasCopy, PastItsLink, SignIn, Sync, Preserves
<1>5. HasCopy(req[r])' => Passwordless(req[r].row, req[r].uid)'
  <2>1. HasCopy(new) => Passwordless(new.row, new.uid)'
    BY <1>2
  <2> QED
    BY <1>0, <2>1 DEF HasCopy, Passwordless, Linkable
<1>6. RowsCanSignIn'
  <2> SUFFICES ASSUME NEW u \in Accounts' PROVE Passwordless(users[u], u)'
    BY DEF RowsCanSignIn
  <2>1. CASE u \in Accounts
    <3>1. PICK row : row = users[u]
      OBVIOUS
    <3>2. Passwordless(row, u)
      BY <2>1, <3>1, InvSplit DEF RowsCanSignIn
    <3>3. Passwordless(row, u)' /\ row = users'[u]
      BY <1>2, <2>1, <3>1, <3>2 DEF Keeps
    <3> QED
      BY <3>3 DEF Passwordless, Linkable
  <2>2. CASE u \notin Accounts
    <3>1. Linking(req[r])' /\ req'[r].uid = u /\ users'[u].verified
      BY <1>0, <2>2 DEF Linking, Sync
    <3> QED
      BY <3>1 DEF Passwordless, Linkable
  <2> QED
    BY <2>1, <2>2
<1>7. CopiesCanSignIn' /\ \A q \in Requests : RequestOK(req[q])'
  BY <1>3, <1>4, <1>5 DEF CopiesCanSignIn
<1>8. req' \in [Requests -> Request']
  BY <1>0, <1>3
<1> QED
  BY <1>6, <1>7, <1>8, InvSplitNext

-----------------------------------------------------------------------------
\* IInv is inductive.  The steps that change one request and no row ...
LEMMA InvInit == Init => IInv
<1> SUFFICES ASSUME Init PROVE IInv
  OBVIOUS
<1>1. Accounts = {}
  BY DEF Init, Accounts
<1>2. 0 \in 0..MaxUsers /\ {} = 1..0
  OBVIOUS
<1>3. Numbered
  BY <1>1, <1>2 DEF Numbered
<1>4. TableInv /\ RowsCanSignIn
  BY <1>1, <1>3 DEF Init, TableInv, RowsCanSignIn, AutoLinkedOnlyIfRaced, LinksAreOfAccounts, LinkedOnce
<1>5. /\ req \in [Requests -> Request] /\ CopiesCanSignIn /\ \A r \in Requests : RequestOK(req[r])
  BY IdleOK DEF Init, CopiesCanSignIn
<1> QED
  BY <1>4, <1>5, InvSplit

Still == /\ UNCHANGED <<users, identities, local>>
         /\ abandoned \subseteq abandoned' /\ abandoned' \subseteq Accounts
         /\ pending' \subseteq [sub : Subjects, email : Emails]

LEMMA StillStep ==
  ASSUME IInv, Still, NEW r \in Requests, NEW new \in Request, req' = [req EXCEPT ![r] = new], RequestOK(new),
         Linking(req[r]) => \/ Linking(new) /\ new.uid = req[r].uid
                            \/ \E i \in identities : i.uid = req[r].uid
                            \/ req[r].uid \in abandoned',
         HasCopy(new) => Passwordless(new.row, new.uid)
  PROVE  IInv'
<1>0. TableInv
  BY InvSplit
<1>1. TableInv'
  BY <1>0 DEF Still, TableInv, Numbered, Accounts, AutoLinkedOnlyIfRaced, LinksAreOfAccounts, LinkedOnce
<1>2. Keeps /\ Accounts' = Accounts
  BY DEF Still, Keeps, Accounts
<1>3. new \in Request' /\ RequestOK(new)'
  BY <1>2, StaysOK
<1> QED
  BY <1>1, <1>2, <1>3, RequestStep DEF Still

\* A request ends that has no account to link, or leaves it abandoned.
LEMMA EndsStep ==
  ASSUME IInv, Still, NEW r \in Requests, Ends(r), Linking(req[r]) => req[r].uid \in abandoned'
  PROVE  IInv'
  BY IdleOK, StillStep DEF Ends

\* A sign-in is answered with the account that the subject is linked to.
LEMMA AnswerStep ==
  ASSUME IInv, Still, NEW r \in Requests, NEW u \in Accounts, AnswersWith(r, u), SignIn(req[r]),
         \E i \in identities : i.sub = req[r].sub /\ i.uid = u,
         Linking(req[r]) => req[r].uid = u \/ req[r].uid \in abandoned'
  PROVE  IInv'
<1>0. req[r] \in Request /\ RequestOK(req[r])
  BY InvSplit
<1>1. PICK new : new = [req[r] EXCEPT !.pc = "answer", !.uid = u, !.row = NoRow, !.stale = FALSE]
  OBVIOUS
<1>2. req' = [req EXCEPT ![r] = new]
  BY <1>1, InvSplit DEF AnswersWith
<1>3. new \in Request /\ RequestOK(new) /\ ~HasCopy(new)
  BY <1>0, <1>1 DEF Request, States, RequestOK, CarriesClaims, KnowsAccount, IsLinked, LinksOwnAccount,
     CopiesInTime, CopyIsFresh, HasCopy, PastItsLink, SignIn, Sync
<1> QED
  BY <1>2, <1>3, StillStep

LEMMA EndingSteps ==
  ASSUME IInv, NEW r \in Requests, Dies(r) \/ Answer(r)
  PROVE  IInv'
<1>0. TableInv /\ req[r] \in Request /\ RequestOK(req[r])
  BY InvSplit
<1>1. CASE Dies(r)
  <2>1. Linking(req[r]) => req[r].uid \in Accounts /\ abandoned' = abandoned \cup {req[r].uid}
    BY <1>0, <1>1 DEF Dies, Linking, Sync, InSync, RequestOK, KnowsAccount
  <2>2. ~Linking(req[r]) => abandoned' = abandoned
    BY <1>1 DEF Dies, Linking, Sync, InSync
  <2>3. Still
    BY <1>0, <1>1, <2>1, <2>2 DEF Still, TableInv, Dies
  <2> QED
    BY <1>1, <2>1, <2>3, EndsStep DEF Dies
<1>2. CASE Answer(r)
  <2>1. Still /\ ~Linking(req[r])
    BY <1>0, <1>2 DEF Still, Answer, TableInv, Linking
  <2> QED
    BY <1>2, <2>1, EndsStep DEF Answer
<1> QED
  BY <1>1, <1>2

\* ... those of SyncAuth0User ...
LEMMA SyncFindStep ==
  ASSUME IInv, NEW r \in Requests, NEW s, NEW e, <<s, e>> \in Claims, SyncFind(r, s, e)
  PROVE  IInv'
<1>0. TableInv /\ ~Linking(req[r]) /\ s \in Subjects /\ e \in Emails
  BY InvSplit, IdleOK DEF SyncFind
<1>1. Still
  BY <1>0 DEF Still, SyncFind, TableInv
<1>2. CASE \E i \in LinkOf(s) : Starts(r, [Idle EXCEPT !.flow = "created", !.sub = s, !.email = e,
                                                       !.pc = "profile", !.uid = i.uid])
  <2>1. PICK i \in LinkOf(s) : Starts(r, [Idle EXCEPT !.flow = "created", !.sub = s, !.email = e,
                                                       !.pc = "profile", !.uid = i.uid])
    BY <1>2
  <2>2. PICK new : new = [Idle EXCEPT !.flow = "created", !.sub = s, !.email = e, !.pc = "profile", !.uid = i.uid]
    OBVIOUS
  <2>3. i \in identities /\ i.sub = s /\ i.uid \in Accounts
    BY <1>0 DEF LinkOf, TableInv, LinksAreOfAccounts
  <2>4. new \in Request /\ RequestOK(new) /\ ~HasCopy(new)
    BY <1>0, <2>2, <2>3 DEF Idle, NoRow, Request, States, Flows, RequestOK, CarriesClaims, KnowsAccount, IsLinked,
       LinksOwnAccount, CopiesInTime, CopyIsFresh, HasCopy, PastItsLink, SignIn, Sync
  <2> QED
    BY <1>0, <1>1, <2>1, <2>2, <2>4, StillStep DEF Starts
<1>3. CASE Starts(r, [Idle EXCEPT !.flow = "created", !.sub = s, !.email = e, !.pc = "byEmail"])
  <2>1. PICK new : new = [Idle EXCEPT !.flow = "created", !.sub = s, !.email = e, !.pc = "byEmail"]
    OBVIOUS
  <2>2. new \in Request /\ RequestOK(new) /\ ~HasCopy(new)
    BY <1>0, <2>1 DEF Idle, NoRow, Request, States, Flows, RequestOK, CarriesClaims, KnowsAccount, IsLinked,
       LinksOwnAccount, CopiesInTime, CopyIsFresh, HasCopy, PastItsLink, SignIn, Sync
  <2> QED
    BY <1>0, <1>1, <1>3, <2>1, <2>2, StillStep DEF Starts
<1> QED
  BY <1>2, <1>3 DEF SyncFind, Idle

LEMMA SyncProfileStep ==
  ASSUME IInv, NEW r \in Requests, SyncProfile(r)
  PROVE  IInv'
<1>0. TableInv /\ req[r] \in Request /\ RequestOK(req[r])
  BY InvSplit
<1>1. Still /\ ~Linking(req[r])
  BY <1>0 DEF Still, SyncProfile, TableInv, Linking
<1>2. /\ req[r].uid \in Accounts /\ req[r].email \in Emails /\ SignIn(req[r])
      /\ \E i \in identities : i.sub = req[r].sub /\ i.uid = req[r].uid
  BY <1>0 DEF SyncProfile, RequestOK, KnowsAccount, CarriesClaims, IsLinked, PastItsLink, SignIn, Sync
<1>3. CASE AnswersWith(r, req[r].uid)
  BY <1>1, <1>2, <1>3, AnswerStep
<1>4. CASE req' = [req EXCEPT ![r].pc = "save", ![r].row = [users[req[r].uid] EXCEPT !.email = req[r].email]]
  <2>1. PICK row : row = [users[req[r].uid] EXCEPT !.email = req[r].email]
    OBVIOUS
  <2>2. PICK new : new = [req[r] EXCEPT !.pc = "save", !.row = row]
    OBVIOUS
  <2>3. users[req[r].uid] \in Row
    BY <1>0, <1>2 DEF TableInv
  <2>4. /\ row \in Row /\ row.hash = users[req[r].uid].hash /\ row.verified = users[req[r].uid].verified
    BY <1>2, <2>1, <2>3 DEF Row
  <2>5. new \in Request /\ RequestOK(new)
    BY <1>0, <1>2, <2>2, <2>4, RowFacts DEF SyncProfile, Request, States, RequestOK, CarriesClaims, KnowsAccount,
       IsLinked, LinksOwnAccount, CopiesInTime, CopyIsFresh, HasCopy, PastItsLink, SignIn, Sync, Preserves
  <2>6. Passwordless(users[req[r].uid], req[r].uid)
    BY <1>2, InvSplit DEF RowsCanSignIn
  <2>7. Passwordless(new.row, new.uid)
    BY <1>0, <2>2, <2>4, <2>6 DEF Passwordless, Request
  <2>8. req' = [req EXCEPT ![r] = new]
    BY <1>4, <2>1, <2>2, InvSplit
  <2> QED
    BY <1>1, <2>5, <2>7, <2>8, StillStep
<1> QED
  BY <1>3, <1>4 DEF SyncProfile

LEMMA SyncByEmailStep ==
  ASSUME IInv, NEW r \in Requests, SyncByEmail(r)
  PROVE  IInv'
<1>0. TableInv /\ req[r] \in Request /\ RequestOK(req[r])
  BY InvSplit
<1>1. ~Linking(req[r]) /\ req[r].sub \in Subjects /\ req[r].email \in Emails
  BY <1>0 DEF SyncByEmail, Linking, RequestOK, CarriesClaims, SignIn, Sync
<1>2. Still
  BY <1>0, <1>1 DEF Still, SyncByEmail, TableInv
<1>3. CASE Ends(r)
  BY <1>1, <1>2, <1>3, EndsStep
<1>4. CASE Goto(r, "create")
  <2>1. PICK new : new = [req[r] EXCEPT !.pc = "create"]
    OBVIOUS
  <2>2. new \in Request /\ RequestOK(new) /\ ~HasCopy(new)
    BY <1>0, <2>1 DEF SyncByEmail, Request, States, RequestOK, CarriesClaims, KnowsAccount, IsLinked,
       LinksOwnAccount, CopiesInTime, CopyIsFresh, HasCopy, PastItsLink, SignIn, Sync
  <2>3. req' = [req EXCEPT ![r] = new]
    BY <1>4, <2>1, InvSplit DEF Goto
  <2> QED
    BY <1>1, <1>2, <2>2, <2>3, StillStep
<1> QED
  BY <1>3, <1>4 DEF SyncByEmail

\* A row is added to the table of accounts.
LEMMA AccountAdded ==
  ASSUME TableInv, NEW row \in Row, Cardinality(Accounts) < MaxUsers, NewAccount(row),
         UNCHANGED <<identities, pending, abandoned>>, local' \subseteq local \cup {Cardinality(Accounts) + 1}
  PROVE  /\ TableInv' /\ Keeps
         /\ Accounts' = Accounts \cup {Cardinality(Accounts) + 1} /\ Cardinality(Accounts) + 1 \notin Accounts
         /\ users'[Cardinality(Accounts) + 1] = row
<1>0. PICK n \in Nat : n = Cardinality(Accounts) /\ Accounts = 1..n /\ n < MaxUsers
  BY CountedAccounts DEF TableInv
<1>1. Accounts' = 1..(n + 1)
  BY <1>0 DEF NewAccount, Accounts
<1>2. n + 1 \in 0..MaxUsers /\ 1..(n + 1) = (1..n) \cup {n + 1} /\ n + 1 \notin 1..n
  BY <1>0
<1>3. Accounts' = Accounts \cup {n + 1} /\ n + 1 \notin Accounts
  BY <1>0, <1>1, <1>2
<1>4. users' = [u \in 1..(n + 1) |-> IF u \in Accounts THEN users[u] ELSE row]
  BY <1>0 DEF NewAccount
<1>5. users'[n + 1] = row /\ \A u \in Accounts : users'[u] = users[u]
  BY <1>0, <1>2, <1>4
<1>6. users' \in [Accounts' -> Row]
  BY <1>1, <1>4 DEF TableInv
<1>7. Keeps
  BY <1>0, <1>3, <1>5 DEF Keeps
<1>8. TableInv'
  <2>1. Numbered'
    BY <1>1, <1>2 DEF Numbered
  <2>2. local' \subseteq Accounts' /\ abandoned' \subseteq Accounts'
    BY <1>0, <1>3 DEF TableInv
  <2>3. AutoLinkedOnlyIfRaced' /\ LinksAreOfAccounts' /\ LinkedOnce'
    BY <1>3, <1>7 DEF TableInv, Keeps, AutoLinkedOnlyIfRaced, LinksAreOfAccounts, LinkedOnce
  <2> QED
    BY <1>6, <2>1, <2>2, <2>3 DEF TableInv
<1> QED
  BY <1>0, <1>3, <1>5, <1>7, <1>8

LEMMA SyncCreateStep ==
  ASSUME IInv, NEW r \in Requests, SyncCreate(r)
  PROVE  IInv'
<1>0. TableInv /\ req[r] \in Request /\ RequestOK(req[r])
  BY InvSplit
<1>1. /\ ~Linking(req[r]) /\ req[r].sub \in Subjects /\ req[r].email \in Emails
      /\ Sync(req[r]) /\ ~HasCopy(req[r])
  BY <1>0 DEF SyncCreate, Linking, RequestOK, CarriesClaims, CopiesInTime, SignIn, Sync
<1>2. CASE /\ Cardinality(Accounts) < MaxUsers
           /\ NewAccount([email |-> req[r].email, hash |-> NoPassword, verified |-> TRUE])
           /\ req' = [req EXCEPT ![r].pc = "identity", ![r].uid = Cardinality(Accounts) + 1]
  <2>1. PICK u : u = Cardinality(Accounts) + 1
    OBVIOUS
  <2>2. PICK row : row = [email |-> req[r].email, hash |-> NoPassword, verified |-> TRUE]
    OBVIOUS
  <2>3. row \in Row /\ row.verified
    BY <1>1, <2>2 DEF Row
  <2>4. NewAccount(row) /\ UNCHANGED <<identities, pending, abandoned, local>>
    BY <1>2, <2>2 DEF SyncCreate
  <2>5. TableInv' /\ Keeps /\ Accounts' = Accounts \cup {u} /\ u \notin Accounts /\ users'[u] = row
    BY <1>0, <1>2, <2>1, <2>3, <2>4, AccountAdded
  <2>6. PICK new : new = [req[r] EXCEPT !.pc = "identity", !.uid = u]
    OBVIOUS
  <2>7. req' = [req EXCEPT ![r] = new]
    BY <1>2, <2>1, <2>6, InvSplit
  <2>8. u \in Accounts' /\ u \notin local'
    BY <1>0, <2>4, <2>5 DEF TableInv
  <2>9. new \in Request' /\ Linking(new) /\ new.uid = u /\ ~HasCopy(new)
    BY <1>0, <1>1, <2>5, <2>6, <2>8 DEF Request, States, Linking, Sync, HasCopy
  <2>10. RequestOK(new)'
    BY <1>0, <1>1, <2>6, <2>8 DEF Request, RequestOK, CarriesClaims, KnowsAccount, IsLinked,
       LinksOwnAccount, CopiesInTime, CopyIsFresh, HasCopy, PastItsLink, SignIn, Sync
  <2>11. \A v \in Accounts' \ Accounts : users'[v].verified /\ Linking(new) /\ new.uid = v
    BY <2>3, <2>5, <2>9
  <2> QED
    BY <1>1, <2>5, <2>7, <2>9, <2>10, <2>11, RequestStep
<1>3. CASE req' = [req EXCEPT ![r].pc = "fallback", ![r].flow = "fallback"] /\ UNCHANGED users
  <2>1. PICK new : new = [req[r] EXCEPT !.pc = "fallback", !.flow = "fallback"]
    OBVIOUS
  <2>2. new \in Request /\ RequestOK(new) /\ ~HasCopy(new)
    BY <1>0, <1>1, <2>1 DEF Request, States, Flows, RequestOK, CarriesClaims, KnowsAccount, IsLinked,
       LinksOwnAccount, CopiesInTime, CopyIsFresh, HasCopy, PastItsLink, SignIn, Sync
  <2>3. req' = [req EXCEPT ![r] = new]
    BY <1>3, <2>1, InvSplit
  <2>4. Still
    BY <1>0, <1>3 DEF Still, SyncCreate, TableInv
  <2> QED
    BY <1>1, <2>2, <2>3, <2>4, StillStep
<1> QED
  BY <1>2, <1>3 DEF SyncCreate

LEMMA SyncFallbackStep ==
  ASSUME IInv, NEW r \in Requests, SyncFallback(r)
  PROVE  IInv'
<1>0. TableInv /\ req[r] \in Request /\ RequestOK(req[r]) /\ ~Linking(req[r])
  BY InvSplit DEF SyncFallback, Linking
<1>1. Still
  BY <1>0 DEF Still, SyncFallback, TableInv
<1>2. CASE Ends(r)
  BY <1>0, <1>1, <1>2, EndsStep
<1>3. ASSUME NEW u \in HasEmail(req[r].email), req' = [req EXCEPT ![r].pc = "identity", ![r].uid = u]
      PROVE  IInv'
  <2>1. PICK new : new = [req[r] EXCEPT !.pc = "identity", !.uid = u]
    OBVIOUS
  <2>2. u \in Accounts
    BY DEF HasEmail
  <2>3. new \in Request /\ RequestOK(new) /\ ~HasCopy(new)
    BY <1>0, <2>1, <2>2 DEF SyncFallback, Request, States, RequestOK, CarriesClaims, KnowsAccount, IsLinked,
       LinksOwnAccount, CopiesInTime, CopyIsFresh, HasCopy, PastItsLink, SignIn, Sync
  <2>4. req' = [req EXCEPT ![r] = new]
    BY <1>3, <2>1, InvSplit
  <2> QED
    BY <1>0, <1>1, <2>3, <2>4, StillStep
<1> QED
  BY <1>2, <1>3 DEF SyncFallback

\* A row is added to the table of identities.
LEMMA IdentityAdded ==
  ASSUME TableInv, NEW s \in Subjects, NEW u \in Accounts, NEW b \in BOOLEAN, NEW how,
         how \in {"fallback", "consent"} \/ (how = "created" /\ u \notin local),
         Admits([sub |-> s, uid |-> u, primary |-> b, how |-> how]),
         identities' = identities \cup {[sub |-> s, uid |-> u, primary |-> b, how |-> how]},
         UNCHANGED <<users, pending, local, abandoned>>
  PROVE  TableInv' /\ Keeps /\ Accounts' = Accounts /\ \E i \in identities' : i.sub = s /\ i.uid = u
<1>1. PICK i : i = [sub |-> s, uid |-> u, primary |-> b, how |-> how]
  OBVIOUS
<1>2. i.sub = s /\ i.uid = u /\ i.how = how /\ identities' = identities \cup {i}
  BY <1>1
<1>3. u \in 1..MaxUsers
  <2>1. PICK n \in 0..MaxUsers : Accounts = 1..n
    BY DEF TableInv, Numbered
  <2> QED
    BY <2>1
<1>4. i \in Identity
  BY <1>1, <1>3 DEF Identity
<1>5. \A j \in identities : j.sub # s
  BY <1>1 DEF Admits
<1>6. Accounts' = Accounts /\ Keeps
  BY <1>2 DEF Keeps, Accounts
<1>7. AutoLinkedOnlyIfRaced'
  BY <1>2 DEF TableInv, AutoLinkedOnlyIfRaced
<1>8. LinksAreOfAccounts'
  BY <1>2, <1>6 DEF TableInv, LinksAreOfAccounts
<1>9. LinkedOnce'
  BY <1>2, <1>5 DEF TableInv, LinkedOnce
<1>10. TableInv'
  BY <1>2, <1>4, <1>6, <1>7, <1>8, <1>9 DEF TableInv, Numbered
<1> QED
  BY <1>2, <1>6, <1>10

LEMMA SyncIdentityStep ==
  ASSUME IInv, NEW r \in Requests, SyncIdentity(r)
  PROVE  IInv'
<1>0. TableInv /\ req[r] \in Request /\ RequestOK(req[r])
  BY InvSplit
<1>1. /\ req[r].sub \in Subjects /\ req[r].uid \in Accounts /\ Sync(req[r]) /\ Linking(req[r])
      /\ req[r].flow \in {"fallback", "consent"} \/ (req[r].flow = "created" /\ req[r].uid \notin local)
  BY <1>0 DEF SyncIdentity, InSync, RequestOK, CarriesClaims, KnowsAccount, LinksOwnAccount, Linking, SignIn, Sync
<1>2. CASE /\ Admits([sub |-> req[r].sub, uid |-> req[r].uid, primary |-> TRUE, how |-> req[r].flow])
           /\ identities' = identities \cup {[sub |-> req[r].sub, uid |-> req[r].uid, primary |-> TRUE, how |-> req[r].flow]}
           /\ AnswersWith(r, req[r].uid)
  <2>1. UNCHANGED <<users, pending, local, abandoned>>
    BY DEF SyncIdentity
  <2>2. /\ TableInv' /\ Keeps /\ Accounts' = Accounts
        /\ \E i \in identities' : i.sub = req[r].sub /\ i.uid = req[r].uid
    BY <1>0, <1>1, <1>2, <2>1, IdentityAdded, Zenon
  <2>3. PICK new : new = [req[r] EXCEPT !.pc = "answer", !.uid = req[r].uid, !.row = NoRow, !.stale = FALSE]
    OBVIOUS
  <2>4. req' = [req EXCEPT ![r] = new]
    BY <1>2, <2>3, InvSplit DEF AnswersWith
  <2>5. new \in Request' /\ ~HasCopy(new) /\ new.uid = req[r].uid
    BY <1>0, <1>1, <2>2, <2>3 DEF Request, States, HasCopy
  <2>6. RequestOK(new)'
    BY <1>0, <1>1, <2>2, <2>3 DEF Request, RequestOK, CarriesClaims, KnowsAccount, IsLinked,
       LinksOwnAccount, CopiesInTime, CopyIsFresh, HasCopy, PastItsLink, SignIn, Sync
  <2> QED
    BY <2>2, <2>4, <2>5, <2>6, RequestStep
<1>3. CASE Goto(r, "existing") /\ UNCHANGED identities
  <2>1. PICK new : new = [req[r] EXCEPT !.pc = "existing"]
    OBVIOUS
  <2>2. new \in Request /\ RequestOK(new) /\ Linking(new) /\ new.uid = req[r].uid /\ new.row = req[r].row
    BY <1>0, <1>1, <2>1 DEF SyncIdentity, Request, States, RequestOK, CarriesClaims, KnowsAccount, IsLinked,
       LinksOwnAccount, CopiesInTime, CopyIsFresh, HasCopy, Linking, PastItsLink, SignIn, Sync
  <2>3. HasCopy(new) => Passwordless(new.row, new.uid)
    BY <2>2, InvSplit DEF CopiesCanSignIn, HasCopy
  <2>4. req' = [req EXCEPT ![r] = new]
    BY <1>3, <2>1, InvSplit DEF Goto
  <2>5. Still
    BY <1>0, <1>3 DEF Still, SyncIdentity, TableInv
  <2> QED
    BY <2>2, <2>3, <2>4, <2>5, StillStep
<1> QED
  BY <1>2, <1>3 DEF SyncIdentity

LEMMA SyncExistingStep ==
  ASSUME IInv, NEW r \in Requests, SyncExisting(r)
  PROVE  IInv'
<1>0. TableInv /\ req[r] \in Request /\ RequestOK(req[r])
  BY InvSplit
<1>1. req[r].uid \in Accounts /\ SignIn(req[r]) /\ req[r].uid \in abandoned'
  BY <1>0 DEF SyncExisting, RequestOK, CarriesClaims, KnowsAccount
<1>2. Still
  BY <1>0, <1>1 DEF Still, SyncExisting, TableInv
<1>3. CASE Ends(r)
  BY <1>1, <1>2, <1>3, EndsStep
<1>4. ASSUME NEW i \in LinkOf(req[r].sub), AnswersWith(r, i.uid) PROVE IInv'
  <2>1. i \in identities /\ i.sub = req[r].sub /\ i.uid \in Accounts
    BY <1>0 DEF LinkOf, TableInv, LinksAreOfAccounts
  <2> QED
    BY <1>1, <1>2, <1>4, <2>1, AnswerStep
<1> QED
  BY <1>3, <1>4 DEF SyncExisting

\* ... those of ConfirmAccountLink ...
LEMMA ConfirmFindStep ==
  ASSUME IInv, NEW r \in Requests, NEW p \in pending, ConfirmFind(r, p)
  PROVE  IInv'
<1>0. TableInv /\ ~Linking(req[r]) /\ p.sub \in Subjects /\ p.email \in Emails
  BY InvSplit, IdleOK DEF ConfirmFind, TableInv
<1>1. Still
  BY <1>0 DEF Still, ConfirmFind, TableInv
<1>2. PICK u \in HasEmail(p.email) :
        /\ users[u].hash # NoPassword
        /\ Starts(r, [Idle EXCEPT !.pc = "identity", !.flow = "consent", !.sub = p.sub,
                                  !.email = p.email, !.uid = u, !.row = users[u]])
  BY DEF ConfirmFind
<1>3. PICK row : row = users[u]
  OBVIOUS
<1>4. PICK new : new = [Idle EXCEPT !.pc = "identity", !.flow = "consent", !.sub = p.sub,
                                    !.email = p.email, !.uid = u, !.row = row]
  OBVIOUS
<1>5. u \in Accounts /\ row \in Row
  BY <1>0, <1>3 DEF HasEmail, TableInv
<1>6. new \in Request /\ RequestOK(new) /\ new.row = row
  BY <1>0, <1>3, <1>4, <1>5, RowFacts DEF Idle, NoRow, Request, States, Flows, RequestOK, CarriesClaims, KnowsAccount, IsLinked,
     LinksOwnAccount, CopiesInTime, CopyIsFresh, HasCopy, PastItsLink, SignIn, Sync, Preserves
<1>7. Passwordless(new.row, new.uid)
  BY <1>2, <1>3, <1>6 DEF Passwordless
<1> QED
  BY <1>0, <1>1, <1>2, <1>3, <1>4, <1>6, <1>7, StillStep DEF Starts

LEMMA ConfirmLinkStep ==
  ASSUME IInv, NEW r \in Requests, ConfirmLink(r)
  PROVE  IInv'
<1>0. TableInv /\ req[r] \in Request /\ RequestOK(req[r])
  BY InvSplit
<1>1. /\ req[r].sub \in Subjects /\ req[r].uid \in Accounts /\ req[r].pc = "identity" /\ req[r].flow = "consent"
      /\ ~Linking(req[r])
  BY <1>0 DEF ConfirmLink, InConfirm, RequestOK, CarriesClaims, KnowsAccount, Linking, SignIn, Sync
<1>2. CASE /\ Admits([sub |-> req[r].sub, uid |-> req[r].uid, primary |-> FALSE, how |-> "consent"])
           /\ identities' = identities \cup {[sub |-> req[r].sub, uid |-> req[r].uid, primary |-> FALSE, how |-> "consent"]}
           /\ Goto(r, "verify")
  <2>1. UNCHANGED <<users, pending, local, abandoned>>
    BY DEF ConfirmLink
  <2>2. /\ TableInv' /\ Keeps /\ Accounts' = Accounts
        /\ \E i \in identities' : i.sub = req[r].sub /\ i.uid = req[r].uid
    <3>1. PICK how \in {"fallback", "consent"}, b \in BOOLEAN : how = "consent" /\ b = FALSE
      OBVIOUS
    <3>2. PICK s \in Subjects, u \in Accounts : s = req[r].sub /\ u = req[r].uid
      BY <1>1
    <3>3. /\ Admits([sub |-> s, uid |-> u, primary |-> b, how |-> how])
          /\ identities' = identities \cup {[sub |-> s, uid |-> u, primary |-> b, how |-> how]}
      BY <1>2, <3>1, <3>2
    <3>4. TableInv' /\ Keeps /\ Accounts' = Accounts /\ \E i \in identities' : i.sub = s /\ i.uid = u
      BY <1>0, <2>1, <3>3, IdentityAdded
    <3> QED
      BY <3>2, <3>4
  <2>3. PICK new : new = [req[r] EXCEPT !.pc = "verify"]
    OBVIOUS
  <2>4. req' = [req EXCEPT ![r] = new]
    BY <1>2, <2>3, InvSplit DEF Goto
  <2>5. new \in Request' /\ new.uid = req[r].uid /\ new.row = req[r].row
    BY <1>0, <1>1, <2>2, <2>3 DEF Request, States
  <2>6. HasCopy(new) => Passwordless(new.row, new.uid)
    BY <2>5, InvSplit DEF CopiesCanSignIn, HasCopy
  <2>7. RequestOK(new)'
    BY <1>0, <1>1, <2>1, <2>2, <2>3 DEF Request, RequestOK, CarriesClaims, KnowsAccount, IsLinked,
       LinksOwnAccount, CopiesInTime, CopyIsFresh, HasCopy, PastItsLink, SignIn, Sync, Preserves
  <2> QED
    BY <1>1, <2>2, <2>4, <2>5, <2>6, <2>7, RequestStep
<1>3. CASE Goto(r, "existing") /\ UNCHANGED identities
  <2>1. PICK new : new = [req[r] EXCEPT !.pc = "existing"]
    OBVIOUS
  <2>2. new \in Request /\ RequestOK(new) /\ new.uid = req[r].uid /\ new.row = req[r].row
    BY <1>0, <1>1, <2>1 DEF Request, States, RequestOK, CarriesClaims, KnowsAccount, IsLinked,
       LinksOwnAccount, CopiesInTime, CopyIsFresh, HasCopy, PastItsLink, SignIn, Sync
  <2>3. HasCopy(new) => Passwordless(new.row, new.uid)
    BY <2>2, InvSplit DEF CopiesCanSignIn, HasCopy
  <2>4. req' = [req EXCEPT ![r] = new]
    BY <1>3, <2>1, InvSplit DEF Goto
  <2>5. Still
    BY <1>0, <1>3 DEF Still, ConfirmLink, TableInv
  <2> QED
    BY <1>1, <2>2, <2>3, <2>4, <2>5, StillStep
<1> QED
  BY <1>2, <1>3 DEF ConfirmLink

LEMMA ConfirmExistingStep ==
  ASSUME IInv, NEW r \in Requests, ConfirmExisting(r)
  PROVE  IInv'
<1>0. TableInv /\ req[r] \in Request /\ RequestOK(req[r])
  BY InvSplit
<1>1. Still /\ ~Linking(req[r]) /\ req[r].flow = "consent" /\ req[r].pc = "existing"
  BY <1>0 DEF Still, ConfirmExisting, TableInv, Linking, InConfirm, Sync
<1>2. CASE Ends(r)
  BY <1>1, <1>2, EndsStep
<1>3. CASE Goto(r, "verify") /\ \E i \in LinkOf(req[r].sub) : i.uid = req[r].uid
  <2>1. PICK new : new = [req[r] EXCEPT !.pc = "verify"]
    OBVIOUS
  <2>2. \E i \in identities : i.sub = req[r].sub /\ i.uid = req[r].uid
    BY <1>3 DEF LinkOf
  <2>3. new \in Request /\ RequestOK(new) /\ new.uid = req[r].uid /\ new.row = req[r].row
    BY <1>0, <1>1, <2>1, <2>2 DEF Request, States, RequestOK, CarriesClaims, KnowsAccount, IsLinked,
       LinksOwnAccount, CopiesInTime, CopyIsFresh, HasCopy, PastItsLink, SignIn, Sync
  <2>4. HasCopy(new) => Passwordless(new.row, new.uid)
    BY <2>3, InvSplit DEF CopiesCanSignIn, HasCopy
  <2>5. req' = [req EXCEPT ![r] = new]
    BY <1>3, <2>1, InvSplit DEF Goto
  <2> QED
    BY <1>1, <2>3, <2>4, <2>5, StillStep
<1> QED
  BY <1>2, <1>3 DEF ConfirmExisting

LEMMA ConfirmVerifyStep ==
  ASSUME IInv, NEW r \in Requests, ConfirmVerify(r)
  PROVE  IInv'
<1>0. TableInv /\ req[r] \in Request /\ RequestOK(req[r])
  BY InvSplit
<1>1. Still /\ ~Linking(req[r])
  BY <1>0 DEF Still, ConfirmVerify, TableInv, Linking
<1>2. /\ req[r].uid \in Accounts /\ SignIn(req[r]) /\ req[r].row \in Row
      /\ \E i \in identities : i.sub = req[r].sub /\ i.uid = req[r].uid
  BY <1>0 DEF ConfirmVerify, Request, RequestOK, KnowsAccount, CarriesClaims, IsLinked, PastItsLink, SignIn, Sync,
     CopiesInTime, HasCopy
<1>3. CASE AnswersWith(r, req[r].uid)
  BY <1>1, <1>2, <1>3, AnswerStep
<1>4. CASE req' = [req EXCEPT ![r].pc = "save", ![r].row.verified = TRUE]
  <2>1. PICK row : row = [req[r].row EXCEPT !.verified = TRUE]
    OBVIOUS
  <2>2. PICK new : new = [req[r] EXCEPT !.pc = "save", !.row = row]
    OBVIOUS
  <2>3. row \in Row /\ row.hash = req[r].row.hash /\ row.verified = TRUE
    BY <1>2, <2>1 DEF Row
  <2>4. new \in Request /\ RequestOK(new) /\ new.row = row /\ new.uid = req[r].uid
    BY <1>0, <1>2, <2>2, <2>3, RowFacts, Zenon DEF ConfirmVerify, Request, States, RequestOK, CarriesClaims, KnowsAccount,
       IsLinked, LinksOwnAccount, CopiesInTime, CopyIsFresh, HasCopy, PastItsLink, SignIn, Sync, Preserves
  <2>5. Passwordless(req[r].row, req[r].uid)
    BY <1>2, RowFacts, InvSplit DEF CopiesCanSignIn, HasCopy
  <2>6. Passwordless(new.row, new.uid)
    BY <2>3, <2>4, <2>5 DEF Passwordless
  <2>7. req' = [req EXCEPT ![r] = new]
    BY <1>4, <2>1, <2>2, InvSplit
  <2> QED
    BY <1>1, <2>4, <2>6, <2>7, StillStep
<1> QED
  BY <1>3, <1>4 DEF ConfirmVerify

\* ... and the reads of the three requests that write a row of their account.
LEMMA FindSteps ==
  ASSUME IInv, NEW r \in Requests, NEW u \in Accounts,
         (\E p \in Passwords : SetPasswordFind(r, u, p)) \/ UpdateProfileFind(r, u) \/ VerifyEmailFind(r, u)
  PROVE  IInv'
<1>0. TableInv /\ users[u] \in Row /\ Passwordless(users[u], u) /\ req[r] = Idle /\ ~Linking(req[r])
  BY InvSplit, IdleOK DEF SetPasswordFind, UpdateProfileFind, VerifyEmailFind, TableInv, RowsCanSignIn
<1>1. Still
  BY <1>0 DEF Still, SetPasswordFind, UpdateProfileFind, VerifyEmailFind, TableInv
<1>2. ASSUME NEW flow \in {"password", "update", "mail"}, NEW row \in Row, Preserves(users[u], row),
             row.hash = NoPassword => row.hash = users[u].hash,
             Starts(r, [Idle EXCEPT !.pc = "save", !.flow = flow, !.uid = u, !.row = row])
      PROVE  IInv'
  <2>1. PICK new : new = [Idle EXCEPT !.pc = "save", !.flow = flow, !.uid = u, !.row = row]
    OBVIOUS
  <2>2. new \in Request /\ RequestOK(new) /\ new.row = row /\ new.uid = u
    BY <1>0, <1>2, <2>1, RowFacts DEF Idle, Request, States, Flows, RequestOK, CarriesClaims, KnowsAccount,
       IsLinked, LinksOwnAccount, CopiesInTime, CopyIsFresh, HasCopy, PastItsLink, SignIn, Sync
  <2>3. Passwordless(new.row, new.uid)
    BY <1>0, <1>2, <2>2 DEF Passwordless, Preserves, Row
  <2> QED
    BY <1>0, <1>1, <1>2, <2>1, <2>2, <2>3, StillStep DEF Starts
<1>3. ASSUME NEW p \in Passwords, SetPasswordFind(r, u, p) PROVE IInv'
  <2>1. PICK row : row = [users[u] EXCEPT !.hash = p]
    OBVIOUS
  <2>2. row \in Row /\ Preserves(users[u], row) /\ row.hash # NoPassword
    BY <1>0, <1>3, <2>1 DEF Row, Preserves, SetPasswordFind
  <2> QED
    BY <1>2, <1>3, <2>1, <2>2 DEF SetPasswordFind
<1>4. CASE UpdateProfileFind(r, u)
  BY <1>0, <1>2, <1>4 DEF UpdateProfileFind, Preserves
<1>5. CASE VerifyEmailFind(r, u)
  <2>1. PICK row : row = [users[u] EXCEPT !.verified = TRUE]
    OBVIOUS
  <2>2. row \in Row /\ Preserves(users[u], row) /\ row.hash = users[u].hash
    BY <1>0, <2>1 DEF Row, Preserves
  <2> QED
    BY <1>2, <1>5, <2>1, <2>2 DEF VerifyEmailFind
<1> QED
  BY <1>3, <1>4, <1>5

\* Register adds an account that has a password.
LEMMA RegisterStep ==
  ASSUME IInv, NEW e, NEW p, <<e, p>> \in SignUps, Register(e, p)
  PROVE  IInv'
<1>0. TableInv /\ req \in [Requests -> Request] /\ UNCHANGED req
  BY InvSplit DEF Register
<1>1. PICK row : row = [email |-> e, hash |-> p, verified |-> FALSE]
  OBVIOUS
<1>2. PICK n : n = Cardinality(Accounts) + 1
  OBVIOUS
<1>3. row \in Row /\ row.hash # NoPassword
  BY <1>1 DEF Row
<1>4. /\ NewAccount(row) /\ Cardinality(Accounts) < MaxUsers /\ UNCHANGED <<identities, pending, abandoned>>
      /\ local' \subseteq local \cup {n} /\ n \in local'
  BY <1>1, <1>2 DEF Register
<1>5. TableInv' /\ Keeps /\ Accounts' = Accounts \cup {n} /\ users'[n] = row
  BY <1>0, <1>2, <1>3, <1>4, AccountAdded
<1>6. ASSUME NEW u, Linkable(u) PROVE Linkable(u)'
  BY <1>0, <1>4, <1>6 DEF Linkable, Linking, Sync
<1>7. ASSUME NEW q \in Requests PROVE req'[q] \in Request' /\ RequestOK(req[q])'
  <2>1. PICK old : old = req[q]
    OBVIOUS
  <2>2. old \in Request' /\ RequestOK(old)'
    BY <1>0, <1>5, <2>1, InvSplit, StaysOK
  <2> QED
    BY <1>0, <2>1, <2>2 DEF RequestOK, CarriesClaims, KnowsAccount, IsLinked, LinksOwnAccount, CopiesInTime,
       CopyIsFresh, HasCopy, PastItsLink, SignIn, Sync, Preserves
<1>8. RowsCanSignIn'
  <2> SUFFICES ASSUME NEW u \in Accounts' PROVE Passwordless(users[u], u)'
    BY DEF RowsCanSignIn
  <2>1. CASE u \in Accounts
    <3>1. Passwordless(users[u], u) /\ users'[u] = users[u]
      BY <1>5, <2>1, InvSplit DEF RowsCanSignIn, Keeps
    <3> QED
      BY <1>6, <3>1 DEF Passwordless
  <2>2. CASE u = n
    BY <1>3, <1>5, <2>2 DEF Passwordless
  <2> QED
    BY <1>5, <2>1, <2>2
<1>9. CopiesCanSignIn'
  <2> SUFFICES ASSUME NEW q \in Requests, HasCopy(req[q])' PROVE Passwordless(req[q].row, req[q].uid)'
    BY DEF CopiesCanSignIn
  <2>1. Passwordless(req[q].row, req[q].uid)
    BY <1>0, InvSplit DEF CopiesCanSignIn, HasCopy
  <2> QED
    BY <1>0, <1>6, <2>1 DEF Passwordless
<1>10. req' \in [Requests -> Request']
  BY <1>0, <1>7
<1> QED
  BY <1>5, <1>7, <1>8, <1>9, <1>10, InvSplitNext

-----------------------------------------------------------------------------
\* Save replaces the row of one account and overtakes the copies of it.
Replaces(u) ==
  /\ Accounts' = Accounts /\ UNCHANGED <<identities, local, abandoned>>
  /\ \A v \in Accounts \ {u} : users'[v] = users[v]

LEMMA OvertakenOK ==
  ASSUME NEW u, Replaces(u), NEW q \in Request, RequestOK(q), ~HasCopy(q) \/ q.uid # u \/ q.stale
  PROVE  q \in Request' /\ RequestOK(q)'
<1>1. q \in Request'
  BY DEF Replaces, Request
<1>2. CarriesClaims(q)' /\ KnowsAccount(q)' /\ IsLinked(q)' /\ LinksOwnAccount(q)' /\ CopiesInTime(q)'
  BY DEF Replaces, RequestOK, CarriesClaims, KnowsAccount, IsLinked, LinksOwnAccount, CopiesInTime, HasCopy,
     PastItsLink, SignIn, Sync
<1>3. CopyIsFresh(q)'
  BY DEF Replaces, RequestOK, CopyIsFresh, CopiesInTime, HasCopy, Preserves
<1> QED
  BY <1>1, <1>2, <1>3 DEF RequestOK

LEMMA StaleOK ==
  ASSUME NEW q \in Request, RequestOK(q), NEW new, new = [q EXCEPT !.stale = TRUE]
  PROVE  /\ new \in Request /\ RequestOK(new) /\ new.stale
         /\ new.pc = q.pc /\ new.flow = q.flow /\ new.uid = q.uid /\ new.row = q.row
<1>1. /\ new \in Request /\ new.stale
      /\ new.pc = q.pc /\ new.flow = q.flow /\ new.uid = q.uid /\ new.row = q.row /\ new.sub = q.sub /\ new.email = q.email
  BY DEF Request
<1>2. RequestOK(new)
  BY <1>1 DEF RequestOK, CarriesClaims, KnowsAccount, IsLinked, LinksOwnAccount, CopiesInTime, CopyIsFresh, HasCopy,
     PastItsLink, SignIn, Sync
<1> QED
  BY <1>1, <1>2

LEMMA SaveStep ==
  ASSUME IInv, NEW r \in Requests, Save(r)
  PROVE  IInv'
<1>0. TableInv /\ req \in [Requests -> Request] /\ req[r] \in Request /\ RequestOK(req[r])
  BY InvSplit
<1>1. PICK u : u = req[r].uid
  OBVIOUS
<1>2. u \in Accounts /\ HasCopy(req[r]) /\ req[r].row \in Row /\ ~Linking(req[r]) /\ req[r].pc = "save"
  BY <1>0, <1>1 DEF Save, RequestOK, KnowsAccount, CopiesInTime, HasCopy, Request, Linking
<1>3. CASE Ends(r) /\ UNCHANGED users
  <2>1. Still
    BY <1>0, <1>3 DEF Still, Save, TableInv
  <2> QED
    BY <1>2, <1>3, <2>1, EndsStep
<1>4. CASE /\ users' = [users EXCEPT ![u] = req[r].row]
           /\ req' = [q \in Requests |->
                       IF q = r THEN IF InSync(r) \/ InConfirm(r)
                                     THEN [req[r] EXCEPT !.pc = "answer", !.row = NoRow, !.stale = FALSE]
                                     ELSE Idle
                       ELSE IF req[q].row # NoRow /\ req[q].uid = u
                            THEN [req[q] EXCEPT !.stale = TRUE]
                            ELSE req[q]]
  <2>1. Accounts' = Accounts /\ users' \in [Accounts -> Row] /\ users'[u] = req[r].row /\ Replaces(u)
    BY <1>0, <1>2, <1>4 DEF TableInv, Accounts, Replaces, Save
  <2>2. TableInv'
    BY <1>0, <2>1 DEF Save, TableInv, Numbered, AutoLinkedOnlyIfRaced, LinksAreOfAccounts, LinkedOnce
  <2>3. PICK new : new = req'[r]
    OBVIOUS
  <2>4. new \in Request /\ RequestOK(new) /\ ~HasCopy(new)
    <3>1. CASE new = Idle
      BY <3>1, IdleOK
    <3>2. CASE /\ new = [req[r] EXCEPT !.pc = "answer", !.row = NoRow, !.stale = FALSE]
               /\ InSync(r) \/ InConfirm(r)
      BY <1>0, <1>1, <1>2, <3>2 DEF InSync, InConfirm, Request, States, RequestOK, CarriesClaims, KnowsAccount,
         IsLinked, LinksOwnAccount, CopiesInTime, CopyIsFresh, HasCopy, PastItsLink, SignIn, Sync
    <3> QED
      BY <1>4, <2>3, <3>1, <3>2
  <2>5. new \in Request' /\ RequestOK(new)'
    BY <2>1, <2>4, OvertakenOK
  <2>6. RequestOK(req[r])' /\ ~HasCopy(req[r])'
    BY <2>3, <2>4, <2>5 DEF RequestOK, CarriesClaims, KnowsAccount, IsLinked, LinksOwnAccount, CopiesInTime,
       CopyIsFresh, HasCopy, PastItsLink, SignIn, Sync, Preserves
  <2>7. ASSUME NEW q \in Requests, q # r
        PROVE  /\ req'[q] \in Request' /\ RequestOK(req[q])'
               /\ req'[q].pc = req[q].pc /\ req'[q].flow = req[q].flow
               /\ req'[q].uid = req[q].uid /\ req'[q].row = req[q].row
    <3>1. PICK old : old = req[q]
      OBVIOUS
    <3>2. PICK now : now = req'[q]
      OBVIOUS
    <3>3. old \in Request /\ RequestOK(old)
      BY <1>0, <3>1, InvSplit
    <3>4. /\ now \in Request /\ RequestOK(now) /\ (~HasCopy(now) \/ now.uid # u \/ now.stale)
          /\ now.pc = old.pc /\ now.flow = old.flow /\ now.uid = old.uid /\ now.row = old.row
      <4>1. CASE HasCopy(old) /\ old.uid = u
        <5>1. now = [old EXCEPT !.stale = TRUE]
          BY <1>4, <2>7, <3>1, <3>2, <4>1 DEF HasCopy
        <5> QED
          BY <3>3, <5>1, StaleOK
      <4>2. CASE ~(HasCopy(old) /\ old.uid = u)
        <5>1. now = old
          BY <1>4, <2>7, <3>1, <3>2, <4>2 DEF HasCopy
        <5> QED
          BY <3>3, <4>2, <5>1
      <4> QED
        BY <4>1, <4>2
    <3>5. now \in Request' /\ RequestOK(now)'
      BY <2>1, <3>4, OvertakenOK
    <3>6. RequestOK(req[q])'
      BY <3>2, <3>5 DEF RequestOK, CarriesClaims, KnowsAccount, IsLinked, LinksOwnAccount, CopiesInTime,
         CopyIsFresh, HasCopy, PastItsLink, SignIn, Sync, Preserves
    <3> QED
      BY <3>1, <3>2, <3>4, <3>5, <3>6
  <2>8. ASSUME NEW v, Linkable(v) PROVE Linkable(v)'
    <3>1. CASE (\E i \in identities : i.uid = v) \/ v \in abandoned
      BY <2>1, <3>1 DEF Linkable, Replaces
    <3>2. CASE \E q \in Requests : Linking(req[q]) /\ req[q].uid = v
      <4>1. PICK q \in Requests : Linking(req[q]) /\ req[q].uid = v
        BY <3>2
      <4>2. q # r
        BY <1>2, <4>1
      <4> QED
        BY <2>7, <4>1, <4>2 DEF Linkable, Linking, Sync
    <3> QED
      BY <2>8, <3>1, <3>2 DEF Linkable
  <2>9. RowsCanSignIn'
    <3> SUFFICES ASSUME NEW v \in Accounts' PROVE Passwordless(users[v], v)'
      BY DEF RowsCanSignIn
    <3>1. Passwordless(users'[v], v)
      <4>1. CASE v = u
        BY <1>1, <1>2, <2>1, <4>1, InvSplit DEF CopiesCanSignIn
      <4>2. CASE v # u
        BY <2>1, <4>2, InvSplit DEF RowsCanSignIn, Replaces
      <4> QED
        BY <4>1, <4>2
    <3> QED
      BY <2>8, <3>1 DEF Passwordless
  <2>10. CopiesCanSignIn'
    <3> SUFFICES ASSUME NEW q \in Requests, HasCopy(req[q])' PROVE Passwordless(req[q].row, req[q].uid)'
      BY DEF CopiesCanSignIn
    <3>1. req'[q].row = req[q].row /\ req'[q].uid = req[q].uid /\ HasCopy(req[q])
      BY <2>6, <2>7 DEF HasCopy
    <3>2. Passwordless(req[q].row, req[q].uid)
      BY <3>1, InvSplit DEF CopiesCanSignIn
    <3> QED
      BY <2>8, <3>1, <3>2 DEF Passwordless
  <2>11. req' \in [Requests -> Request'] /\ \A q \in Requests : RequestOK(req[q])'
    <3>1. \A q \in Requests : req'[q] \in Request' /\ RequestOK(req[q])'
      BY <2>3, <2>5, <2>6, <2>7
    <3>2. req' = [q \in Requests |-> req'[q]]
      BY <1>4
    <3> QED
      BY <3>1, <3>2
  <2> QED
    BY <2>2, <2>9, <2>10, <2>11, InvSplitNext
<1> QED
  BY <1>1, <1>3, <1>4 DEF Save

LEMMA InvNext == IInv /\ [Next]_vars => IInv'
<1> SUFFICES ASSUME IInv, [Next]_vars PROVE IInv'
  OBVIOUS
<1>1. ASSUME NEW k \in SignUps, Register(k[1], k[2]) PROVE IInv'
  <2>1. k = <<k[1], k[2]>>
    OBVIOUS
  <2> QED
    BY <1>1, <2>1, RegisterStep
<1>2. ASSUME NEW r \in Requests, Dies(r) \/ Answer(r) PROVE IInv'
  BY <1>2, EndingSteps
<1>3. ASSUME NEW r \in Requests, Save(r) PROVE IInv'
  BY <1>3, SaveStep
<1>4. ASSUME NEW r \in Requests, NEW k \in Claims, SyncFind(r, k[1], k[2]) PROVE IInv'
  <2>1. k = <<k[1], k[2]>>
    OBVIOUS
  <2> QED
    BY <1>4, <2>1, SyncFindStep
<1>5. ASSUME NEW r \in Requests, \/ SyncProfile(r) \/ SyncByEmail(r) \/ SyncCreate(r) \/ SyncFallback(r)
                                 \/ SyncIdentity(r) \/ SyncExisting(r)
      PROVE  IInv'
  BY <1>5, SyncProfileStep, SyncByEmailStep, SyncCreateStep, SyncFallbackStep, SyncIdentityStep, SyncExistingStep
<1>6. ASSUME NEW r \in Requests, \/ \E p \in pending : ConfirmFind(r, p)
                                 \/ ConfirmLink(r) \/ ConfirmExisting(r) \/ ConfirmVerify(r)
      PROVE  IInv'
  BY <1>6, ConfirmFindStep, ConfirmLinkStep, ConfirmExistingStep, ConfirmVerifyStep
<1>7. ASSUME NEW r \in Requests, NEW u \in Accounts,
             (\E p \in Passwords : SetPasswordFind(r, u, p)) \/ UpdateProfileFind(r, u) \/ VerifyEmailFind(r, u)
      PROVE  IInv'
  BY <1>7, FindSteps
<1>8. CASE UNCHANGED vars
  <2>1. TableInv' <=> TableInv
    BY <1>8 DEF vars, TableInv, Numbered, Accounts, AutoLinkedOnlyIfRaced, LinksAreOfAccounts, LinkedOnce
  <2>2. RowsCanSignIn' /\ CopiesCanSignIn'
    BY <1>8, InvSplit DEF vars, RowsCanSignIn, CopiesCanSignIn, HasCopy, Passwordless, Linkable, Linking, Sync, Accounts
  <2>3. req' \in [Requests -> Request'] /\ \A r \in Requests : RequestOK(req[r])'
    BY <1>8, InvSplit DEF vars, Accounts, Request, RequestOK, CarriesClaims, KnowsAccount, IsLinked, LinksOwnAccount,
       CopiesInTime, CopyIsFresh, HasCopy, PastItsLink, SignIn, Sync, Preserves
  <2> QED
    BY <2>1, <2>2, <2>3, InvSplit, InvSplitNext
<1> QED
  BY <1>1, <1>2, <1>3, <1>4, <1>5, <1>6, <1>7, <1>8 DEF Next

LEMMA Invariant == Spec => []IInv
  BY InvInit, InvNext, PTL DEF Spec

-----------------------------------------------------------------------------
\* Type correctness: every variable keeps its type; in particular the accounts
\* a request, a link or a mark of the history names exist.
THEOREM LinkingTyped == Spec => []TypeOK
<1>1. IInv => TypeOK
  BY DEF IInv
<1> QED
  BY <1>1, Invariant, PTL

\* Whichever path SyncAuth0User and ConfirmAccountLink take through the refused
\* inserts of others, they answer with the account the subject is linked to.
THEOREM AnswersAreLinked == Spec => []AnswerIsLinked
<1>1. IInv => AnswerIsLinked
  BY DEF IInv
<1> QED
  BY <1>1, Invariant, PTL

\* So two sign-ins with one subject that are answered at one time are answered
\* with one account, by the unique index on the subject.
OneAccountPerSubject ==
  \A r, q \in Requests :
    req[r].pc = "answer" /\ req[q].pc = "answer" /\ req[r].sub = req[q].sub => req[r].uid = req[q].uid

THEOREM SubjectsHaveOneAccount == Spec => []OneAccountPerSubject
<1>1. IInv => OneAccountPerSubject
  <2> SUFFICES ASSUME IInv, NEW r \in Requests, NEW q \in Requests,
                      req[r].pc = "answer", req[q].pc = "answer", req[r].sub = req[q].sub
               PROVE  req[r].uid = req[q].uid
    BY DEF OneAccountPerSubject
  <2>1. LinkedOnce /\ AnswerIsLinked
    BY DEF IInv
  <2>2. PICK i \in identities : i.sub = req[r].sub /\ i.uid = req[r].uid
    BY <2>1 DEF AnswerIsLinked, LinkOf
  <2>3. PICK j \in identities : j.sub = req[q].sub /\ j.uid = req[q].uid
    BY <2>1 DEF AnswerIsLinked, LinkOf
  <2>4. i = j
    BY <2>1, <2>2, <2>3 DEF LinkedOnce
  <2> QED
    BY <2>2, <2>3, <2>4
<1> QED
  BY <1>1, Invariant, PTL

\* An account of Register gets a link without consent only in the race of
\* SyncAuth0User's FindByEmail with its Create, where the fallback takes it.
THEOREM AutoLinkNeedsRace == Spec => []AutoLinkedOnlyIfRaced
<1>1. IInv => AutoLinkedOnlyIfRaced
  BY DEF IInv
<1> QED
  BY <1>1, Invariant, PTL

\* An account without a password is verified, and linked or being linked, unless
\* the first login that created it ended before it had linked it: accounts that
\* nobody can sign into come from there only, not from the Save of a stale row.
THEOREM PasswordlessStayReachable == Spec => []PasswordlessCanSignIn
<1>1. IInv => PasswordlessCanSignIn
  BY DEF IInv
<1> QED
  BY <1>1, Invariant, PTL

\* The Save of a copy that no other Save has overtaken loses no credential.
THEOREM CredentialsStay == Spec => CredentialsStayUnlessStale
<1> DEFINE Step == \A u \in Accounts :
      \/ /\ users[u].hash # NoPassword => users'[u].hash = users[u].hash
         /\ users[u].verified => users'[u].verified
      \/ \E r \in Requests : req[r].pc = "save" /\ req[r].uid = u /\ req[r].stale /\ req'[r].pc # "save"
<1>1. IInv /\ Next => Step \/ UNCHANGED users
  <2> SUFFICES ASSUME IInv, Next, users' # users PROVE Step
    OBVIOUS
  <2>0. TableInv
    BY InvSplit
  <2>1. \/ \E k \in SignUps : Register(k[1], k[2])
        \/ \E r \in Requests : SyncCreate(r) \/ Save(r)
    BY Zenon
    DEF Next, Dies, Answer, SyncFind, SyncProfile, SyncByEmail, SyncFallback, SyncIdentity, SyncExisting,
       ConfirmFind, ConfirmLink, ConfirmExisting, ConfirmVerify, SetPasswordFind, UpdateProfileFind, VerifyEmailFind
  <2>2. ASSUME NEW row, NewAccount(row) PROVE Step
    <3>1. Accounts = 1..Cardinality(Accounts) /\ Cardinality(Accounts) \in Nat
      BY <2>0, CountedAccounts DEF TableInv
    <3>2. \A u \in Accounts : users'[u] = users[u]
      BY <2>2, <3>1 DEF NewAccount
    <3> QED
      BY <3>2
  <2>3. ASSUME NEW r \in Requests, Save(r) PROVE Step
    <3>1. PICK u : u = req[r].uid
      OBVIOUS
    <3>2. /\ req[r].pc = "save" /\ users' = [users EXCEPT ![u] = req[r].row]
          /\ req'[r] = Idle \/ req'[r] = [req[r] EXCEPT !.pc = "answer", !.row = NoRow, !.stale = FALSE]
      BY <2>3, <3>1 DEF Save
    <3>3. req[r] \in Request /\ RequestOK(req[r])
      BY InvSplit
    <3>4. u \in Accounts /\ users'[u] = req[r].row /\ \A v \in Accounts \ {u} : users'[v] = users[v]
      BY <2>0, <3>1, <3>2, <3>3 DEF TableInv, RequestOK, KnowsAccount, Accounts
    <3>5. req'[r].pc # "save"
      <4>1. PICK old \in Request : old = req[r]
        BY <3>3
      <4>2. [old EXCEPT !.pc = "answer", !.row = NoRow, !.stale = FALSE].pc # "save"
        BY DEF Request
      <4>3. CASE req'[r] = Idle
        BY <4>3 DEF Idle
      <4>4. CASE req'[r] = [req[r] EXCEPT !.pc = "answer", !.row = NoRow, !.stale = FALSE]
        BY <4>1, <4>2, <4>4
      <4> QED
        BY <3>2, <4>3, <4>4
    <3>6. CASE req[r].stale
      BY <3>1, <3>2, <3>4, <3>5, <3>6
    <3>7. CASE ~req[r].stale
      <4>1. Preserves(users[u], users'[u])
        BY <3>1, <3>2, <3>3, <3>4, <3>7 DEF RequestOK, CopiesInTime, CopyIsFresh
      <4> QED
        BY <3>4, <4>1 DEF Preserves
    <3> QED
      BY <3>6, <3>7
  <2> QED
    BY <2>1, <2>2, <2>3 DEF Register, SyncCreate
<1>2. IInv /\ [Next]_vars => [Step]_users
  BY <1>1 DEF vars
<1> QED
  BY <1>2, Invariant, PTL DEF Spec, CredentialsStayUnlessStale
=============================================================================
