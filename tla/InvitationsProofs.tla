-------------------------- MODULE InvitationsProofs -------------------------
(***************************************************************************)
(* The safety of Invitations for any number of requests, users, rows and   *)
(* tokens, whatever order the random ids of the rows come in, and however  *)
(* often the workspace is deleted and put back by a rename.                *)
(***************************************************************************)
EXTENDS Invitations, WellFoundedInduction, TLAPS

USE InvitationAssumption DEF workspace

Request == [pc : States, id : Ids \cup {0}, row : Row \cup {NoRow}, by : SUBSET Users]

\* Why the invariants below are inductive.  A request at work has a row with a
\* token that was generated; one whose transaction can only commit has mailed
\* it, and holds off the deletion.
Writing(q) == q.pc \in {"create", "update", "commitCreate", "commitUpdate"}
Committing(q) == q.pc \in {"commitCreate", "commitUpdate"}
HasRow(q) == q.pc \notin {"idle", "find"} => q.row \in Row
TokenIsIssued(q) == Writing(q) => q.row.token \in Tokens
CommitIsMailed(q) == Committing(q) => alive /\ <<q.row.token, q.row.email>> \in mails

\* An id that was read stands for the same address ever after: in the row, if
\* it is there or is put back, and in what others have read; and a
\* member-to-be accepts for that address only.
HasRead(q) == q.pc \in {"update", "commitUpdate", "member", "accept"}
ReadIsSame(q) ==
  HasRead(q) => q.id \in Ids /\ (q.id \in DOMAIN rows => rows[q.id].email = q.row.email)
Agree(q, p) == HasRead(q) /\ HasRead(p) /\ q.id = p.id => q.row.email = p.row.email
AcceptsOwn(q) == q.pc \in {"member", "accept"} => q.by = {q.row.email}

RequestOK(q) == HasRow(q) /\ TokenIsIssued(q) /\ CommitIsMailed(q) /\ ReadIsSame(q) /\ AcceptsOwn(q)

IInv == /\ TypeOK /\ LiveIsMailed /\ MemberUsedUp
        /\ \A r \in Requests : RequestOK(req[r])
        /\ \A r, s \in Requests : Agree(req[r], req[s])

\* IInv, the requests apart.
TableInv ==
  /\ DOMAIN rows \subseteq Ids /\ rows \in [DOMAIN rows -> Row]
  /\ members \subseteq Users /\ reopened \subseteq Users /\ admin \in BOOLEAN /\ alive \in BOOLEAN
  /\ issued \in 0..MaxTokens /\ mails \subseteq Tokens \X Users
  /\ ~alive => DOMAIN rows = {} /\ members = {}
  /\ LiveIsMailed /\ MemberUsedUp

LEMMA InvSplit ==
  IInv <=> /\ TableInv /\ req \in [Requests -> Request]
           /\ \A r \in Requests : RequestOK(req[r])
           /\ \A r, s \in Requests : Agree(req[r], req[s])
  BY DEF IInv, TableInv, TypeOK, Request

LEMMA InvSplitNext ==
  IInv' <=> /\ TableInv' /\ req' \in [Requests -> Request]
            /\ \A r \in Requests : RequestOK(req[r])'
            /\ \A r, s \in Requests : Agree(req[r], req[s])'
  BY DEF IInv, TableInv, TypeOK, Request

-----------------------------------------------------------------------------
\* Lemmas about the operators.  First picks a member of the set: the natural
\* numbers are well ordered, and the ids of rows are natural numbers.
LEMMA FirstIsMember ==
  ASSUME NEW S \in SUBSET Nat, S # {}
  PROVE  First(S) \in S /\ \A j \in S : First(S) <= j
<1>1. PICK x \in S : \A y \in S : ~ (<<y, x>> \in OpToRel(<, Nat))
  BY NatLessThanWellFounded, WFMin
<1>2. \A y \in S : ~ (y < x)
  BY <1>1, Zenon DEF OpToRel
<1>3. \A y \in S : x <= y
  BY <1>2
<1> QED
  BY <1>3 DEF First

LEMMA FirstRow ==
  ASSUME TableInv, NEW e, RowsOf(e) # {}
  PROVE  First(RowsOf(e)) \in DOMAIN rows /\ rows[First(RowsOf(e))].email = e
<1>1. RowsOf(e) \in SUBSET Nat
  BY DEF RowsOf, TableInv, Ids
<1> QED
  BY <1>1, FirstIsMember DEF RowsOf

LEMMA IdleOK == Idle \in Request /\ RequestOK(Idle) /\ RequestOK(Idle)' /\ ~HasRead(Idle)
  BY DEF Idle, Request, RequestOK, HasRow, TokenIsIssued, CommitIsMailed, ReadIsSame, AcceptsOwn,
     Writing, Committing, HasRead, States

\* What is in order for a request stays so while tokens and mails only grow,
\* what it has read does not change under it, and the workspace of an open
\* transaction is not deleted.
LEMMA StaysOK ==
  ASSUME NEW q, RequestOK(q), issued \in Nat, issued' \in Nat, issued <= issued',
         Committing(q) => alive', mails \subseteq mails',
         HasRead(q) /\ q.id \in DOMAIN rows' => rows'[q.id].email = q.row.email
  PROVE  RequestOK(q)'
  BY DEF RequestOK, HasRow, TokenIsIssued, CommitIsMailed, ReadIsSame, AcceptsOwn, Writing, Committing,
     HasRead, Tokens, Row, Ids

\* What every step but the deletion does.
RowsFit == \A q \in Requests : HasRead(req[q]) /\ req[q].id \in DOMAIN rows' =>
                                rows'[req[q].id].email = req[q].row.email
Keeps == /\ alive => alive'
         /\ issued <= issued' /\ mails \subseteq mails'
         /\ RowsFit

LEMMA SameRowsFit ==
  ASSUME IInv, DOMAIN rows' \subseteq DOMAIN rows, \A i \in DOMAIN rows' : rows'[i].email = rows[i].email
  PROVE  RowsFit
  BY InvSplit DEF RowsFit, RequestOK, ReadIsSame

\* The step of one request, in which it becomes new.
LEMMA RequestStep ==
  ASSUME IInv, NEW r \in Requests, NEW new \in Request, req' = [req EXCEPT ![r] = new],
         TableInv', RequestOK(new)', Keeps, \A q \in Requests : Agree(new, req[q])
  PROVE  IInv'
<1>1. req' \in [Requests -> Request]
  BY InvSplit
<1>2. issued \in Nat /\ issued' \in Nat
  BY InvSplit, InvSplitNext DEF TableInv
<1>3. ASSUME NEW q \in Requests PROVE RequestOK(req[q])'
  <2>1. CASE q = r
    <3>1. req'[q] = new
      BY <2>1, InvSplit
    <3> QED
      BY <3>1 DEF RequestOK, HasRow, TokenIsIssued, CommitIsMailed, ReadIsSame, AcceptsOwn, Writing, Committing,
     HasRead
  <2>2. CASE q # r
    <3>1. req'[q] = req[q] /\ RequestOK(req[q])
      BY <2>2, InvSplit
    <3>2. /\ Committing(req[q]) => alive'
          /\ HasRead(req[q]) /\ req[q].id \in DOMAIN rows' => rows'[req[q].id].email = req[q].row.email
      BY <3>1 DEF RequestOK, CommitIsMailed, Keeps, RowsFit
    <3>3. PICK old : old = req[q]
      OBVIOUS
    <3>4. /\ RequestOK(old) /\ (Committing(old) => alive')
          /\ HasRead(old) /\ old.id \in DOMAIN rows' => rows'[old.id].email = old.row.email
      BY <3>1, <3>2, <3>3
    <3>5. RequestOK(old)'
      BY <1>2, <3>4, StaysOK DEF Keeps
    <3> QED
      BY <3>1, <3>3, <3>5 DEF RequestOK, HasRow, TokenIsIssued, CommitIsMailed, ReadIsSame, AcceptsOwn,
         Writing, Committing, HasRead
  <2> QED
    BY <2>1, <2>2
<1>4. ASSUME NEW p \in Requests, NEW q \in Requests PROVE Agree(req[p], req[q])'
  <2>1. \A x \in Requests : req'[x] = IF x = r THEN new ELSE req[x]
    BY InvSplit
  <2>2. Agree(req[p], req[q]) /\ Agree(new, req[p]) /\ Agree(new, req[q])
    BY InvSplit
  <2> QED
    BY <2>1, <2>2 DEF Agree, HasRead
<1> QED
  BY <1>1, <1>3, <1>4, InvSplitNext

\* A request that has read nothing agrees with all others, and one that only
\* moves on agrees with whom it agreed with.
LEMMA NewAgrees ==
  ASSUME IInv, NEW r \in Requests, NEW new,
         \/ ~HasRead(new)
         \/ HasRead(req[r]) /\ new.id = req[r].id /\ new.row = req[r].row
         \/ new.id \in DOMAIN rows /\ rows[new.id].email = new.row.email
  PROVE  \A q \in Requests : Agree(new, req[q])
<1> SUFFICES ASSUME NEW q \in Requests PROVE Agree(new, req[q])
  OBVIOUS
<1>1. Agree(req[r], req[q]) /\ RequestOK(req[q])
  BY InvSplit
<1> QED
  BY <1>1 DEF Agree, RequestOK, ReadIsSame

-----------------------------------------------------------------------------
\* IInv is inductive.
LEMMA InvInit == Init => IInv
<1> SUFFICES ASSUME Init PROVE IInv
  OBVIOUS
<1>1. TableInv
  BY DEF Init, TableInv, LiveIsMailed, MemberUsedUp, Tokens
<1>2. req \in [Requests -> Request] /\ \A r \in Requests : RequestOK(req[r])
  BY IdleOK DEF Init
<1>3. \A r, s \in Requests : Agree(req[r], req[s])
  BY IdleOK DEF Init, Agree
<1> QED
  BY <1>1, <1>2, <1>3, InvSplit

\* The tables when rows, members and the workspace are left alone.
LEMMA MailStep ==
  ASSUME TableInv, UNCHANGED <<rows, members, workspace, reopened>>,
         issued' \in 0..MaxTokens, issued <= issued',
         mails \subseteq mails', mails' \subseteq Tokens \X Users
  PROVE  TableInv'
<1>1. mails' \subseteq Tokens' \X Users
  BY DEF TableInv, Tokens
<1>2. LiveIsMailed' /\ MemberUsedUp'
  BY DEF TableInv, LiveIsMailed, MemberUsedUp, RowsOf
<1> QED
  BY <1>1, <1>2 DEF TableInv

LEMMA EndsStep ==
  ASSUME IInv, NEW r \in Requests, Ends(r), UNCHANGED <<rows, members, workspace, issued, mails, reopened>>
  PROVE  IInv'
<1>0. TableInv /\ issued \in 0..MaxTokens /\ issued \in Nat /\ mails \subseteq Tokens \X Users
  BY InvSplit DEF TableInv
<1>1. TableInv'
  BY <1>0, MailStep
<1>2. Keeps
  BY <1>0, SameRowsFit DEF Keeps
<1>3. \A q \in Requests : Agree(Idle, req[q])
  BY IdleOK, NewAgrees
<1> QED
  BY <1>1, <1>2, <1>3, RequestStep, IdleOK DEF Ends

LEMMA GotoStep ==
  ASSUME IInv, NEW r \in Requests, NEW s \in States, Goto(r, s), TableInv',
         UNCHANGED <<rows, workspace, issued>>, mails \subseteq mails',
         NEW new, new = [req[r] EXCEPT !.pc = s], RequestOK(new)',
         HasRead(new) => HasRead(req[r])
  PROVE  IInv'
<1>0. issued \in Nat
  BY InvSplit DEF TableInv
<1>1. new \in Request /\ req' = [req EXCEPT ![r] = new]
  BY InvSplit DEF Request, Goto
<1>2. Keeps
  BY <1>0, SameRowsFit DEF Keeps
<1>3. new.id = req[r].id /\ new.row = req[r].row
  BY InvSplit DEF Request
<1>4. \A q \in Requests : Agree(new, req[q])
  BY <1>3, NewAgrees
<1> QED
  BY <1>1, <1>2, <1>4, RequestStep

\* The role check of Invite and ResendInvitation.
LEMMA RoleStep ==
  ASSUME IInv, NEW r \in Requests, GetRole(r)
  PROVE  IInv'
<1>0. TableInv /\ issued \in 0..MaxTokens /\ issued \in Nat /\ mails \subseteq Tokens \X Users
  BY InvSplit DEF TableInv
<1>1. TableInv'
  BY <1>0, MailStep DEF GetRole
<1>2. PICK new : new = [req[r] EXCEPT !.pc = "find"]
  OBVIOUS
<1>3. new.pc = "find" /\ "find" \in States
  BY <1>2, InvSplit DEF Request, States
<1>4. RequestOK(new)' /\ ~HasRead(new)
  BY <1>3 DEF RequestOK, HasRow, TokenIsIssued, CommitIsMailed, ReadIsSame, AcceptsOwn, Writing, Committing,
     HasRead
<1> QED
  BY <1>1, <1>2, <1>3, <1>4, GotoStep DEF GetRole

\* Invite and ResendInvitation, their checks passed, generate a token.
LEMMA FindSteps ==
  ASSUME IInv, NEW r \in Requests, NEW e \in Users, InviteFind(r, e) \/ ResendFind(r, e)
  PROVE  IInv'
<1>0. /\ TableInv /\ issued \in Nat /\ MaxTokens \in Nat
      /\ issued' = issued + 1 /\ issued' \in 0..MaxTokens /\ issued' \in 1..MaxTokens
      /\ UNCHANGED <<rows, members, workspace, mails, reopened>>
  BY InvSplit DEF InviteFind, ResendFind, TableInv
<1>1. TableInv'
  BY <1>0, MailStep DEF TableInv
<1> DEFINE Written(s, i, row) == [pc |-> s, id |-> i, row |-> row, by |-> {}]
<1>2. ASSUME NEW row \in Row, row.token = issued',
             \/ /\ req' = [req EXCEPT ![r] = Written("create", 0, row)]
             \/ \E i \in DOMAIN rows : /\ req' = [req EXCEPT ![r] = Written("update", i, row)]
                                       /\ rows[i].email = row.email
      PROVE  IInv'
  <2>1. PICK s \in {"create", "update"}, i \in Ids \cup {0} :
           /\ req' = [req EXCEPT ![r] = Written(s, i, row)]
           /\ s = "update" => i \in DOMAIN rows /\ rows[i].email = row.email
    BY <1>0, <1>2 DEF TableInv
  <2>0. PICK new : new = Written(s, i, row)
    OBVIOUS
  <2>2. new \in Request /\ new.pc = s /\ new.id = i /\ new.row = row
    BY <2>0 DEF Request, States
  <2>3. req' = [req EXCEPT ![r] = new]
    BY <2>0, <2>1
  <2>4. s = "update" => i \in Ids
    BY <1>0, <2>1 DEF TableInv
  <2>5. RequestOK(new)'
    BY <1>0, <1>2, <2>1, <2>2, <2>4 DEF RequestOK, HasRow, TokenIsIssued, CommitIsMailed, ReadIsSame,
       AcceptsOwn, Writing, Committing, HasRead, Tokens
  <2>6. Keeps
    BY <1>0, SameRowsFit DEF Keeps
  <2>7. \A q \in Requests : Agree(new, req[q])
    <3>1. ~HasRead(new) \/ (new.id \in DOMAIN rows /\ rows[new.id].email = new.row.email)
      BY <2>1, <2>2 DEF HasRead
    <3> QED
      BY <3>1, NewAgrees
  <2> QED
    BY <1>1, <2>2, <2>3, <2>5, <2>6, <2>7, RequestStep
<1>3. Fresh(e) \in Row /\ Fresh(e).token = issued'
  BY <1>0 DEF Fresh, Row
<1>4. CASE InviteFind(r, e) \/ (ResendFind(r, e) /\ RowsOf(e) = {})
  BY <1>2, <1>3, <1>4 DEF InviteFind, ResendFind, Starts
<1>5. CASE ResendFind(r, e) /\ RowsOf(e) # {}
  <2> DEFINE i == First(RowsOf(e))
  <2> DEFINE row == [rows[i] EXCEPT !.token = issued', !.late = FALSE]
  <2>1. i \in DOMAIN rows /\ rows[i] \in Row
    BY <1>0, <1>5, FirstRow DEF TableInv
  <2>2. row \in Row /\ row.token = issued' /\ row.email = rows[i].email
    BY <1>0, <2>1 DEF Row
  <2>3. req' = [req EXCEPT ![r] = Written("update", i, row)]
    BY <1>5 DEF ResendFind, Starts
  <2> QED
    BY <1>2, <2>1, <2>2, <2>3
<1> QED
  BY <1>4, <1>5

\* The transaction of an invitation up to its commit.
LEMMA SendSteps ==
  ASSUME IInv, NEW r \in Requests, SendMail(r) \/ SendMailFails(r)
  PROVE  IInv'
<1> DEFINE mail == <<req[r].row.token, req[r].row.email>>
<1>0. TableInv /\ req[r] \in Request /\ RequestOK(req[r]) /\ Writing(req[r])
  BY InvSplit DEF SendMail, SendMailFails, Writing
<1>1. req[r].row \in Row /\ mail \in Tokens \X Users
  BY <1>0 DEF RequestOK, HasRow, TokenIsIssued, Writing, Row
<1>2. mails \subseteq mails' /\ mails' \subseteq Tokens \X Users
  BY <1>0, <1>1 DEF SendMail, SendMailFails, TableInv
<1>3. UNCHANGED <<rows, members, workspace, issued, reopened>> /\ issued \in 0..MaxTokens
  BY <1>0 DEF SendMail, SendMailFails, TableInv
<1>4. TableInv'
  BY <1>0, <1>2, <1>3, MailStep
<1>5. CASE SendMail(r)
  <2>3. PICK s : s = IF req[r].pc = "create" THEN "commitCreate" ELSE "commitUpdate"
    OBVIOUS
  <2>4. PICK new : new = [req[r] EXCEPT !.pc = s]
    OBVIOUS
  <2>0. req[r].pc \in {"create", "update"} /\ Goto(r, s) /\ alive /\ mail \in mails'
    BY <1>5, <2>3 DEF SendMail
  <2>1. /\ s \in States /\ new.pc = s /\ new.row = req[r].row /\ new.id = req[r].id
        /\ s = "commitUpdate" => req[r].pc = "update"
        /\ s \in {"commitCreate", "commitUpdate"}
    BY <1>0, <2>0, <2>3, <2>4 DEF Request, States
  <2>2. RequestOK(new)'
    BY <1>0, <1>1, <1>3, <2>0, <2>1 DEF RequestOK, HasRow, TokenIsIssued, CommitIsMailed, ReadIsSame,
       AcceptsOwn, Writing, Committing, HasRead, Tokens
  <2>5. HasRead(new) => HasRead(req[r])
    BY <2>1 DEF HasRead
  <2> QED
    BY <1>2, <1>3, <1>4, <2>0, <2>1, <2>2, <2>4, <2>5, GotoStep
<1>6. CASE SendMailFails(r)
  <2>1. Keeps
    BY <1>2, <1>3, SameRowsFit DEF Keeps
  <2>2. \A q \in Requests : Agree(Idle, req[q])
    BY IdleOK, NewAgrees
  <2> QED
    BY <1>4, <1>6, <2>1, <2>2, RequestStep, IdleOK DEF SendMailFails, Ends
<1> QED
  BY <1>5, <1>6

\* The commits.  A row that is put into the table is in the mailbox; one that
\* is overwritten keeps its address, and was used or is no member's proof.
LEMMA CommitCreateStep ==
  ASSUME IInv, NEW r \in Requests, CommitCreate(r)
  PROVE  IInv'
<1>0. TableInv /\ req[r] \in Request /\ RequestOK(req[r]) /\ req[r].pc = "commitCreate"
  BY InvSplit DEF CommitCreate
<1>1. PICK i \in Ids \ (DOMAIN rows \cup {req[q].id : q \in Requests}) :
         rows' = [j \in DOMAIN rows \cup {i} |-> IF j = i THEN req[r].row ELSE rows[j]]
  BY DEF CommitCreate
<1>2. req[r].row \in Row /\ alive /\ <<req[r].row.token, req[r].row.email>> \in mails
  BY <1>0 DEF RequestOK, HasRow, CommitIsMailed, Committing
<1>3. /\ DOMAIN rows' = DOMAIN rows \cup {i} /\ rows'[i] = req[r].row
      /\ \A j \in DOMAIN rows : rows'[j] = rows[j]
  BY <1>1
<1>4. UNCHANGED <<members, workspace, issued, mails, reopened>>
  BY DEF CommitCreate
<1>5. rows' \in [DOMAIN rows' -> Row] /\ DOMAIN rows' \subseteq Ids
  BY <1>0, <1>1, <1>2 DEF TableInv
<1>6. LiveIsMailed'
  BY <1>0, <1>2, <1>3, <1>4 DEF TableInv, LiveIsMailed
<1>7. MemberUsedUp'
  BY <1>0, <1>3, <1>4 DEF TableInv, MemberUsedUp, RowsOf
<1>8. TableInv'
  BY <1>0, <1>2, <1>4, <1>5, <1>6, <1>7 DEF TableInv, Tokens
<1>9. RowsFit
  <2> SUFFICES ASSUME NEW q \in Requests, HasRead(req[q]), req[q].id \in DOMAIN rows'
               PROVE  rows'[req[q].id].email = req[q].row.email
    BY DEF RowsFit
  <2>1. req[q].id \in DOMAIN rows
    BY <1>1, <1>3
  <2> QED
    BY <1>3, <2>1, InvSplit DEF RequestOK, ReadIsSame
<1>10. Keeps
  BY <1>0, <1>4, <1>9 DEF Keeps, TableInv
<1>11. \A q \in Requests : Agree(Idle, req[q])
  BY IdleOK, NewAgrees
<1> QED
  BY <1>8, <1>10, <1>11, RequestStep, IdleOK DEF CommitCreate, Ends

LEMMA CommitUpdateStep ==
  ASSUME IInv, NEW r \in Requests, CommitUpdate(r)
  PROVE  IInv'
<1>0. TableInv /\ req[r] \in Request /\ RequestOK(req[r]) /\ req[r].pc = "commitUpdate"
  BY InvSplit DEF CommitUpdate
<1> DEFINE i == req[r].id
<1>2. req[r].row \in Row /\ alive /\ <<req[r].row.token, req[r].row.email>> \in mails
  BY <1>0 DEF RequestOK, HasRow, CommitIsMailed, Committing
<1>3. i \in Ids /\ (i \in DOMAIN rows => rows[i].email = req[r].row.email)
  BY <1>0 DEF RequestOK, ReadIsSame, HasRead
<1>4. /\ UNCHANGED <<members, workspace, issued, mails>>
      /\ rows' = [j \in DOMAIN rows \cup {i} |-> IF j = i THEN req[r].row ELSE rows[j]]
  BY DEF CommitUpdate
<1>5. /\ DOMAIN rows' = DOMAIN rows \cup {i} /\ rows'[i] = req[r].row
      /\ \A j \in DOMAIN rows \ {i} : rows'[j] = rows[j]
  BY <1>4
<1>6. /\ reopened \subseteq reopened' /\ reopened' \subseteq reopened \cup {req[r].row.email}
      /\ i \in DOMAIN rows /\ rows[i].used => rows[i].email \in reopened'
  BY <1>3 DEF CommitUpdate
<1> HIDE DEF i
<1>7. rows' \in [DOMAIN rows' -> Row] /\ DOMAIN rows' \subseteq Ids /\ reopened' \subseteq Users
  BY <1>0, <1>2, <1>3, <1>4, <1>6 DEF TableInv, Row
<1>8. LiveIsMailed'
  BY <1>0, <1>2, <1>4, <1>5 DEF TableInv, LiveIsMailed
<1>9. MemberUsedUp'
  <2> SUFFICES ASSUME NEW u \in members
               PROVE  (\E j \in DOMAIN rows' : rows'[j].email = u /\ rows'[j].used) \/ u \in reopened'
    BY <1>4 DEF MemberUsedUp, RowsOf
  <2>1. CASE u \in reopened
    BY <1>6, <2>1
  <2>2. CASE \E j \in DOMAIN rows : rows[j].email = u /\ rows[j].used
    <3>1. PICK j \in DOMAIN rows : rows[j].email = u /\ rows[j].used
      BY <2>2
    <3>2. CASE j = i
      BY <1>6, <3>1, <3>2
    <3>3. CASE j # i
      BY <1>5, <3>1, <3>3
    <3> QED
      BY <3>2, <3>3
  <2> QED
    BY <1>0, <2>1, <2>2 DEF TableInv, MemberUsedUp, RowsOf
<1>10. TableInv'
  BY <1>0, <1>2, <1>4, <1>7, <1>8, <1>9 DEF TableInv, Tokens
<1>11. RowsFit
  <2> SUFFICES ASSUME NEW q \in Requests, HasRead(req[q]), req[q].id \in DOMAIN rows'
               PROVE  rows'[req[q].id].email = req[q].row.email
    BY DEF RowsFit
  <2>1. Agree(req[r], req[q]) /\ RequestOK(req[q]) /\ HasRead(req[r])
    BY <1>0, InvSplit DEF HasRead
  <2>2. CASE req[q].id = i
    BY <1>5, <2>1, <2>2 DEF Agree, i
  <2>3. CASE req[q].id # i
    BY <1>5, <2>1, <2>3 DEF RequestOK, ReadIsSame
  <2> QED
    BY <2>2, <2>3
<1>12. Keeps
  BY <1>0, <1>4, <1>11 DEF Keeps, TableInv
<1>13. \A q \in Requests : Agree(Idle, req[q])
  BY IdleOK, NewAgrees
<1> QED
  BY <1>10, <1>12, <1>13, RequestStep, IdleOK DEF CommitUpdate, Ends

-----------------------------------------------------------------------------
\* AcceptInvitation up to its transaction ...
LEMMA AcceptReadSteps ==
  ASSUME IInv, NEW r \in Requests,
         AcceptIsMember(r) \/ \E u \in Users : \E t : AcceptFind(r, u, t)
  PROVE  IInv'
<1>0. TableInv /\ req[r] \in Request /\ RequestOK(req[r]) /\ issued \in 0..MaxTokens
  BY InvSplit DEF TableInv
<1>1. UNCHANGED <<rows, members, workspace, issued, mails, reopened>>
  BY DEF AcceptIsMember, AcceptFind
<1>2. TableInv' /\ Keeps
  BY <1>0, <1>1, MailStep, SameRowsFit DEF Keeps, TableInv
<1>3. CASE AcceptIsMember(r)
  <2>1. CASE Ends(r)
    BY <1>1, <2>1, EndsStep
  <2>2. CASE Goto(r, "accept")
    <3>0. PICK new : new = [req[r] EXCEPT !.pc = "accept"]
      OBVIOUS
    <3>1. RequestOK(new)'
      BY <1>0, <1>1, <1>3, <3>0 DEF AcceptIsMember, RequestOK, HasRow, TokenIsIssued, CommitIsMailed,
         ReadIsSame, AcceptsOwn, Writing, Committing, HasRead, Request
    <3>2. "accept" \in States /\ HasRead(req[r])
      BY <1>3 DEF States, HasRead, AcceptIsMember
    <3> QED
      BY <1>1, <1>2, <2>2, <3>0, <3>1, <3>2, GotoStep
  <2> QED
    BY <1>3, <2>1, <2>2 DEF AcceptIsMember
<1>4. ASSUME NEW u \in Users, NEW t, AcceptFind(r, u, t) PROVE IInv'
  <2>1. PICK i \in DOMAIN rows :
          /\ rows[i].email = u
          /\ req' = [req EXCEPT ![r] = [pc |-> "member", id |-> i, row |-> rows[i], by |-> {u}]]
    BY <1>4 DEF AcceptFind
  <2>2. PICK new : new = [pc |-> "member", id |-> i, row |-> rows[i], by |-> {u}]
    OBVIOUS
  <2>3. rows[i] \in Row /\ i \in Ids
    BY <1>0 DEF TableInv
  <2>4. new \in Request /\ req' = [req EXCEPT ![r] = new]
    BY <2>1, <2>2, <2>3 DEF Request, States
  <2>5. RequestOK(new)'
    BY <1>1, <2>1, <2>2, <2>3 DEF RequestOK, HasRow, TokenIsIssued, CommitIsMailed,
       ReadIsSame, AcceptsOwn, Writing, Committing, HasRead
  <2>6. \A q \in Requests : Agree(new, req[q])
    BY <2>2, NewAgrees
  <2> QED
    BY <1>2, <2>4, <2>5, <2>6, RequestStep
<1> QED
  BY <1>3, <1>4

\* ... and the transaction: the new member's own row is used up.
LEMMA AcceptStep ==
  ASSUME IInv, NEW r \in Requests, Accept(r)
  PROVE  IInv'
<1>0. TableInv /\ req[r] \in Request /\ RequestOK(req[r]) /\ req[r].pc = "accept"
  BY InvSplit DEF Accept
<1> DEFINE i == req[r].id
<1> DEFINE u == req[r].row.email
<1>1. CASE UNCHANGED <<members, rows>>
  BY <1>1, EndsStep DEF Accept
<1>2. CASE i \in DOMAIN rows /\ members' = members \cup req[r].by /\ rows' = [rows EXCEPT ![i].used = TRUE]
  <2>1. u \in Users /\ req[r].by = {u}
    BY <1>0 DEF RequestOK, HasRow, AcceptsOwn, Row
  <2>2. alive /\ rows[i].email = u
    BY <1>0, <1>2 DEF RequestOK, ReadIsSame, HasRead, TableInv
  <2>3. UNCHANGED <<workspace, issued, mails, reopened>>
    BY DEF Accept
  <2>4. /\ DOMAIN rows' = DOMAIN rows /\ rows'[i] = [rows[i] EXCEPT !.used = TRUE]
        /\ \A j \in DOMAIN rows \ {i} : rows'[j] = rows[j]
    BY <1>2
  <2> HIDE DEF i, u
  <2>5. rows[i] \in Row
    BY <1>0, <1>2 DEF TableInv
  <2>6. rows'[i] \in Row /\ rows'[i].used /\ rows'[i].email = u /\ rows'[i].token = rows[i].token
    BY <2>2, <2>4, <2>5 DEF Row
  <2>7. \A j \in DOMAIN rows : /\ rows'[j].email = rows[j].email /\ rows'[j].token = rows[j].token
                               /\ rows[j].used => rows'[j].used
    BY <2>2, <2>4, <2>6
  <2>8. rows' \in [DOMAIN rows' -> Row]
    BY <1>0, <1>2, <2>4, <2>6 DEF TableInv
  <2>9. LiveIsMailed'
    BY <1>0, <2>3, <2>4, <2>7 DEF TableInv, LiveIsMailed
  <2>10. MemberUsedUp'
    <3> SUFFICES ASSUME NEW v \in members', v \notin reopened
                 PROVE  \E j \in DOMAIN rows' : rows'[j].email = v /\ rows'[j].used
      BY <2>3 DEF MemberUsedUp, RowsOf
    <3>1. CASE v = u
      BY <1>2, <2>4, <2>6, <3>1
    <3>2. CASE v # u
      <4>1. PICK j \in DOMAIN rows : rows[j].email = v /\ rows[j].used
        BY <1>0, <1>2, <2>1, <3>2 DEF TableInv, MemberUsedUp, RowsOf
      <4> QED
        BY <2>4, <2>7, <4>1
    <3> QED
      BY <3>1, <3>2
  <2>11. TableInv'
    BY <1>0, <1>2, <2>1, <2>2, <2>3, <2>4, <2>8, <2>9, <2>10 DEF TableInv, Tokens
  <2>12. Keeps
    BY <1>0, <2>3, <2>4, <2>7, SameRowsFit DEF Keeps, TableInv
  <2>13. \A q \in Requests : Agree(Idle, req[q])
    BY IdleOK, NewAgrees
  <2> QED
    BY <2>11, <2>12, <2>13, RequestStep, IdleOK DEF Accept, Ends
<1> QED
  BY <1>1, <1>2 DEF Accept

-----------------------------------------------------------------------------
\* What happens outside the requests: time passes, the cascade of the
\* deletion, which no open transaction of an invitation overlaps, and the
\* rename that puts the workspace back.
LEMMA OutsideSteps ==
  ASSUME IInv, DeleteWorkspace \/ Rename \/ \E i \in Ids : Expire(i)
  PROVE  IInv'
<1>0. TableInv /\ issued \in Nat
  BY InvSplit DEF TableInv
<1> DEFINE Agreed == \A r, s \in Requests : Agree(req[r], req[s])
<1>3. Agreed'
  BY InvSplit DEF DeleteWorkspace, Rename, Expire, Agree, HasRead
<1>4. CASE Rename
  <2>1. TableInv'
    BY <1>0, <1>4 DEF Rename, TableInv, LiveIsMailed, MemberUsedUp, RowsOf, Tokens
  <2>2. ASSUME NEW q \in Requests PROVE RequestOK(req[q])'
    BY <1>4, InvSplit DEF Rename, RequestOK, HasRow, TokenIsIssued, CommitIsMailed,
       ReadIsSame, AcceptsOwn, Writing, Committing, HasRead, Tokens
  <2> QED
    BY <1>3, <1>4, <2>1, <2>2, InvSplit, InvSplitNext DEF Rename
<1>1. CASE DeleteWorkspace
  <2>1. TableInv'
    BY <1>0, <1>1 DEF DeleteWorkspace, TableInv, LiveIsMailed, MemberUsedUp, Tokens
  <2>2. ASSUME NEW q \in Requests PROVE RequestOK(req[q])'
    BY <1>1, InvSplit DEF DeleteWorkspace, RequestOK, HasRow, TokenIsIssued, CommitIsMailed,
       ReadIsSame, AcceptsOwn, Writing, Committing, HasRead, Tokens
  <2> QED
    BY <1>1, <1>3, <2>1, <2>2, InvSplit, InvSplitNext DEF DeleteWorkspace
<1>2. ASSUME NEW i \in Ids, Expire(i) PROVE IInv'
  <2>1. UNCHANGED <<members, workspace, issued, mails, req, reopened>> /\ i \in DOMAIN rows
    BY <1>2 DEF Expire
  <2>2. /\ DOMAIN rows' = DOMAIN rows /\ rows'[i] = [rows[i] EXCEPT !.late = TRUE]
        /\ \A j \in DOMAIN rows \ {i} : rows'[j] = rows[j]
    BY <1>2 DEF Expire
  <2>3. \A j \in DOMAIN rows : /\ rows'[j] \in Row /\ rows'[j].email = rows[j].email
                               /\ rows'[j].token = rows[j].token /\ rows'[j].used = rows[j].used
    <3>1. \A j \in DOMAIN rows : rows[j] \in Row
      BY <1>0 DEF TableInv
    <3>2. /\ rows'[i] \in Row /\ rows'[i].email = rows[i].email
          /\ rows'[i].token = rows[i].token /\ rows'[i].used = rows[i].used
      BY <2>1, <2>2, <3>1 DEF Row
    <3> QED
      BY <2>2, <3>1, <3>2
  <2>4. rows' \in [DOMAIN rows' -> Row]
    BY <1>2, <2>2, <2>3 DEF Expire
  <2>5. LiveIsMailed' /\ MemberUsedUp'
    BY <1>0, <2>1, <2>2, <2>3 DEF TableInv, LiveIsMailed, MemberUsedUp, RowsOf
  <2>6. TableInv'
    BY <1>0, <2>1, <2>2, <2>4, <2>5 DEF TableInv, Tokens
  <2>7. ASSUME NEW q \in Requests PROVE RequestOK(req[q])'
    <3>1. req'[q] = req[q] /\ RequestOK(req[q])
      BY <2>1, InvSplit
    <3> QED
      BY <2>1, <2>2, <2>3, <3>1 DEF RequestOK, HasRow, TokenIsIssued, CommitIsMailed,
         ReadIsSame, AcceptsOwn, Writing, Committing, HasRead, Tokens
  <2> QED
    BY <1>3, <2>1, <2>6, <2>7, InvSplit, InvSplitNext
<1> QED
  BY <1>1, <1>2, <1>4

LEMMA InvNext == IInv /\ [Next]_vars => IInv'
<1> SUFFICES ASSUME IInv, [Next]_vars PROVE IInv'
  OBVIOUS
<1>1. CASE UNCHANGED vars
  <2>1. TableInv'
    BY <1>1, InvSplit DEF TableInv, LiveIsMailed, MemberUsedUp, RowsOf, Tokens, vars
  <2>2. ASSUME NEW q \in Requests PROVE RequestOK(req[q])'
    BY <1>1, InvSplit DEF RequestOK, HasRow, TokenIsIssued, CommitIsMailed,
       ReadIsSame, AcceptsOwn, Writing, Committing, HasRead, Tokens, vars
  <2> QED
    BY <1>1, <2>1, <2>2, InvSplit, InvSplitNext DEF vars, Agree, HasRead
<1>2. CASE DeleteWorkspace \/ Rename \/ \E i \in Ids : Expire(i)
  BY <1>2, OutsideSteps
<1>3. ASSUME NEW r \in Requests,
             \/ Dies(r) \/ GetRole(r) \/ SendMail(r) \/ SendMailFails(r) \/ CommitCreate(r) \/ CommitUpdate(r)
             \/ AcceptIsMember(r) \/ Accept(r)
      PROVE  IInv'
  <2>1. CASE Dies(r)
    BY <2>1, EndsStep DEF Dies
  <2> QED
    BY <1>3, <2>1, RoleStep, SendSteps, CommitCreateStep, CommitUpdateStep, AcceptReadSteps, AcceptStep
<1>4. ASSUME NEW r \in Requests, NEW u \in Users,
             \/ InviteFind(r, u) \/ ResendFind(r, u) \/ \E m \in mails : AcceptFind(r, u, m[1])
      PROVE  IInv'
  BY <1>4, FindSteps, AcceptReadSteps
<1>5. CASE Next
  BY <1>2, <1>3, <1>4, <1>5 DEF Next
<1> QED
  BY <1>1, <1>5

LEMMA Invariant == Spec => []IInv
  BY InvInit, InvNext, PTL DEF Spec

\* Type correctness: every variable keeps its type, and nothing outlives the
\* workspace.
THEOREM InvitationsTyped == Spec => []TypeOK
<1>1. IInv => TypeOK
  BY DEF IInv
<1> QED
  BY <1>1, Invariant, PTL

\* The token of every row is in the mailbox of the row's address: neither a
\* failed mail nor a failed commit of Invite and ResendInvitation leaves an
\* invitation that nobody can accept.
THEOREM InvitationsAreMailed == Spec => []LiveIsMailed
<1>1. IInv => LiveIsMailed
  BY DEF IInv
<1> QED
  BY <1>1, Invariant, PTL

\* Nobody is a member without a used invitation to their own address, unless
\* a resend wrote back the row as it had read it before.
THEOREM MembersUsedUp == Spec => []MemberUsedUp
<1>1. IInv => MemberUsedUp
  BY DEF IInv
<1> QED
  BY <1>1, Invariant, PTL
=============================================================================
