---------------------------- MODULE Invitations -----------------------------
(***************************************************************************)
(* The invitations into one workspace: Invite, ResendInvitation and        *)
(* AcceptInvitation of workspace_invitations.go, and the deletion of the   *)
(* workspace, which cascades to its invitations and members and which a    *)
(* racing rename undoes for the workspace alone (see Workspaces).          *)
(*                                                                         *)
(* Reads run outside the transactions.  The transaction of an invitation   *)
(* sends its mail before it commits, so its row is invisible to others     *)
(* until then; that of an acceptance adds the member and marks the row by  *)
(* its id.  Update writes the whole row as it was read (gorm's Save).      *)
(*                                                                         *)
(* The id of a row is a random uuid and First() orders by it: FindBy-      *)
(* WorkspaceAndEmail returns the row with the least id, whatever its age.  *)
(***************************************************************************)
EXTENDS Naturals, FiniteSets

CONSTANTS Requests,   \* the requests served at one time
          Users,      \* the users who may be invited, each with an address
          MaxRows,    \* bound: ids of rows are 1..MaxRows
          MaxTokens   \* bound: tokens generated

ASSUME InvitationAssumption == MaxRows \in Nat /\ MaxTokens \in Nat

VARIABLES rows,      \* rows[i]: a row of workspace_invitations
          members,   \* the users with role MEMBER
          admin,     \* the ADMIN's row of workspace_members exists
          alive,     \* the row of workspaces exists
          issued,      \* how many tokens have been generated
          mails,     \* the mails delivered: <<token, address>>
          req,       \* req[r]: what request r is doing
          reopened   \* history: users whose used row was overwritten by a resend

vars == <<rows, members, admin, alive, issued, mails, req, reopened>>
workspace == <<admin, alive>>

Ids == 1..MaxRows
Tokens == 1..issued
Row == [email : Users, token : 1..MaxTokens, late : BOOLEAN, used : BOOLEAN]
NoRow == [token |-> 0]
Idle == [pc |-> "idle", id |-> 0, row |-> NoRow, by |-> {}]
States == {"idle", "find", "create", "update", "commitCreate", "commitUpdate", "member", "accept"}

Goto(r, s) == req' = [req EXCEPT ![r].pc = s]
Ends(r) == req' = [req EXCEPT ![r] = Idle]
Starts(r, s, i, row) == req' = [req EXCEPT ![r] = [pc |-> s, id |-> i, row |-> row, by |-> {}]]

RowsOf(e) == {i \in DOMAIN rows : rows[i].email = e}
First(S) == CHOOSE i \in S : \A j \in S : i <= j
Live(i) == ~rows[i].used /\ ~rows[i].late
\* The row lock of an open transaction that has updated row i.
Locked(i) == \E q \in Requests : req[q].pc = "commitUpdate" /\ req[q].id = i
Fresh(e) == [email |-> e, token |-> issued + 1, late |-> FALSE, used |-> FALSE]

Init == /\ rows = [i \in {} |-> NoRow] /\ members = {} /\ admin = TRUE /\ alive = TRUE
        /\ issued = 0 /\ mails = {}
        /\ req = [r \in Requests |-> Idle]
        /\ reopened = {}

\* 48 hours pass.
Expire(i) ==
  /\ i \in DOMAIN rows /\ ~rows[i].late
  /\ rows' = [rows EXCEPT ![i].late = TRUE]
  /\ UNCHANGED <<members, workspace, issued, mails, req, reopened>>

\* The owner deletes the workspace, ON DELETE CASCADE; this waits for the
\* transactions that have inserted or updated one of its rows.
DeleteWorkspace ==
  /\ alive /\ \A r \in Requests : req[r].pc \notin {"commitCreate", "commitUpdate"}
  /\ alive' = FALSE /\ admin' = FALSE /\ members' = {} /\ rows' = [i \in {} |-> NoRow]
  /\ UNCHANGED <<issued, mails, req, reopened>>

\* A rename that had read the workspace saves it: the row is back, without
\* its ADMIN.  (Any number of renames and deletions may be under way.)
Rename ==
  /\ ~alive /\ alive' = TRUE
  /\ UNCHANGED <<rows, members, admin, issued, mails, req, reopened>>

\* A repository call fails, or the server dies: an open transaction is
\* rolled back.
Dies(r) ==
  /\ req[r] # Idle
  /\ Ends(r)
  /\ UNCHANGED <<rows, members, workspace, issued, mails, reopened>>

-----------------------------------------------------------------------------
\* The role check of Invite and ResendInvitation.
GetRole(r) ==
  /\ req[r] = Idle /\ admin
  /\ Goto(r, "find")
  /\ UNCHANGED <<rows, members, workspace, issued, mails, reopened>>

\* What they refuse: an invitation that was used and
\* one that is still valid.
Refuses(e) == LET i == First(RowsOf(e)) IN rows[i].used \/ ~rows[i].late

\* Invite: FindByWorkspaceAndEmail.  An expired row is left.
InviteFind(r, e) ==
  /\ req[r].pc = "find" /\ issued < MaxTokens
  /\ RowsOf(e) # {} => ~Refuses(e)
  /\ issued' = issued + 1
  /\ Starts(r, "create", 0, Fresh(e))
  /\ UNCHANGED <<rows, members, workspace, mails, reopened>>

\* ResendInvitation: an expired row is read, to be given a new token.
ResendFind(r, e) ==
  /\ req[r].pc = "find" /\ issued < MaxTokens
  /\ issued' = issued + 1
  /\ IF RowsOf(e) = {} THEN Starts(r, "create", 0, Fresh(e))
     ELSE /\ ~Refuses(e)
          /\ LET i == First(RowsOf(e))
             IN  Starts(r, "update", i, [rows[i] EXCEPT !.token = issued', !.late = FALSE])
  /\ UNCHANGED <<rows, members, workspace, mails, reopened>>

\* Mutant: rows of a deleted workspace can be inserted.
SendMail_NoForeignKey(r) ==
  /\ req[r].pc \in {"create", "update"} /\ ~Locked(req[r].id)
  /\ mails' = mails \cup {<<req[r].row.token, req[r].row.email>>}
  /\ Goto(r, IF req[r].pc = "create" THEN "commitCreate" ELSE "commitUpdate")
  /\ UNCHANGED <<rows, members, workspace, issued, reopened>>

\* The transaction writes its row, which the foreign key or a row lock may
\* prevent, and sends the mail ...
SendMail(r) ==
  /\ req[r].pc \in {"create", "update"} /\ alive /\ ~Locked(req[r].id)
  /\ mails' = mails \cup {<<req[r].row.token, req[r].row.email>>}
  /\ Goto(r, IF req[r].pc = "create" THEN "commitCreate" ELSE "commitUpdate")
  /\ UNCHANGED <<rows, members, workspace, issued, reopened>>

\* Mutant: the error of the mail is ignored.
SendMailFails_Commits(r) ==
  /\ req[r].pc \in {"create", "update"} /\ alive /\ ~Locked(req[r].id)
  /\ Goto(r, IF req[r].pc = "create" THEN "commitCreate" ELSE "commitUpdate")
  /\ UNCHANGED <<rows, members, workspace, issued, mails, reopened>>

\* ... and is rolled back on an error, which may come after the delivery ...
SendMailFails(r) ==
  /\ req[r].pc \in {"create", "update"}
  /\ mails' \in {mails, mails \cup {<<req[r].row.token, req[r].row.email>>}}
  /\ Ends(r)
  /\ UNCHANGED <<rows, members, workspace, issued, reopened>>

\* ... or commits: a new row under an id that no row has or had ...
CommitCreate(r) ==
  /\ req[r].pc = "commitCreate"
  /\ \E i \in Ids \ (DOMAIN rows \cup {req[q].id : q \in Requests}) :
       rows' = [j \in DOMAIN rows \cup {i} |-> IF j = i THEN req[r].row ELSE rows[j]]
  /\ Ends(r)
  /\ UNCHANGED <<members, workspace, issued, mails, reopened>>

\* ... or the row as it was read, its used_at included, also if the row is
\* gone (Save).
CommitUpdate(r) ==
  /\ req[r].pc = "commitUpdate"
  /\ rows' = [i \in DOMAIN rows \cup {req[r].id} |-> IF i = req[r].id THEN req[r].row ELSE rows[i]]
  /\ reopened' = reopened \cup {rows[i].email : i \in {j \in DOMAIN rows : j = req[r].id /\ rows[j].used}}
  /\ Ends(r)
  /\ UNCHANGED <<members, workspace, issued, mails>>

-----------------------------------------------------------------------------
\* AcceptInvitation by user u: FindByToken; the invitation must be unused,
\* not expired, and for the address of u.
AcceptFind(r, u, t) ==
  /\ req[r] = Idle
  /\ \E i \in DOMAIN rows : /\ rows[i].token = t /\ Live(i) /\ rows[i].email = u
                            /\ req' = [req EXCEPT ![r] = [pc |-> "member", id |-> i, row |-> rows[i], by |-> {u}]]
  /\ UNCHANGED <<rows, members, workspace, issued, mails, reopened>>

\* IsMember refuses who is one already.
AcceptIsMember(r) ==
  /\ req[r].pc = "member"
  /\ IF req[r].by \subseteq members THEN Ends(r) ELSE Goto(r, "accept")
  /\ UNCHANGED <<rows, members, workspace, issued, mails, reopened>>

\* Mutant: AddMember commits also when MarkUsed fails.
Accept_NoRollback(r) ==
  /\ req[r].pc = "accept" /\ req[r].by \cap members = {} /\ alive
  /\ members' = members \cup req[r].by
  /\ Ends(r)
  /\ UNCHANGED <<rows, workspace, issued, mails, reopened>>

\* The transaction: AddMember, which the primary key refuses to a member,
\* and MarkUsed, by the id alone, which waits for a resend that has the row
\* and fails if the row is gone.
Accept(r) ==
  /\ req[r].pc = "accept" /\ (req[r].id \in DOMAIN rows => ~Locked(req[r].id))
  /\ IF req[r].by \cap members = {} /\ req[r].id \in DOMAIN rows
     THEN /\ members' = members \cup req[r].by
          /\ rows' = [rows EXCEPT ![req[r].id].used = TRUE]
     ELSE UNCHANGED <<members, rows>>
  /\ Ends(r)
  /\ UNCHANGED <<workspace, issued, mails, reopened>>

Next == \/ \E i \in Ids : Expire(i)
        \/ DeleteWorkspace \/ Rename
        \/ \E r \in Requests :
             \/ Dies(r) \/ GetRole(r)
             \/ \E e \in Users : InviteFind(r, e) \/ ResendFind(r, e)
             \/ SendMail(r) \/ SendMailFails(r) \/ CommitCreate(r) \/ CommitUpdate(r)
             \/ \E u \in Users, m \in mails : AcceptFind(r, u, m[1])
             \/ AcceptIsMember(r) \/ Accept(r)

Spec == Init /\ [][Next]_vars
-----------------------------------------------------------------------------
TypeOK ==
  /\ DOMAIN rows \subseteq Ids /\ rows \in [DOMAIN rows -> Row]
  /\ members \subseteq Users /\ reopened \subseteq Users /\ admin \in BOOLEAN /\ alive \in BOOLEAN
  /\ issued \in 0..MaxTokens /\ mails \subseteq Tokens \X Users
  /\ req \in [Requests -> [pc : States, id : Ids \cup {0}, row : Row \cup {NoRow}, by : SUBSET Users]]
  /\ ~alive => DOMAIN rows = {} /\ members = {}

\* An invitation that can be accepted is in the mailbox of its address: the
\* failure of a mail leaves no row, and that of a commit replaces no token.
LiveIsMailed == \A i \in DOMAIN rows : <<rows[i].token, rows[i].email>> \in mails

\* Who became a member has used up an invitation to their own address, in one
\* transaction with the membership, unless a resend that had read it before
\* wrote it back.
MemberUsedUp ==
  \A u \in members : (\E i \in RowsOf(u) : rows[i].used) \/ u \in reopened

\* docs/sprint-2-be.md:157-158: who has an invitation that is unused and not
\* expired is not invited again, and an expired one is renewed in place.
OneLiveInvitation ==
  \A i, j \in DOMAIN rows : rows[i].email = rows[j].email /\ Live(i) /\ Live(j) => i = j
=============================================================================
