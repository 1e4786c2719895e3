----------------------------- MODULE Workspaces -----------------------------
(***************************************************************************)
(* One workspace with its members and tasks: Create, Update and Delete of  *)
(* workspace_service.go, task_service.go, and the role check of rbac.go.   *)
(* Invitations appear as rows that a deletion removes (see Invitations).   *)
(*                                                                         *)
(* Every handler reads, checks and then writes, each in a step of its own. *)
(* Update writes the whole row it has read (gorm's Save): it overwrites    *)
(* what others have changed and inserts the row again if it is gone, as    *)
(* far as the foreign keys allow.                                          *)
(***************************************************************************)
EXTENDS Naturals, FiniteSets

CONSTANTS Requests,   \* the requests served at one time
          Users,      \* the users; one of them makes the workspace
          Owner,      \* that user: owner_id, and the member with role ADMIN
          TaskIds,    \* bound: the ids of tasks
          NoTask,     \* no task id
          Values      \* what a field of a task may hold

ASSUME WorkspaceAssumption == Owner \in Users /\ Values # {} /\ NoTask \notin TaskIds

Fields == {"title", "status"}

VARIABLES open,      \* the row of workspaces exists
          members,   \* members[u]: the role in a row of workspace_members
          invited,   \* the users with an open invitation
          tasks,     \* tasks[t]: a row of tasks
          req,       \* req[r]: what request r is doing
          made,      \* history: the workspace has been created
          deleted,   \* history: it has been deleted by its owner
          spent,     \* history: the task ids that Create has given out
          overtaken  \* history: an Invite inserted its row after a deletion
                     \* that came between its role check and the insertion

vars == <<open, members, invited, tasks, req, made, deleted, spent, overtaken>>
tables == <<open, members, invited, tasks>>
history == <<made, deleted, spent, overtaken>>

Row == [Fields -> Values]
NoRow == [f \in {} |-> 0]
Nobody == [u \in {} |-> "MEMBER"]
\* stale and cut are history: since r began, its task was written by another
\* request or the workspace deleted; the workspace deleted.
Idle == [pc |-> "idle", flow |-> "none", by |-> {}, task |-> NoTask, row |-> NoRow,
         sets |-> {}, stale |-> FALSE, cut |-> FALSE]
States == {"idle", "find", "member", "write"}
Flows == {"none", "rename", "remove", "invite", "createTask", "updateTask", "deleteTask"}

Goto(r, s) == req' = [req EXCEPT ![r].pc = s]
Ends(r) == req' = [req EXCEPT ![r] = Idle]
At(r, s, flow) == req[r].pc = s /\ req[r].flow = flow
Starts(r, s, flow, u) == req' = [req EXCEPT ![r] = [Idle EXCEPT !.pc = s, !.flow = flow, !.by = {u}]]
IsMember(r) == req[r].by \subseteq DOMAIN members

\* Request r is done, and the copies that others have of task t are stale.
EndsWriting(r, t) ==
  req' = [q \in Requests |-> IF q = r THEN Idle
                             ELSE IF req[q].task = t THEN [req[q] EXCEPT !.stale = TRUE] ELSE req[q]]
Put(t, row) == tasks' = [k \in DOMAIN tasks \cup {t} |-> IF k = t THEN row ELSE tasks[k]]

Init == /\ open = FALSE /\ members = Nobody /\ invited = {} /\ tasks = [t \in {} |-> NoRow]
        /\ req = [r \in Requests |-> Idle]
        /\ made = FALSE /\ deleted = FALSE /\ spent = {} /\ overtaken = FALSE

\* A repository call fails, or the server dies.
Dies(r) == /\ req[r] # Idle
           /\ Ends(r)
           /\ UNCHANGED <<tables, history>>

-----------------------------------------------------------------------------
\* Create: the workspace and its ADMIN in one transaction.
Create ==
  /\ ~made
  /\ made' = TRUE /\ open' = TRUE
  /\ members' = [u \in {Owner} |-> "ADMIN"]
  /\ UNCHANGED <<invited, tasks, req, deleted, spent, overtaken>>

\* RequireWorkspaceRole(ADMIN), for PATCH, DELETE and the invitations.
RequireAdmin(r, flow, u) ==
  /\ req[r] = Idle /\ u \in DOMAIN members /\ members[u] = "ADMIN"
  /\ Starts(r, IF flow = "invite" THEN "write" ELSE "find", flow, u)
  /\ UNCHANGED <<tables, history>>

\* Invite, past its checks: the row is inserted if its workspace exists.
Invite(r, u) ==
  /\ At(r, "write", "invite")
  /\ invited' = IF open THEN invited \cup {u} ELSE invited
  /\ overtaken' = (overtaken \/ (open /\ req[r].cut))
  /\ Ends(r)
  /\ UNCHANGED <<open, members, tasks, made, deleted, spent>>

\* AcceptInvitation: a member, and a used invitation.
Accept(u) ==
  /\ open /\ u \in invited \ DOMAIN members
  /\ members' = [v \in DOMAIN members \cup {u} |-> IF v = u THEN "MEMBER" ELSE members[v]]
  /\ invited' = invited \ {u}
  /\ UNCHANGED <<open, tasks, req, history>>

\* FindByID ...
WorkspaceFind(r) ==
  /\ req[r].pc = "find"
  /\ IF open THEN Goto(r, "member") ELSE Ends(r)
  /\ UNCHANGED <<tables, history>>

\* ... and IsMember.  (The owner_id that Delete compares never changes.)
WorkspaceMember(r) ==
  /\ req[r].pc = "member" /\ req[r].flow \in {"rename", "remove"}
  /\ IF IsMember(r) THEN Goto(r, "write") ELSE Ends(r)
  /\ UNCHANGED <<tables, history>>

\* Update: Save, which inserts the row of a workspace deleted since.
Rename(r) ==
  /\ At(r, "write", "rename")
  /\ open' = TRUE
  /\ Ends(r)
  /\ UNCHANGED <<members, invited, tasks, history>>

\* Mutant: the rows of the members are not removed.
Remove_KeepsMembers(r) ==
  /\ At(r, "write", "remove")
  /\ IF open
     THEN /\ open' = FALSE /\ invited' = {} /\ deleted' = TRUE
          /\ tasks' = [t \in {} |-> NoRow]
          /\ req' = [q \in Requests |-> IF q = r \/ req[q] = Idle THEN Idle ELSE [req[q] EXCEPT !.stale = TRUE, !.cut = TRUE]]
     ELSE Ends(r) /\ UNCHANGED <<open, invited, tasks, deleted>>
  /\ UNCHANGED <<members, made, spent, overtaken>>

\* Delete cascades to members, invitations and tasks; no row is an error.
Remove(r) ==
  /\ At(r, "write", "remove")
  /\ IF open
     THEN /\ open' = FALSE /\ members' = Nobody /\ invited' = {} /\ deleted' = TRUE
          /\ tasks' = [t \in {} |-> NoRow]
          /\ req' = [q \in Requests |-> IF q = r \/ req[q] = Idle THEN Idle ELSE [req[q] EXCEPT !.stale = TRUE, !.cut = TRUE]]
     ELSE Ends(r) /\ UNCHANGED <<tables, deleted>>
  /\ UNCHANGED <<made, spent, overtaken>>

-----------------------------------------------------------------------------
\* TaskService.Create by user u: IsMember, then the insertion.
TaskCreateMember(r, u) ==
  /\ req[r] = Idle /\ u \in DOMAIN members
  /\ Starts(r, "write", "createTask", u)
  /\ UNCHANGED <<tables, history>>

\* Mutant: the row is inserted under an id of the client's choice.
TaskCreate_AnyId(r) ==
  /\ At(r, "write", "createTask")
  /\ \/ open /\ \E t \in TaskIds \cup {NoTask}, row \in Row : Put(t, row)
     \/ ~open /\ UNCHANGED tasks
  /\ Ends(r)
  /\ UNCHANGED <<open, members, invited, made, deleted, spent, overtaken>>

TaskCreate(r) ==
  /\ At(r, "write", "createTask")
  /\ \/ /\ open
        /\ \E t \in TaskIds \ spent, row \in Row : Put(t, row) /\ spent' = spent \cup {t}
     \/ ~open /\ UNCHANGED <<tasks, spent>>
  /\ Ends(r)
  /\ UNCHANGED <<open, members, invited, made, deleted, overtaken>>

\* Mutant: the other fields are reset.
TaskUpdateFind_Resets(r, u, t, row) ==
  /\ req[r] = Idle
  /\ req' = [req EXCEPT ![r] = [Idle EXCEPT !.pc = "member", !.flow = "updateTask", !.by = {u}, !.task = t,
                                            !.row = row, !.sets = {"title"}]]
  /\ UNCHANGED <<tables, history>>

\* UpdateTask, which makes the task's row the new one, and DeleteTask:
\* FindByID ...  (A due date or an assignee is saved also when it is the old
\* one; a request that gives nothing but old values of the others ends.)
TaskUpdateFind(r, u, t, row) ==
  /\ req[r] = Idle
  /\ req' = [req EXCEPT ![r] = [Idle EXCEPT !.pc = "member", !.flow = "updateTask", !.by = {u}, !.task = t,
                                            !.row = row, !.sets = {f \in Fields : row[f] # tasks[t][f]}]]
  /\ UNCHANGED <<tables, history>>

TaskDeleteFind(r, u, t) ==
  /\ req[r] = Idle
  /\ req' = [req EXCEPT ![r] = [Idle EXCEPT !.pc = "member", !.flow = "deleteTask", !.by = {u}, !.task = t]]
  /\ UNCHANGED <<tables, history>>

\* Mutant: membership is not checked.
TaskMember_NoCheck(r) ==
  /\ req[r].pc = "member" /\ req[r].flow \in {"updateTask", "deleteTask"}
  /\ Goto(r, "write")
  /\ UNCHANGED <<tables, history>>

\* ... IsMember of the task's workspace ...
TaskMember(r) ==
  /\ req[r].pc = "member" /\ req[r].flow \in {"updateTask", "deleteTask"}
  /\ IF IsMember(r) THEN Goto(r, "write") ELSE Ends(r)
  /\ UNCHANGED <<tables, history>>

\* Mutant: no foreign key.
TaskUpdate_NoForeignKey(r) ==
  /\ At(r, "write", "updateTask")
  /\ Put(req[r].task, req[r].row) /\ EndsWriting(r, req[r].task)
  /\ UNCHANGED <<open, members, invited, history>>

\* ... and Save, refused by the foreign key if the workspace is gone ...
TaskUpdate(r) ==
  /\ At(r, "write", "updateTask")
  /\ IF open THEN Put(req[r].task, req[r].row) /\ EndsWriting(r, req[r].task)
     ELSE Ends(r) /\ UNCHANGED tasks
  /\ UNCHANGED <<open, members, invited, history>>

\* ... or Delete, which succeeds on no row as well.
TaskDelete(r) ==
  /\ At(r, "write", "deleteTask")
  /\ tasks' = [t \in DOMAIN tasks \ {req[r].task} |-> tasks[t]]
  /\ EndsWriting(r, req[r].task)
  /\ UNCHANGED <<open, members, invited, history>>

Stop == deleted /\ (\A r \in Requests : req[r] = Idle) /\ UNCHANGED vars

Next == \/ Create \/ Stop
        \/ \E u \in Users : Accept(u)
        \/ \E r \in Requests :
             \/ Dies(r)
             \/ \E u \in Users :
                  \/ RequireAdmin(r, "rename", u) \/ RequireAdmin(r, "remove", u)
                  \/ RequireAdmin(r, "invite", u) \/ Invite(r, u)
             \/ WorkspaceFind(r) \/ WorkspaceMember(r) \/ Rename(r) \/ Remove(r)
             \/ \E u \in Users : TaskCreateMember(r, u)
             \/ \E u \in Users, t \in DOMAIN tasks :
                  \/ \E row \in Row : TaskUpdateFind(r, u, t, row)
                  \/ TaskDeleteFind(r, u, t)
             \/ TaskCreate(r) \/ TaskMember(r) \/ TaskUpdate(r) \/ TaskDelete(r)

Spec == Init /\ [][Next]_vars
-----------------------------------------------------------------------------
TypeOK ==
  /\ open \in BOOLEAN /\ made \in BOOLEAN /\ deleted \in BOOLEAN /\ overtaken \in BOOLEAN
  /\ DOMAIN members \subseteq Users /\ members \in [DOMAIN members -> {"ADMIN", "MEMBER"}]
  /\ invited \subseteq Users
  /\ spent \subseteq TaskIds /\ DOMAIN tasks \subseteq spent
  /\ tasks \in [DOMAIN tasks -> Row]
  /\ req \in [Requests -> [pc : States, flow : Flows, by : SUBSET Users, task : TaskIds \cup {NoTask},
                           row : Row \cup {NoRow}, sets : SUBSET Fields, stale : BOOLEAN, cut : BOOLEAN]]

\* Deletion is final for access: a workspace that a rename has put back has
\* no ADMIN, and no member unless an Invite whose role check came before the
\* deletion inserts its row after the rename.
DeletedAdmitsNobody ==
  deleted => /\ \A u \in DOMAIN members : members[u] # "ADMIN"
             /\ DOMAIN members # {} => overtaken

\* Nothing lives outside the workspace, also across races of its deletion with
\* creations and updates that have passed their checks before it.
RowsHaveWorkspace == ~open => DOMAIN tasks = {} /\ DOMAIN members = {} /\ invited = {}

\* Whoever is about to write, be it the workspace, an invitation or a task,
\* was found to be a member and still is, unless the workspace was deleted
\* after the request began.
WritersAreMembers ==
  \A r \in Requests : req[r].pc = "write" => IsMember(r) \/ req[r].cut

\* No lost update: a task changes only in a field that the writer was asked
\* to change, and a deleted task stays deleted, except when the writer's copy
\* had been overtaken by another write of the task, or by the deletion of the
\* workspace, between its FindByID and its Save.
NoLostUpdateUnlessStale ==
  [][\A t \in DOMAIN tasks' \cap spent :
       \/ /\ t \in DOMAIN tasks
          /\ \A f \in Fields : tasks'[t][f] # tasks[t][f] =>
               \E r \in Requests : At(r, "write", "updateTask") /\ req[r].task = t /\ f \in req[r].sets
       \/ \E r \in Requests : At(r, "write", "updateTask") /\ req[r].task = t /\ req[r].stale /\ req'[r] = Idle]_tasks
=============================================================================
