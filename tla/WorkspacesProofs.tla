-------------------------- MODULE WorkspacesProofs --------------------------
(***************************************************************************)
(* The safety of Workspaces for any number of requests, users and tasks    *)
(* and any values of the fields; then that of Listings, the lists of a     *)
(* workspace's rows, for any number of rows.                               *)
(***************************************************************************)
EXTENDS Workspaces, Listings, FiniteSetTheorems, TLAPS

USE WorkspaceAssumption

Request == [pc : States, flow : Flows, by : SUBSET Users, task : TaskIds \cup {NoTask},
            row : Row \cup {NoRow}, sets : SUBSET Fields, stale : BOOLEAN, cut : BOOLEAN]

\* Why the invariants below are inductive.  Only an owner who has made the
\* workspace deletes it, and after that no role check passes: whoever is past
\* one had the workspace deleted under it, and so had the invitations that
\* come of it.
DeletedWasMade == deleted => made
NothingBefore == ~made => ~open /\ \A r \in Requests : req[r].pc = "idle"
LateInvitesAreCut ==
  deleted => /\ invited # {} => overtaken
             /\ \A r \in Requests : At(r, "write", "invite") => req[r].cut

\* The copy of a task that an update will save names a task that was created,
\* and it differs from the row only in the fields to be set, unless another
\* write came in between.
Updates(r) == req[r].flow = "updateTask"
CopiesAreOfTasks == \A r \in Requests : Updates(r) => req[r].task \in spent /\ req[r].row \in Row
CopiesAreFresh ==
  \A r \in Requests : Updates(r) /\ ~req[r].stale =>
    /\ req[r].task \in DOMAIN tasks
    /\ \A f \in Fields : req[r].row[f] # tasks[req[r].task][f] => f \in req[r].sets

IInv == /\ TypeOK /\ RowsHaveWorkspace /\ WritersAreMembers /\ DeletedAdmitsNobody
        /\ DeletedWasMade /\ NothingBefore /\ LateInvitesAreCut /\ CopiesAreOfTasks /\ CopiesAreFresh

\* The conjuncts of IInv that speak of requests, for one of them.
RequestOK(q) ==
  /\ ~made => q.pc = "idle"
  /\ q.pc = "write" => q.by \subseteq DOMAIN members \/ q.cut
  /\ deleted /\ q.pc = "write" /\ q.flow = "invite" => q.cut
  /\ q.flow = "updateTask" => q.task \in spent /\ q.row \in Row
  /\ q.flow = "updateTask" /\ ~q.stale =>
       /\ q.task \in DOMAIN tasks
       /\ \A f \in Fields : q.row[f] # tasks[q.task][f] => f \in q.sets

\* IInv, the requests apart.
TableInv ==
  /\ open \in BOOLEAN /\ made \in BOOLEAN /\ deleted \in BOOLEAN /\ overtaken \in BOOLEAN
  /\ DOMAIN members \subseteq Users /\ members \in [DOMAIN members -> {"ADMIN", "MEMBER"}]
  /\ invited \subseteq Users
  /\ spent \subseteq TaskIds /\ DOMAIN tasks \subseteq spent
  /\ tasks \in [DOMAIN tasks -> Row]
  /\ RowsHaveWorkspace /\ DeletedAdmitsNobody /\ DeletedWasMade
  /\ deleted /\ invited # {} => overtaken
  /\ ~made => ~open

LEMMA InvSplit ==
  IInv <=> TableInv /\ req \in [Requests -> Request] /\ \A r \in Requests : RequestOK(req[r])
  BY DEF IInv, TableInv, TypeOK, Request, RequestOK, WritersAreMembers, IsMember, LateInvitesAreCut,
     NothingBefore, At, CopiesAreOfTasks, CopiesAreFresh, Updates

LEMMA InvSplitNext ==
  IInv' <=> TableInv' /\ req' \in [Requests -> Request] /\ \A r \in Requests : RequestOK(req[r])'
  BY DEF IInv, TableInv, TypeOK, Request, RequestOK, WritersAreMembers, IsMember, LateInvitesAreCut,
     NothingBefore, At, CopiesAreOfTasks, CopiesAreFresh, Updates

LEMMA IdleOK == Idle \in Request /\ RequestOK(Idle) /\ RequestOK(Idle)'
  BY DEF Idle, Request, RequestOK, States, Flows

\* A step that leaves the tables alone and one request in order.
LEMMA RequestStep ==
  ASSUME IInv, UNCHANGED <<tables, history>>, NEW r \in Requests, NEW new \in Request,
         RequestOK(new), req' = [req EXCEPT ![r] = new]
  PROVE  IInv'
<1>1. TableInv' /\ \A q : RequestOK(q)' <=> RequestOK(q)
  BY InvSplit DEF TableInv, RowsHaveWorkspace, DeletedAdmitsNobody, DeletedWasMade, RequestOK, tables, history
<1>2. req' \in [Requests -> Request] /\ \A q \in Requests : RequestOK(req'[q])
  BY InvSplit
<1> QED
  BY <1>1, <1>2, InvSplitNext

\* RequestStep's instances: a request ends, goes on, or starts.
LEMMA EndsStep ==
  ASSUME IInv, UNCHANGED <<tables, history>>, NEW r \in Requests, Ends(r)
  PROVE  IInv'
  BY IdleOK, RequestStep DEF Ends

LEMMA GotoStep ==
  ASSUME IInv, UNCHANGED <<tables, history>>, NEW r \in Requests, NEW s \in States, Goto(r, s), req[r].pc # "idle",
         s = "write" => IsMember(r) /\ req[r].flow # "invite"
  PROVE  IInv'
<1> DEFINE new == [req[r] EXCEPT !.pc = s]
<1>1. req[r] \in Request /\ RequestOK(req[r])
  BY InvSplit
<1>2. new \in Request /\ RequestOK(new)
  BY <1>1 DEF Request, RequestOK, IsMember
<1>3. req' = [req EXCEPT ![r] = new]
  BY InvSplit DEF Goto
<1> QED
  BY <1>2, <1>3, RequestStep

LEMMA StartsStep ==
  ASSUME IInv, UNCHANGED <<tables, history>>, NEW r \in Requests, NEW s \in States, NEW flow \in Flows,
         flow # "updateTask", NEW u \in Users, Starts(r, s, flow, u),
         u \in DOMAIN members, made, flow = "invite" => ~deleted
  PROVE  IInv'
<1> DEFINE new == [Idle EXCEPT !.pc = s, !.flow = flow, !.by = {u}]
<1>1. new \in Request /\ RequestOK(new)
  BY DEF Request, RequestOK, Idle
<1> QED
  BY <1>1, RequestStep DEF Starts

-----------------------------------------------------------------------------
\* IInv is inductive.  First the steps that only read the tables: Dies, and
\* the reads and checks of every handler.
LEMMA InvInit == Init => IInv
<1> SUFFICES ASSUME Init PROVE IInv
  OBVIOUS
<1>1. TableInv
  BY DEF Init, TableInv, RowsHaveWorkspace, DeletedAdmitsNobody, DeletedWasMade, Nobody
<1>2. req \in [Requests -> Request] /\ \A r \in Requests : RequestOK(req[r])
  BY IdleOK DEF Init
<1> QED
  BY <1>1, <1>2, InvSplit

LEMMA ReadSteps ==
  ASSUME IInv, NEW r \in Requests,
         Dies(r) \/ WorkspaceFind(r) \/ WorkspaceMember(r) \/ TaskMember(r)
  PROVE  IInv'
<1>1. CASE Dies(r)
  BY <1>1, EndsStep DEF Dies
<1>2. CASE WorkspaceFind(r)
  BY <1>2, EndsStep, GotoStep DEF WorkspaceFind, States
<1>3. CASE WorkspaceMember(r)
  BY <1>3, EndsStep, GotoStep DEF WorkspaceMember, States
<1>4. CASE TaskMember(r)
  BY <1>4, EndsStep, GotoStep DEF TaskMember, States
<1> QED
  BY <1>1, <1>2, <1>3, <1>4

LEMMA RoleSteps ==
  ASSUME IInv, NEW r \in Requests, NEW u \in Users,
         \/ \E flow \in {"rename", "remove", "invite"} : RequireAdmin(r, flow, u)
         \/ TaskCreateMember(r, u)
  PROVE  IInv'
<1>1. ASSUME NEW flow \in {"rename", "remove", "invite"}, RequireAdmin(r, flow, u) PROVE IInv'
  <2>1. ~deleted /\ made /\ u \in DOMAIN members
    BY <1>1, InvSplit DEF RequireAdmin, TableInv, DeletedAdmitsNobody, RowsHaveWorkspace
  <2> QED
    BY <1>1, <2>1, StartsStep DEF RequireAdmin, States, Flows
<1>2. CASE TaskCreateMember(r, u)
  <2>1. made
    BY <1>2, InvSplit DEF TaskCreateMember, TableInv, RowsHaveWorkspace
  <2> QED
    BY <1>2, <2>1, StartsStep DEF TaskCreateMember, States, Flows
<1> QED
  BY <1>1, <1>2

LEMMA TaskFindSteps ==
  ASSUME IInv, NEW r \in Requests, NEW u \in Users, NEW t \in DOMAIN tasks,
         TaskDeleteFind(r, u, t) \/ \E row \in Row : TaskUpdateFind(r, u, t, row)
  PROVE  IInv'
<1>0. made /\ t \in spent /\ t \in TaskIds
  BY InvSplit DEF TableInv, RowsHaveWorkspace
<1>1. CASE TaskDeleteFind(r, u, t)
  <2> DEFINE new == [Idle EXCEPT !.pc = "member", !.flow = "deleteTask", !.by = {u}, !.task = t]
  <2>1. new \in Request /\ RequestOK(new)
    BY <1>0 DEF Request, RequestOK, Idle, States, Flows
  <2> QED
    BY <1>1, <2>1, RequestStep DEF TaskDeleteFind
<1>2. ASSUME NEW row \in Row, TaskUpdateFind(r, u, t, row) PROVE IInv'
  <2> DEFINE sets == {f \in Fields : row[f] # tasks[t][f]}
  <2> DEFINE new == [Idle EXCEPT !.pc = "member", !.flow = "updateTask", !.by = {u}, !.task = t,
                                 !.row = row, !.sets = sets]
  <2>1. new \in Request /\ RequestOK(new)
    BY <1>0 DEF Request, RequestOK, Idle, States, Flows
  <2> QED
    BY <1>2, <2>1, RequestStep, Zenon DEF TaskUpdateFind
<1> QED
  BY <1>1, <1>2

\* The steps that write the tables: those outside the requests ...
LEMMA MembershipSteps ==
  ASSUME IInv, Create \/ \E u \in Users : Accept(u)
  PROVE  IInv'
<1> USE DEF TableInv, RowsHaveWorkspace, DeletedAdmitsNobody, DeletedWasMade
<1>1. CASE Create
  <2>1. TableInv'
    BY <1>1, InvSplit DEF Create
  <2>2. \A q \in Requests : RequestOK(req[q])'
    BY <1>1, InvSplit DEF Create, RequestOK
  <2> QED
    BY <1>1, <2>1, <2>2, InvSplit, InvSplitNext DEF Create
<1>2. ASSUME NEW u \in Users, Accept(u) PROVE IInv'
  <2>1. TableInv'
    BY <1>2, InvSplit DEF Accept, history
  <2>2. \A q \in Requests : RequestOK(req[q])'
    BY <1>2, InvSplit DEF Accept, RequestOK, history
  <2> QED
    BY <1>2, <2>1, <2>2, InvSplit, InvSplitNext DEF Accept
<1> QED
  BY <1>1, <1>2

\* ... and those of a request.
LEMMA WorkspaceSteps ==
  ASSUME IInv, NEW r \in Requests,
         Rename(r) \/ \E u \in Users : Invite(r, u)
  PROVE  IInv'
<1> USE DEF TableInv, RowsHaveWorkspace, DeletedAdmitsNobody, DeletedWasMade
<1>1. CASE Rename(r)
  <2>1. TableInv'
    BY <1>1, InvSplit DEF Rename, history, At, RequestOK
  <2>2. \A q \in Requests : RequestOK(req[q])'
    BY <1>1, InvSplit, IdleOK DEF Rename, RequestOK, Ends, history
  <2> QED
    BY <1>1, <2>1, <2>2, InvSplit, InvSplitNext, IdleOK DEF Rename, Ends
<1>2. ASSUME NEW u \in Users, Invite(r, u) PROVE IInv'
  <2>1. TableInv'
    BY <1>2, InvSplit DEF Invite, At, RequestOK
  <2>2. \A q \in Requests : RequestOK(req[q])'
    BY <1>2, InvSplit, IdleOK DEF Invite, RequestOK, Ends
  <2> QED
    BY <1>2, <2>1, <2>2, InvSplit, InvSplitNext, IdleOK DEF Invite, Ends
<1> QED
  BY <1>1, <1>2

\* Remove: every request that is under way is stale and cut from now on.
LEMMA RemoveStep ==
  ASSUME IInv, NEW r \in Requests, Remove(r)
  PROVE  IInv'
<1>0. req[r].pc = "write" /\ made
  BY InvSplit DEF Remove, At, RequestOK
<1>1. CASE ~open
  BY <1>1, EndsStep DEF Remove, tables, history
<1>2. CASE open
  <2>1. TableInv'
    BY <1>0, <1>2, InvSplit
    DEF Remove, TableInv, RowsHaveWorkspace, DeletedAdmitsNobody, DeletedWasMade, Nobody
  <2>2. ASSUME NEW q \in Requests PROVE req'[q] \in Request /\ RequestOK(req[q])'
    <3>1. CASE q = r \/ req[q] = Idle
      BY <1>2, <3>1, IdleOK DEF Remove
    <3>2. CASE ~(q = r \/ req[q] = Idle)
      <4>1. req'[q] = [req[q] EXCEPT !.stale = TRUE, !.cut = TRUE]
        BY <1>2, <3>2 DEF Remove
      <4>2. req[q] \in Request /\ RequestOK(req[q])
        BY InvSplit
      <4> QED
        BY <1>0, <4>1, <4>2 DEF Request, RequestOK, Remove
    <3> QED
      BY <3>1, <3>2
  <2> QED
    BY <1>2, <2>1, <2>2, InvSplitNext DEF Remove
<1> QED
  BY <1>1, <1>2

\* What is left for the other requests when r has written task t.
LEMMA EndsWritingStep ==
  ASSUME IInv, NEW r \in Requests, NEW t \in TaskIds \cup {NoTask}, EndsWriting(r, t),
         UNCHANGED <<members, made, deleted>>, spent \subseteq spent',
         \A k \in DOMAIN tasks \ {t} : k \in DOMAIN tasks' /\ tasks'[k] = tasks[k]
  PROVE  req' \in [Requests -> Request] /\ \A q \in Requests : RequestOK(req[q])'
<1>1. ASSUME NEW q \in Requests PROVE req'[q] \in Request /\ RequestOK(req[q])'
  <2>0. req[q] \in Request /\ RequestOK(req[q])
    BY InvSplit
  <2>1. CASE q = r
    BY <2>1, IdleOK DEF EndsWriting
  <2>2. CASE q # r /\ req[q].task = t
    <3>1. req'[q] = [req[q] EXCEPT !.stale = TRUE]
      BY <2>2 DEF EndsWriting
    <3> QED
      BY <2>0, <3>1 DEF Request, RequestOK
  <2>3. CASE q # r /\ req[q].task # t
    <3>1. req'[q] = req[q]
      BY <2>3 DEF EndsWriting
    <3> QED
      BY <2>0, <2>3, <3>1 DEF RequestOK
  <2> QED
    BY <2>1, <2>2, <2>3
<1> QED
  BY <1>1 DEF EndsWriting

\* A task's row is written: an insertion under a new id, or Save.
LEMMA PutLemma ==
  ASSUME TableInv, NEW t \in TaskIds, NEW row \in Row, Put(t, row)
  PROVE  /\ DOMAIN tasks' = DOMAIN tasks \cup {t} /\ tasks' \in [DOMAIN tasks' -> Row]
         /\ tasks'[t] = row /\ \A k \in DOMAIN tasks \ {t} : tasks'[k] = tasks[k]
  BY DEF TableInv, Put

LEMMA TaskSteps ==
  ASSUME IInv, NEW r \in Requests, TaskCreate(r) \/ TaskUpdate(r) \/ TaskDelete(r)
  PROVE  IInv'
<1> USE DEF RowsHaveWorkspace, DeletedAdmitsNobody, DeletedWasMade, history, tables
<1>0. TableInv /\ req[r] \in Request /\ RequestOK(req[r])
  BY InvSplit
<1>1. CASE TaskCreate(r)
  <2>1. CASE ~open /\ UNCHANGED <<tasks, spent>>
    BY <1>1, <2>1, EndsStep DEF TaskCreate
  <2>2. ASSUME open, NEW t \in TaskIds \ spent, NEW row \in Row, Put(t, row), spent' = spent \cup {t}
        PROVE  IInv'
    <3>1. TableInv'
      BY <1>0, <1>1, <2>2, PutLemma DEF TaskCreate, TableInv
    <3>2. ASSUME NEW q \in Requests PROVE RequestOK(req[q])'
      <4>1. CASE q = r
        BY <1>1, <4>1, IdleOK, InvSplit DEF TaskCreate, Ends
      <4>2. CASE q # r
        <5>1. req'[q] = req[q] /\ RequestOK(req[q])
          BY <1>1, <4>2, InvSplit DEF TaskCreate, Ends
        <5>2. \A k \in DOMAIN tasks : k \in DOMAIN tasks' /\ tasks'[k] = tasks[k]
          BY <1>0, <2>2, PutLemma DEF TableInv
        <5> QED
          BY <1>1, <2>2, <5>1, <5>2 DEF TaskCreate, RequestOK
      <4> QED
        BY <4>1, <4>2
    <3> QED
      BY <1>1, <3>1, <3>2, InvSplit, InvSplitNext, IdleOK DEF TaskCreate, Ends
  <2> QED
    BY <1>1, <2>1, <2>2 DEF TaskCreate
<1>2. CASE TaskUpdate(r)
  <2>1. CASE ~open
    BY <1>2, <2>1, EndsStep DEF TaskUpdate
  <2>2. CASE open
    <3> DEFINE t == req[r].task
    <3>1. t \in TaskIds /\ t \in spent /\ req[r].row \in Row
      BY <1>0, <1>2 DEF TaskUpdate, At, RequestOK, TableInv
    <3>2. Put(t, req[r].row) /\ EndsWriting(r, t) /\ UNCHANGED <<open, members, invited, history>>
      BY <1>2, <2>2 DEF TaskUpdate
    <3> HIDE DEF t
    <3>3. TableInv'
      BY <1>0, <2>2, <3>1, <3>2, PutLemma DEF TableInv
    <3>4. req' \in [Requests -> Request] /\ \A q \in Requests : RequestOK(req[q])'
      BY <1>0, <3>1, <3>2, PutLemma, EndsWritingStep
    <3> QED
      BY <3>3, <3>4, InvSplitNext
  <2> QED
    BY <2>1, <2>2 DEF TaskUpdate
<1>3. CASE TaskDelete(r)
  <2> DEFINE t == req[r].task
  <2>1. t \in TaskIds \cup {NoTask} /\ EndsWriting(r, t)
    BY <1>0, <1>3 DEF TaskDelete, Request
  <2>2. tasks' = [k \in DOMAIN tasks \ {t} |-> tasks[k]]
    BY <1>3 DEF TaskDelete
  <2> HIDE DEF t
  <2>3. TableInv'
    BY <1>0, <1>3, <2>2 DEF TaskDelete, TableInv
  <2>4. req' \in [Requests -> Request] /\ \A q \in Requests : RequestOK(req[q])'
    BY <1>3, <2>1, <2>2, EndsWritingStep DEF TaskDelete
  <2> QED
    BY <2>3, <2>4, InvSplitNext
<1> QED
  BY <1>1, <1>2, <1>3

LEMMA InvNext == IInv /\ [Next]_vars => IInv'
<1> SUFFICES ASSUME IInv, [Next]_vars PROVE IInv'
  OBVIOUS
<1>1. CASE UNCHANGED vars
  <2>1. TableInv' /\ \A q : RequestOK(q)' <=> RequestOK(q)
    BY <1>1, InvSplit
    DEF TableInv, RowsHaveWorkspace, DeletedAdmitsNobody, DeletedWasMade, RequestOK, vars
  <2> QED
    BY <1>1, <2>1, InvSplit, InvSplitNext DEF vars
<1>2. CASE Next
  <2>1. CASE Create \/ Stop \/ \E u \in Users : Accept(u)
    BY <1>1, <2>1, MembershipSteps DEF Stop
  <2>2. ASSUME NEW r \in Requests,
               \/ Dies(r) \/ WorkspaceFind(r) \/ WorkspaceMember(r) \/ TaskMember(r)
               \/ Rename(r) \/ Remove(r) \/ TaskCreate(r) \/ TaskUpdate(r) \/ TaskDelete(r)
        PROVE  IInv'
    BY <2>2, ReadSteps, WorkspaceSteps, RemoveStep, TaskSteps
  <2>3. ASSUME NEW r \in Requests, NEW u \in Users,
               \/ RequireAdmin(r, "rename", u) \/ RequireAdmin(r, "remove", u)
               \/ RequireAdmin(r, "invite", u) \/ Invite(r, u) \/ TaskCreateMember(r, u)
        PROVE  IInv'
    BY <2>3, RoleSteps, WorkspaceSteps
  <2>4. ASSUME NEW r \in Requests, NEW u \in Users, NEW t \in DOMAIN tasks,
               TaskDeleteFind(r, u, t) \/ \E row \in Row : TaskUpdateFind(r, u, t, row)
        PROVE  IInv'
    BY <2>4, TaskFindSteps
  <2> QED
    BY <1>2, <2>1, <2>2, <2>3, <2>4 DEF Next
<1> QED
  BY <1>1, <1>2

LEMMA Invariant == Spec => []IInv
  BY InvInit, InvNext, PTL DEF Spec

\* Type correctness: every variable keeps its type; in particular every task
\* in the table has an id that Create has given out.
THEOREM WorkspaceTyped == Spec => []TypeOK
<1>1. IInv => TypeOK
  BY DEF IInv
<1> QED
  BY <1>1, Invariant, PTL

\* A workspace that has been deleted admits nobody again, through no
\* interleaving of Delete with Update's Save, the role checks of rbac.go, the
\* invitations and their acceptance, an Invite overtaken by the deletion apart.
THEOREM DeletionIsFinal == Spec => []DeletedAdmitsNobody
<1>1. IInv => DeletedAdmitsNobody
  BY DEF IInv
<1> QED
  BY <1>1, Invariant, PTL

\* No task, member or invitation is left or put back outside the workspace,
\* whatever passed its checks before the deletion.
THEOREM NoOrphans == Spec => []RowsHaveWorkspace
<1>1. IInv => RowsHaveWorkspace
  BY DEF IInv
<1> QED
  BY <1>1, Invariant, PTL

\* Whoever comes to a write was found to be a member and is one still, unless
\* the workspace was deleted after the request began.
THEOREM WritersBelong == Spec => []WritersAreMembers
<1>1. IInv => WritersAreMembers
  BY DEF IInv
<1> QED
  BY <1>1, Invariant, PTL

\* No lost update of a task, unless the writer's copy was overtaken: shown for
\* each step from the copies that IInv keeps fresh.
THEOREM NoLostUpdates == Spec => NoLostUpdateUnlessStale
<1> DEFINE Asked(t) ==
      /\ t \in DOMAIN tasks
      /\ \A f \in Fields : tasks'[t][f] # tasks[t][f] =>
           \E r \in Requests : At(r, "write", "updateTask") /\ req[r].task = t /\ f \in req[r].sets
<1> DEFINE Overtaken(t) ==
      \E r \in Requests : At(r, "write", "updateTask") /\ req[r].task = t /\ req[r].stale /\ req'[r] = Idle
<1> DEFINE Step == \A t \in DOMAIN tasks' \cap spent :
      \/ /\ t \in DOMAIN tasks
         /\ \A f \in Fields : tasks'[t][f] # tasks[t][f] =>
              \E r \in Requests : At(r, "write", "updateTask") /\ req[r].task = t /\ f \in req[r].sets
      \/ \E r \in Requests : At(r, "write", "updateTask") /\ req[r].task = t /\ req[r].stale /\ req'[r] = Idle
<1>1. IInv /\ Next => Step \/ UNCHANGED tasks
  <2> SUFFICES ASSUME IInv, Next, tasks' # tasks PROVE Step
    OBVIOUS
  <2>0. TableInv
    BY InvSplit
  <2>1. \/ \E r \in Requests : Remove(r) \/ TaskCreate(r) \/ TaskUpdate(r) \/ TaskDelete(r)
    BY Zenon DEF Next, Create, Stop, Accept, Dies, RequireAdmin, Invite, WorkspaceFind, WorkspaceMember, Rename,
       TaskCreateMember, TaskUpdateFind, TaskDeleteFind, TaskMember, tables, vars
  <2>2. ASSUME NEW r \in Requests, Remove(r) PROVE Step
    BY <2>2 DEF Remove, tables
  <2>3. ASSUME NEW r \in Requests, TaskCreate(r) PROVE Step
    <3>1. PICK t \in TaskIds \ spent, row \in Row : Put(t, row)
      BY <2>3 DEF TaskCreate
    <3>2. \A k \in DOMAIN tasks' \cap spent : k \in DOMAIN tasks /\ tasks'[k] = tasks[k]
      BY <2>0, <3>1, PutLemma
    <3> QED
      BY <3>2
  <2>4. ASSUME NEW r \in Requests, TaskDelete(r) PROVE Step
    BY <2>4 DEF TaskDelete
  <2>5. ASSUME NEW r \in Requests, TaskUpdate(r) PROVE Step
    <3> DEFINE k == req[r].task
    <3>1. At(r, "write", "updateTask") /\ Put(k, req[r].row) /\ req'[r] = Idle
      BY <2>5 DEF TaskUpdate, EndsWriting
    <3>2. RequestOK(req[r]) /\ k \in TaskIds /\ req[r].row \in Row
      BY <2>0, <3>1, InvSplit DEF RequestOK, At, TableInv
    <3>3. /\ DOMAIN tasks' = DOMAIN tasks \cup {k} /\ tasks'[k] = req[r].row
          /\ \A t \in DOMAIN tasks \ {k} : tasks'[t] = tasks[t]
      BY <2>0, <3>1, <3>2, PutLemma
    <3>4. Overtaken(k) \/ Asked(k)
      <4>1. CASE req[r].stale
        BY <3>1, <4>1
      <4>2. CASE ~req[r].stale
        BY <3>1, <3>2, <3>3, <4>2 DEF RequestOK, At
      <4> QED
        BY <4>1, <4>2
    <3>5. ASSUME NEW t \in DOMAIN tasks' \cap spent, t # k PROVE Asked(t)
      BY <3>3, <3>5
    <3> QED
      BY <3>4, <3>5
  <2> QED
    BY <2>1, <2>2, <2>3, <2>4, <2>5
<1> HIDE DEF Asked, Overtaken
<1>2. IInv /\ [Next]_vars => [Step]_tasks
  BY <1>1 DEF vars
<1> QED
  BY <1>2, Invariant, PTL DEF Spec, NoLostUpdateUnlessStale
-----------------------------------------------------------------------------
(***************************************************************************)
(* The lists of a workspace's rows (Listings), for any number of rows,     *)
(* pages and time stamps.  What a walk has seen is described by places in  *)
(* the order: a query with an OFFSET returns the rows in certain places,   *)
(* an insertion moves the rows behind it one place back and no others.     *)
(***************************************************************************)
HIDE WorkspaceAssumption
USE ListingAssumption

\* A row's place: how many rows are before it.  Skipped is the OFFSET of the
\* next query: the places of the pages read so far.
Ahead(i) == {j \in rows : Before(j, i)}
Position(i) == Cardinality(Ahead(i))
Skipped == Offset(walk.page, HandlerSize(walk.asked))
Without(E) == walk.excuse \cap E = {}
Paging == Walking /\ kind # "history"
Scrolling == Walking /\ kind = "history"

TiesAreKnown == Walking /\ Without({"tied"}) => ~Ties
StartIsKept == Walking /\ Without({"deleted"}) => walk.start \subseteq rows

\* Why nothing is missed.  The rows of the start are within the number that
\* was counted, those in the places already read have been seen, and so have
\* the messages that are not below the cursor.
TotalCounts ==
  Paging /\ walk.pc = "rows" /\ Without({"deleted", "raced", "tied"}) =>
    \A i \in walk.start : Position(i) < walk.total
SkippedIsSeen ==
  Paging /\ Without({"deleted", "tied"}) =>
    \A i \in walk.start : Position(i) < Skipped => i \in walk.got
NewerIsSeen ==
  Scrolling /\ Without({"deleted", "tied"}) /\ walk.last # NoStamp =>
    \A i \in walk.start : stamp[i] >= walk.last => i \in walk.got
DoneHasAll == walk.pc = "done" /\ Without({"deleted", "raced", "tied"}) => walk.start \subseteq walk.got

\* Why nothing comes twice.  What has been seen has its place, deleted or not,
\* among those already read, and a message seen is not below the cursor.
SeenIsSkipped ==
  Paging /\ Without({"shifted", "tied"}) => \A i \in walk.got : Position(i) < Skipped
SeenIsNewer ==
  Scrolling => IF walk.last = NoStamp THEN walk.got = {}
               ELSE \A i \in walk.got : stamp[i] >= walk.last
SeenIsStamped == \A i \in walk.got : stamp[i] # NoStamp

MissInv == TotalCounts /\ SkippedIsSeen /\ NewerIsSeen /\ DoneHasAll
TwiceInv == SeenIsSkipped /\ SeenIsNewer /\ SeenIsStamped /\ NoneTwice
ListInv == ListTypeOK /\ TiesAreKnown /\ StartIsKept /\ MissInv /\ TwiceInv

\* The rows in the table have been stamped.
LEMMA StampType ==
  ASSUME ListTypeOK
  PROVE  /\ rows \subseteq Items
         /\ \A i \in Items : stamp[i] # NoStamp => stamp[i] \in Nat
         /\ \A i \in rows : stamp[i] \in Nat
         /\ \A s \in Stamps : s # NoStamp
  BY DEF ListTypeOK, Stamps

\* The sets of rows are finite, and a part is smaller than the whole.
LEMMA ItemSets ==
  ASSUME NEW T \in SUBSET Items
  PROVE  /\ IsFiniteSet(T) /\ Cardinality(T) \in Nat
         /\ \A S \in SUBSET T : /\ IsFiniteSet(S) /\ Cardinality(S) \in Nat
                                /\ Cardinality(S) <= Cardinality(T)
                                /\ S # T => Cardinality(S) < Cardinality(T)
<1>1. IsFiniteSet(T) /\ Cardinality(T) \in Nat
  BY FS_Subset, FS_CardinalityType
<1>2. ASSUME NEW S \in SUBSET T
      PROVE  /\ IsFiniteSet(S) /\ Cardinality(S) \in Nat
             /\ Cardinality(S) <= Cardinality(T)
             /\ S # T => Cardinality(S) < Cardinality(T)
  BY <1>1, FS_Subset, FS_CardinalityType
<1>3. QED
  BY <1>1, <1>2

\* The next page begins where this one ends.
LEMMA NextOffset ==
  ASSUME NEW page \in Nat \ {0}, NEW size \in Nat \ {0}
  PROVE  /\ Offset(page, size) \in Nat
         /\ Offset(page + 1, size) = Offset(page, size) + size
  BY DEF Offset

LEMMA FirstOffset ==
  ASSUME NEW size \in Nat
  PROVE  Offset(1, size) = 0
  BY DEF Offset

\* The page of the number TotalPages, rounded up, holds the last row counted.
LEMMA LastPage ==
  ASSUME NEW page \in Nat \ {0}, NEW size \in Nat \ {0}, NEW total \in Nat,
         ~(page < TotalPages(total, size))
  PROVE  total <= Offset(page + 1, size)
  BY DEF Offset, TotalPages

\* If there is another page, it begins before the last row counted.
LEMMA NotLastPage ==
  ASSUME NEW page \in Nat \ {0}, NEW size \in Nat \ {0}, NEW total \in Nat,
         page < TotalPages(total, size)
  PROVE  Offset(page + 1, size) <= total
  BY DEF Offset, TotalPages

\* The handler and the service replace the same page sizes by the same default.
LEMMA SizeType ==
  ASSUME NEW n \in 0..MaxSize
  PROVE  HandlerSize(n) \in Nat \ {0} /\ ServiceSize(n) = HandlerSize(n)
  BY DEF HandlerSize, ServiceSize

LEMMA SkippedType ==
  ASSUME ListTypeOK
  PROVE  /\ Skipped \in Nat /\ walk.page \in Nat \ {0} /\ HandlerSize(walk.asked) \in Nat \ {0}
         /\ ServiceSize(walk.asked) = HandlerSize(walk.asked)
<1>1. walk.page \in Nat \ {0} /\ walk.asked \in 0..MaxSize
  BY DEF ListTypeOK, Walk
<1>2. QED
  BY <1>1, SizeType, NextOffset DEF Skipped

\* The rows before which nothing is left out are those in the first places.
LEMMA PrefixPositions ==
  ASSUME ListTypeOK, ~Ties, NEW B \in SUBSET rows,
         \A i \in B, j \in rows \ B : ~Before(j, i), NEW i \in rows
  PROVE  i \in B <=> Position(i) < Cardinality(B)
<1>1. Position(i) \in Nat /\ Cardinality(B) \in Nat
  BY ItemSets, StampType DEF Position, Ahead
<1>2. CASE i \in B
  <2>1. Ahead(i) \subseteq B /\ i \notin Ahead(i)
    BY <1>2, StampType DEF Ahead, Before
  <2>2. QED
    BY <2>1, <1>2, ItemSets, StampType DEF Position
<1>3. CASE i \notin B
  <2>1. B \subseteq Ahead(i)
    BY <1>3, StampType DEF Ahead, Before, Ties
  <2>2. Ahead(i) \in SUBSET rows
    BY DEF Ahead
  <2>3. Cardinality(B) <= Position(i)
    BY <2>1, <2>2, ItemSets, StampType DEF Position
  <2>4. QED
    BY <2>3, <1>1, <1>3
<1>4. QED
  BY <1>2, <1>3

\* Without ties, a query returns the rows in the places from o to o + n - 1.
LEMMA PagePositions ==
  ASSUME ListTypeOK, ~Ties, NEW o \in Nat, NEW n \in Nat \ {0}, NEW R \in Answers(rows, o, n)
  PROVE  \A i \in rows : i \in R <=> o <= Position(i) /\ Position(i) < o + n
<1>1. PICK B \in SUBSET (rows \ R) :
        /\ Cardinality(B) = IF o < Cardinality(rows) THEN o ELSE Cardinality(rows)
        /\ Cardinality(R) = IF n < Cardinality(rows) - Cardinality(B)
                            THEN n ELSE Cardinality(rows) - Cardinality(B)
        /\ \A i \in B, j \in rows \ B : ~Before(j, i)
        /\ \A i \in R, j \in rows \ (B \cup R) : ~Before(j, i)
  BY DEF Answers
<1>2. R \subseteq rows /\ B \subseteq rows /\ B \cap R = {} /\ B \cup R \in SUBSET rows
  BY DEF Answers
<1>3. Cardinality(B \cup R) = Cardinality(B) + Cardinality(R)
  <2>1. IsFiniteSet(B) /\ IsFiniteSet(R) /\ Cardinality(B) \in Nat /\ Cardinality(R) \in Nat
    BY <1>2, ItemSets, StampType
  <2>2. Cardinality(B \cup R) = Cardinality(B) + Cardinality(R) - Cardinality(B \cap R)
    BY <2>1, FS_Union
  <2>3. Cardinality(B \cap R) = 0
    BY <1>2, FS_EmptySet, Zenon
  <2>4. QED
    BY <2>1, <2>2, <2>3
<1>4. PICK b \in Nat, r \in Nat, t \in Nat :
        b = Cardinality(B) /\ r = Cardinality(R) /\ t = Cardinality(rows)
  BY <1>2, ItemSets, StampType
<1>5. SUFFICES ASSUME NEW i \in rows
               PROVE  i \in R <=> o <= Position(i) /\ Position(i) < o + n
  OBVIOUS
<1>6. PICK p \in Nat : p = Position(i) /\ p < t
  <2>1. Ahead(i) \in SUBSET rows /\ i \notin Ahead(i)
    BY StampType DEF Ahead, Before
  <2>2. QED
    BY <2>1, <1>4, ItemSets, StampType DEF Position
<1>7. i \in B <=> p < b
  BY <1>1, <1>2, <1>4, <1>6, PrefixPositions
<1>8. i \in B \cup R <=> p < b + r
  <2>1. \A k \in B \cup R, j \in rows \ (B \cup R) : ~Before(j, k)
    BY <1>1
  <2>2. i \in B \cup R <=> Position(i) < Cardinality(B \cup R)
    BY <1>2, <2>1, PrefixPositions
  <2>3. QED
    BY <2>2, <1>3, <1>4, <1>6
<1>9. i \in R <=> b <= p /\ p < b + r
  BY <1>7, <1>8, <1>2
<1>10. b = (IF o < t THEN o ELSE t) /\ r = (IF n < t - b THEN n ELSE t - b)
  BY <1>1, <1>4
<1>11. i \in R <=> o <= p /\ p < o + n
  BY <1>6, <1>9, <1>10
<1>12. QED
  BY <1>11, <1>6

LEMMA PositionType ==
  ASSUME ListTypeOK, NEW i
  PROVE  Position(i) \in Nat
  BY ItemSets, StampType DEF Position, Ahead

-----------------------------------------------------------------------------
\* The invariant holds at the beginning, and ListTypeOK after every step.
LEMMA WalkInit == ListInit => ListInv
  BY DEF ListInit, ListInv, ListTypeOK, NoWalk, TiesAreKnown, StartIsKept, MissInv, TotalCounts,
         SkippedIsSeen, NewerIsSeen, DoneHasAll, TwiceInv, SeenIsSkipped, SeenIsNewer, SeenIsStamped,
         NoneTwice, Walking, Paging, Scrolling, Stamps, Walk

LEMMA NoWalkType == NoWalk \in Walk /\ NoWalk.twice = {} /\ NoWalk.got = {}
  BY DEF NoWalk, Walk, Excuses

LEMMA WalkTypeStep == ListTypeOK /\ [ListNext]_listVars => ListTypeOK'
<1> SUFFICES ASSUME ListTypeOK, [ListNext]_listVars
             PROVE  ListTypeOK'
  OBVIOUS
<1>1. CASE Tick
  BY <1>1 DEF ListTypeOK, Tick, Stamps
<1>2. CASE Count
  <2>1. Cardinality(rows) \in Nat
    BY ItemSets, StampType
  <2>2. QED
    BY <1>2, <2>1 DEF ListTypeOK, Count, Walk
<1>3. ASSUME NEW R \in SUBSET rows, NEW pc \in {"count", "rows"}, NEW last \in Stamps \cup {NoStamp},
             GoOn(R, pc, last) \/ Finish(R), UNCHANGED <<kind, clock, stamp, rows>>
      PROVE  ListTypeOK'
  <2> DEFINE got == walk.got \cup R  twice == walk.twice \cup (walk.got \cap R)
  <2>1. /\ walk \in Walk /\ walk.page + 1 \in Nat \ {0}
        /\ got \in SUBSET Items /\ twice \in SUBSET Items /\ twice \subseteq got
    BY StampType DEF ListTypeOK, Walk
  <2> HIDE DEF got, twice
  <2>2. CASE GoOn(R, pc, last)
    <3>1. walk' = [walk EXCEPT !.pc = pc, !.page = walk.page + 1, !.last = last,
                               !.got = got, !.twice = twice]
      BY <2>2 DEF GoOn, got, twice
    <3>2. walk' \in Walk /\ walk'.twice \subseteq walk'.got
      BY <2>1, <3>1 DEF Walk
    <3>3. QED
      BY <1>3, <3>2 DEF ListTypeOK
  <2>3. CASE Finish(R)
    <3>1. walk' = [NoWalk EXCEPT !.pc = "done", !.got = got, !.twice = twice,
                                 !.start = walk.start, !.excuse = walk.excuse]
      BY <2>3 DEF Finish, got, twice
    <3>2. walk' \in Walk /\ walk'.twice \subseteq walk'.got
      BY <2>1, <3>1, NoWalkType DEF Walk
    <3>3. QED
      BY <1>3, <3>2 DEF ListTypeOK
  <2>4. QED
    BY <1>3, <2>2, <2>3
<1>4. CASE PageRows
  <2>1. PICK R \in SUBSET rows : GoOn(R, "count", NoStamp) \/ Finish(R)
    BY <1>4 DEF PageRows, Answers
  <2>2. QED
    BY <1>3, <1>4, <2>1 DEF PageRows
<1>5. CASE NextMessages
  <2>1. PICK R \in SUBSET rows : (\E i \in R : GoOn(R, "rows", stamp[i])) \/ Finish(R)
    BY <1>5 DEF NextMessages, Answers, Older
  <2>2. \A i \in R : stamp[i] \in Stamps
    BY DEF ListTypeOK, Stamps
  <2>3. QED
    BY <1>3, <1>5, <2>1, <2>2 DEF NextMessages
<1>6. CASE EndWalk
  BY <1>6, NoWalkType DEF ListTypeOK, EndWalk
<1>7. ASSUME NEW i \in Items, Begin(i)
      PROVE  ListTypeOK'
  <2>1. stamp' \in [Items -> 0..clock \cup {NoStamp}]
    BY <1>7 DEF ListTypeOK, Begin, Stamps
  <2>2. \A j \in rows : stamp'[j] # NoStamp
    BY <1>7, StampType DEF ListTypeOK, Begin
  <2>3. QED
    BY <1>7, <2>1, <2>2 DEF ListTypeOK, Begin
<1>8. ASSUME NEW i \in Items, Commit(i)
      PROVE  ListTypeOK'
  <2>1. ExcuseOf(i) \in SUBSET Excuses
    BY DEF ExcuseOf, Excuses
  <2>2. walk' = walk \/ walk' = [walk EXCEPT !.excuse = @ \cup ExcuseOf(i)]
    BY <1>8 DEF Commit
  <2>3. QED
    BY <1>8, <2>1, <2>2 DEF ListTypeOK, Commit, Walk
<1>9. ASSUME NEW i \in Items, Delete(i)
      PROVE  ListTypeOK'
  BY <1>9 DEF ListTypeOK, Delete, Excuses, Walk
<1>10. ASSUME NEW n \in 0..MaxSize, StartWalk(n)
       PROVE  ListTypeOK'
  <2>1. PICK pc \in {"count", "rows"}, excuse \in SUBSET Excuses :
          walk' = [NoWalk EXCEPT !.pc = pc, !.asked = n, !.start = rows, !.excuse = excuse]
    BY <1>10 DEF StartWalk, Excuses
  <2>2. rows \in SUBSET Items
    BY StampType
  <2>3. walk' \in Walk /\ walk'.twice \subseteq walk'.got
    BY <2>1, <2>2, NoWalkType DEF Walk
  <2>4. QED
    BY <1>10, <2>3 DEF ListTypeOK, StartWalk
<1>11. CASE UNCHANGED listVars
  BY <1>11 DEF ListTypeOK, listVars
<1>12. QED
  BY <1>1, <1>2, <1>4, <1>5, <1>6, <1>7, <1>8, <1>9, <1>10, <1>11 DEF ListNext

\* Every reachable state of a listing and its walk is well typed: only rows that
\* were stamped are in the table.
THEOREM ListTypes == ListSpec => []ListTypeOK
<1>1. ListInit => ListTypeOK
  BY WalkInit DEF ListInv
<1>2. QED
  BY <1>1, WalkTypeStep, PTL DEF ListSpec
-----------------------------------------------------------------------------
\* A step that changes neither the walk nor the order of the rows in it.
LEMMA SameOrder ==
  ASSUME ListInv, ListTypeOK', walk' = walk, kind' = kind, rows' = rows,
         \A i \in Items : stamp[i] # NoStamp => stamp'[i] = stamp[i]
  PROVE  ListInv'
<1>1. /\ \A i \in rows : i \in Items /\ stamp'[i] = stamp[i]
      /\ \A i \in walk.got : i \in Items /\ stamp[i] # NoStamp /\ stamp'[i] = stamp[i]
  BY StampType DEF ListInv, TwiceInv, SeenIsStamped, ListTypeOK, Walk
<1>2. \A i \in rows \cup walk.got : Position(i)' = Position(i)
  <2> SUFFICES ASSUME NEW i \in rows \cup walk.got
               PROVE  Ahead(i)' = Ahead(i)
    BY DEF Position
  <2> QED
    BY <1>1 DEF Ahead, Before
<1>3. /\ Walking' = Walking /\ Paging' = Paging /\ Scrolling' = Scrolling /\ Skipped' = Skipped
      /\ Ties' = Ties
  BY <1>1 DEF Walking, Paging, Scrolling, Skipped, Ties
<1>4. TiesAreKnown' /\ StartIsKept' /\ DoneHasAll' /\ NoneTwice' /\ SeenIsStamped'
  BY <1>1, <1>3 DEF ListInv, MissInv, TwiceInv, TiesAreKnown, StartIsKept, DoneHasAll, NoneTwice,
       SeenIsStamped, Without
<1>5. TotalCounts' /\ SkippedIsSeen'
  BY <1>2, <1>3 DEF ListInv, MissInv, TotalCounts, SkippedIsSeen, StartIsKept, Without, Paging
<1>6. SeenIsSkipped'
  BY <1>2, <1>3 DEF ListInv, TwiceInv, SeenIsSkipped, Without
<1>7. NewerIsSeen' /\ SeenIsNewer'
  BY <1>1, <1>3 DEF ListInv, MissInv, TwiceInv, NewerIsSeen, SeenIsNewer, StartIsKept, Without, Scrolling
<1>8. QED
  BY <1>4, <1>5, <1>6, <1>7 DEF ListInv, MissInv, TwiceInv

\* The insertion of row i moves the rows behind it.
LEMMA CommitPositions ==
  ASSUME ListTypeOK, NEW i \in Items, Commit(i), NEW k
  PROVE  /\ Position(k) \in Nat /\ Position(k)' \in Nat
         /\ Position(k) <= Position(k)'
         /\ ~Before(i, k) => Position(k)' = Position(k)
<1>1. /\ Ahead(k)' = {j \in rows \cup {i} : Before(j, k)}
      /\ Ahead(k) \subseteq Ahead(k)' /\ Ahead(k)' \in SUBSET Items
      /\ ~Before(i, k) => Ahead(k)' = Ahead(k)
  BY StampType DEF Commit, Ahead, Before
<1>2. QED
  BY <1>1, ItemSets DEF Position

LEMMA CommitInv ==
  ASSUME ListInv, ListTypeOK', NEW i \in Items, Commit(i)
  PROVE  ListInv'
<1>1. /\ ListTypeOK /\ kind' = kind /\ stamp' = stamp /\ rows' = rows \cup {i}
      /\ walk' = IF Walking THEN [walk EXCEPT !.excuse = @ \cup ExcuseOf(i)] ELSE walk
  BY DEF ListInv, Commit
<1>2. CASE ~Walking
  BY <1>1, <1>2 DEF ListInv, MissInv, TwiceInv, TiesAreKnown, StartIsKept, DoneHasAll, NoneTwice, SeenIsStamped,
       TotalCounts, SkippedIsSeen, SeenIsSkipped, NewerIsSeen, SeenIsNewer, Walking, Paging, Scrolling, Without
<1>3. CASE Walking
  <2>1. /\ walk'.pc = walk.pc /\ walk'.page = walk.page /\ walk'.asked = walk.asked
        /\ walk'.total = walk.total /\ walk'.last = walk.last /\ walk'.got = walk.got
        /\ walk'.twice = walk.twice /\ walk'.start = walk.start
        /\ walk'.excuse = walk.excuse \cup ExcuseOf(i)
    BY <1>1, <1>3 DEF ListTypeOK, Walk
  <2>2. /\ Walking' = Walking /\ Paging' = Paging /\ Scrolling' = Scrolling /\ Skipped' = Skipped
    BY <1>1, <2>1 DEF Walking, Paging, Scrolling, Skipped
  <2>3. \A E : Without(E)' => Without(E) /\ ExcuseOf(i) \cap E = {}
    BY <2>1 DEF Without
  <2>4. TiesAreKnown' /\ StartIsKept'
    <3>1. "tied" \notin ExcuseOf(i) => \A j \in rows : stamp[j] # stamp[i]
      BY DEF ExcuseOf
    <3>2. TiesAreKnown'
      BY <1>1, <2>2, <2>3, <3>1 DEF TiesAreKnown, ListInv, Ties
    <3>3. StartIsKept'
      BY <1>1, <2>1, <2>2, <2>3 DEF StartIsKept, ListInv
    <3>4. QED
      BY <3>2, <3>3
  <2>5. TotalCounts'
    <3>1. Paging /\ walk.pc = "rows" /\ ExcuseOf(i) \cap {"deleted", "raced", "tied"} = {} =>
            \A j \in rows : ~Before(i, j)
      BY DEF ExcuseOf
    <3>2. Paging /\ walk.pc = "rows" /\ Without({"deleted", "raced", "tied"})' =>
            \A j \in walk.start : Position(j)' = Position(j)
      BY <1>1, <2>3, <3>1, CommitPositions DEF StartIsKept, ListInv, Without, Paging
    <3>3. QED
      BY <2>1, <2>2, <2>3, <3>2 DEF TotalCounts, ListInv, MissInv
  <2>6. SkippedIsSeen'
    <3>1. \A j : Position(j)' < Skipped => Position(j) < Skipped
      BY <1>1, SkippedType, CommitPositions
    <3>2. QED
      BY <2>1, <2>2, <2>3, <3>1 DEF SkippedIsSeen, ListInv, MissInv
  <2>7. SeenIsSkipped'
    <3>1. ExcuseOf(i) \cap {"shifted", "tied"} = {} => \A j \in walk.got : Position(j)' = Position(j)
      BY <1>1, CommitPositions DEF ExcuseOf
    <3>2. QED
      BY <2>1, <2>2, <2>3, <3>1 DEF SeenIsSkipped, ListInv, TwiceInv
  <2>8. NewerIsSeen' /\ SeenIsNewer' /\ SeenIsStamped'
    BY <1>1, <2>1, <2>2, <2>3 DEF NewerIsSeen, SeenIsNewer, SeenIsStamped, ListInv, MissInv, TwiceInv
  <2>9. DoneHasAll' /\ NoneTwice'
    BY <1>1, <1>3, <2>1 DEF DoneHasAll, NoneTwice, ListInv, TwiceInv, Walking
  <2>10. QED
    BY <2>4, <2>5, <2>6, <2>7, <2>8, <2>9 DEF ListInv, MissInv, TwiceInv
<1>4. QED
  BY <1>2, <1>3

\* A deletion moves rows to the front: what was in a place already read stays
\* there, but what was behind it may come there unseen.
LEMMA DeleteInv ==
  ASSUME ListInv, ListTypeOK', NEW i \in Items, Delete(i)
  PROVE  ListInv'
<1>1. /\ ListTypeOK /\ kind' = kind /\ kind = "newest" /\ stamp' = stamp /\ rows' = rows \ {i}
      /\ walk' = IF Walking THEN [walk EXCEPT !.excuse = @ \cup {"deleted"}] ELSE walk
  BY DEF ListInv, Delete
<1>2. CASE ~Walking
  BY <1>1, <1>2 DEF ListInv, MissInv, TwiceInv, TiesAreKnown, StartIsKept, DoneHasAll, NoneTwice, SeenIsStamped,
       TotalCounts, SkippedIsSeen, SeenIsSkipped, NewerIsSeen, SeenIsNewer, Walking, Paging, Scrolling, Without
<1>3. CASE Walking
  <2>1. /\ walk'.pc = walk.pc /\ walk'.page = walk.page /\ walk'.asked = walk.asked
        /\ walk'.got = walk.got /\ walk'.twice = walk.twice
        /\ walk'.excuse = walk.excuse \cup {"deleted"}
    BY <1>1, <1>3 DEF ListTypeOK, Walk
  <2>2. Walking' = Walking /\ Paging' = Paging /\ Skipped' = Skipped /\ ~Scrolling'
    BY <1>1, <2>1 DEF Walking, Paging, Scrolling, Skipped
  <2>3. ~Without({"deleted"})' /\ ~Without({"deleted", "tied"})' /\ ~Without({"deleted", "raced", "tied"})'
    BY <2>1 DEF Without
  <2>4. TiesAreKnown'
    BY <1>1, <2>1, <2>2 DEF TiesAreKnown, ListInv, Ties, Without
  <2>5. StartIsKept' /\ MissInv'
    BY <2>2, <2>3 DEF StartIsKept, MissInv, TotalCounts, SkippedIsSeen, NewerIsSeen, DoneHasAll
  <2>6. SeenIsSkipped'
    <3>1. \A j : Position(j) < Skipped => Position(j)' < Skipped
      <4> SUFFICES ASSUME NEW j, Position(j) < Skipped
                   PROVE  Position(j)' < Skipped
        OBVIOUS
      <4>1. Ahead(j)' \in SUBSET Ahead(j) /\ Ahead(j) \in SUBSET Items
        BY <1>1, StampType DEF Ahead, Before
      <4>2. Position(j)' \in Nat /\ Position(j) \in Nat /\ Position(j)' <= Position(j)
        BY <4>1, ItemSets DEF Position
      <4>3. QED
        BY <1>1, <4>2, SkippedType
    <3>2. QED
      BY <2>1, <2>2, <3>1 DEF SeenIsSkipped, ListInv, TwiceInv, Without
  <2>7. SeenIsNewer' /\ SeenIsStamped'
    BY <1>1, <2>1, <2>2 DEF SeenIsNewer, SeenIsStamped, ListInv, TwiceInv
  <2>8. NoneTwice'
    BY <1>1, <2>1 DEF NoneTwice, ListInv, TwiceInv
  <2>9. QED
    BY <2>4, <2>5, <2>6, <2>7, <2>8 DEF ListInv, TwiceInv
<1>4. QED
  BY <1>2, <1>3

LEMMA StartWalkInv ==
  ASSUME ListInv, ListTypeOK', NEW n \in 0..MaxSize, StartWalk(n)
  PROVE  ListInv'
<1>1. /\ kind' = kind /\ stamp' = stamp /\ rows' = rows
      /\ walk'.page = 1 /\ walk'.asked = n /\ walk'.last = NoStamp /\ walk'.got = {}
      /\ walk'.twice = {} /\ walk'.start = rows /\ walk'.excuse = IF Ties THEN {"tied"} ELSE {}
      /\ walk'.pc = IF kind = "history" THEN "rows" ELSE "count"
  BY DEF StartWalk, NoWalk
<1>2. TiesAreKnown' /\ StartIsKept'
  BY <1>1 DEF TiesAreKnown, StartIsKept, Without, Ties
<1>3. TotalCounts' /\ NewerIsSeen' /\ DoneHasAll'
  BY <1>1 DEF TotalCounts, NewerIsSeen, DoneHasAll, Paging
<1>4. SkippedIsSeen'
  <2>1. Skipped' = 0
    BY <1>1, SizeType, FirstOffset DEF Skipped
  <2>2. \A i : ~(Position(i)' < 0)
    <3> SUFFICES ASSUME NEW i
                 PROVE  Position(i)' \in Nat
      OBVIOUS
    <3>1. Ahead(i)' \in SUBSET Items
      BY <1>1, StampType DEF Ahead, ListInv
    <3>2. QED
      BY <3>1, ItemSets DEF Position
  <2>3. QED
    BY <2>1, <2>2 DEF SkippedIsSeen
<1>5. TwiceInv'
  BY <1>1 DEF TwiceInv, SeenIsSkipped, SeenIsNewer, SeenIsStamped, NoneTwice
<1>6. QED
  BY <1>2, <1>3, <1>4, <1>5 DEF ListInv, MissInv

\* The rows of the start are among those counted.
LEMMA CountInv ==
  ASSUME ListInv, ListTypeOK', Count
  PROVE  ListInv'
<1>1. /\ ListTypeOK /\ kind' = kind /\ stamp' = stamp /\ rows' = rows
      /\ walk.pc = "count" /\ walk'.pc = "rows" /\ walk'.page = walk.page /\ walk'.asked = walk.asked
      /\ walk'.total = Cardinality(rows) /\ walk'.last = walk.last /\ walk'.got = walk.got
      /\ walk'.twice = walk.twice /\ walk'.start = walk.start
      /\ walk'.excuse = walk.excuse \ {"raced"}
  BY DEF ListInv, Count, ListTypeOK, Walk
<1>2. /\ Walking /\ Walking' /\ Paging' = Paging /\ Scrolling' = Scrolling /\ Skipped' = Skipped /\ Ties' = Ties
  BY <1>1 DEF Walking, Paging, Scrolling, Skipped, Ties
<1>3. \A i : Position(i)' = Position(i)
  BY <1>1 DEF Position, Ahead, Before
<1>4. \A E : "raced" \notin E /\ Without(E)' => Without(E)
  BY <1>1 DEF Without
<1>5. TiesAreKnown' /\ StartIsKept'
  BY <1>1, <1>2, <1>4 DEF ListInv, TiesAreKnown, StartIsKept
<1>6. TotalCounts'
  <2>1. Without({"deleted", "raced", "tied"})' => walk.start \subseteq rows
    BY <1>1, <1>2 DEF ListInv, StartIsKept, Without
  <2>2. ASSUME NEW i \in rows
        PROVE  Position(i) < Cardinality(rows)
    <3>1. Ahead(i) \in SUBSET rows /\ i \notin Ahead(i)
      BY <1>1, StampType DEF Ahead, Before
    <3>2. QED
      BY <1>1, <3>1, ItemSets, StampType DEF Position
  <2>3. QED
    BY <1>1, <1>3, <2>1, <2>2 DEF TotalCounts
<1>7. SkippedIsSeen' /\ SeenIsSkipped'
  BY <1>1, <1>2, <1>3, <1>4 DEF ListInv, MissInv, TwiceInv, SkippedIsSeen, SeenIsSkipped
<1>8. NewerIsSeen' /\ SeenIsNewer' /\ SeenIsStamped'
  BY <1>1, <1>2, <1>4 DEF ListInv, MissInv, TwiceInv, NewerIsSeen, SeenIsNewer, SeenIsStamped
<1>9. DoneHasAll' /\ NoneTwice'
  BY <1>1 DEF ListInv, TwiceInv, DoneHasAll, NoneTwice
<1>10. QED
  BY <1>5, <1>6, <1>7, <1>8, <1>9 DEF ListInv, MissInv, TwiceInv

\* A page adds to what was seen the rows of its places: all that were missing
\* up to the end of the page, and none that was seen before.
LEMMA PageRowsInv ==
  ASSUME ListInv, ListTypeOK', PageRows
  PROVE  ListInv'
<1> DEFINE size == HandlerSize(walk.asked)
           more == walk.page < TotalPages(walk.total, size)
           next == Skipped + size
<1>1. /\ ListTypeOK /\ walk.pc = "rows" /\ kind # "history" /\ kind' = kind /\ stamp' = stamp /\ rows' = rows
      /\ Walking /\ Paging /\ ~Scrolling
  BY DEF ListInv, PageRows, Walking, Paging, Scrolling
<1>2. /\ Skipped \in Nat /\ walk.page \in Nat \ {0} /\ size \in Nat \ {0} /\ next \in Nat
      /\ next = Offset(walk.page + 1, size)
  <2>1. Skipped \in Nat /\ walk.page \in Nat \ {0} /\ size \in Nat \ {0}
    BY <1>1, SkippedType
  <2>2. Offset(walk.page + 1, size) = Offset(walk.page, size) + size
    BY <2>1, NextOffset
  <2>3. QED
    BY <2>1, <2>2 DEF Skipped
<1>3. PICK R \in Answers(rows, Skipped, size) : IF more THEN GoOn(R, "count", NoStamp) ELSE Finish(R)
  BY <1>1, SkippedType DEF PageRows, Skipped
<1>4. R \subseteq rows
  BY DEF Answers
<1>5. ~Ties => \A i \in rows : i \in R <=> Skipped <= Position(i) /\ Position(i) < next
  BY <1>1, <1>2, PagePositions
<1>6. Without({"tied"}) => ~Ties
  BY <1>1 DEF ListInv, TiesAreKnown
<1>7. Without({"deleted", "tied"}) => \A i \in walk.start : Position(i) < next => i \in walk.got \cup R
  <2> SUFFICES ASSUME Without({"deleted", "tied"}), NEW i \in walk.start, Position(i) < next, i \notin walk.got
               PROVE  i \in R
    OBVIOUS
  <2>1. i \in rows /\ ~Ties
    BY <1>1, <1>6 DEF ListInv, StartIsKept, Without
  <2>2. ~(Position(i) < Skipped)
    BY <1>1 DEF ListInv, MissInv, SkippedIsSeen
  <2>3. Skipped <= Position(i)
    BY <1>1, <1>2, <2>2, PositionType
  <2>4. QED
    BY <1>5, <2>1, <2>3
<1>8. Without({"shifted", "tied"}) => walk.got \cap R = {} /\ \A i \in walk.got \cup R : Position(i) < next
  <2> SUFFICES ASSUME Without({"shifted", "tied"})
               PROVE  walk.got \cap R = {} /\ \A i \in walk.got \cup R : Position(i) < next
    OBVIOUS
  <2>1. \A i \in R : Skipped <= Position(i) /\ Position(i) < next
    BY <1>4, <1>5, <1>6 DEF Without
  <2>2. \A i \in walk.got : Position(i) < Skipped
    BY <1>1 DEF ListInv, TwiceInv, SeenIsSkipped
  <2>3. \A i \in walk.got : Position(i) < next /\ ~(Skipped <= Position(i))
    BY <1>1, <1>2, <2>2, PositionType
  <2>4. QED
    BY <2>1, <2>3
<1>9. /\ walk'.got = walk.got \cup R /\ walk'.twice = walk.twice \cup (walk.got \cap R)
      /\ walk'.start = walk.start /\ walk'.excuse = walk.excuse /\ ~(walk'.pc = "rows")
      /\ more => walk'.pc = "count" /\ walk'.page = walk.page + 1 /\ walk'.asked = walk.asked
      /\ ~more => walk'.pc = "done"
  <2> HIDE DEF more
  <2>1. CASE more
    <3>1. walk \in Walk /\ GoOn(R, "count", NoStamp)
      BY <1>1, <1>3, <2>1 DEF ListTypeOK
    <3> HIDE DEF size
    <3> QED
      BY <2>1, <3>1 DEF GoOn, Walk
  <2>2. CASE ~more
    <3>1. Finish(R)
      BY <1>3, <2>2
    <3> QED
      BY <2>2, <3>1 DEF Finish, NoWalk
  <2>3. QED
    BY <2>1, <2>2
<1>10. \A E : Without(E)' <=> Without(E)
  BY <1>9 DEF Without
<1>11. \A i : Position(i)' = Position(i)
  BY <1>1 DEF Position, Ahead, Before
<1>12. TiesAreKnown' /\ StartIsKept'
  BY <1>1, <1>6, <1>9, <1>10 DEF ListInv, TiesAreKnown, StartIsKept, Ties
<1>13. SeenIsStamped' /\ NoneTwice'
  <2>1. SeenIsStamped'
    BY <1>1, <1>4, <1>9 DEF ListInv, TwiceInv, SeenIsStamped, ListTypeOK
  <2>2. Without({"shifted", "tied"}) => walk'.twice = {}
    BY <1>1, <1>8, <1>9 DEF ListInv, TwiceInv, NoneTwice, Without
  <2>3. QED
    BY <1>1, <1>9, <2>1, <2>2 DEF NoneTwice, Without
<1>14. TotalCounts' /\ NewerIsSeen' /\ SeenIsNewer'
  BY <1>1, <1>9 DEF TotalCounts, NewerIsSeen, SeenIsNewer, Scrolling
<1>15. SkippedIsSeen' /\ SeenIsSkipped' /\ DoneHasAll'
  <2>1. CASE more
    <3>1. Skipped' = next
      BY <1>2, <1>9, <2>1 DEF Skipped
    <3>2. SkippedIsSeen' /\ SeenIsSkipped'
      BY <1>7, <1>8, <1>9, <1>10, <1>11, <3>1 DEF SkippedIsSeen, SeenIsSkipped
    <3>3. QED
      BY <1>9, <2>1, <3>2 DEF DoneHasAll
  <2>2. CASE ~more
    <3>1. SkippedIsSeen' /\ SeenIsSkipped'
      BY <1>9, <2>2 DEF SkippedIsSeen, SeenIsSkipped, Paging, Walking
    <3>2. walk.total \in Nat /\ walk.total <= next
      BY <1>1, <1>2, <2>2, LastPage DEF ListTypeOK, Walk
    <3>3. ASSUME Without({"deleted", "raced", "tied"}), NEW i \in walk.start
          PROVE  i \in walk.got \cup R
      <4>1. Position(i) < walk.total
        BY <1>1, <3>3 DEF ListInv, MissInv, TotalCounts
      <4>2. Position(i) < next
        BY <1>1, <1>2, <3>2, <4>1, PositionType
      <4>3. QED
        BY <1>7, <3>3, <4>2 DEF Without
    <3>4. DoneHasAll'
      BY <1>9, <1>10, <3>3 DEF DoneHasAll
    <3>5. QED
      BY <3>1, <3>4
  <2>3. QED
    BY <2>1, <2>2
<1>16. QED
  BY <1>12, <1>13, <1>14, <1>15 DEF ListInv, MissInv, TwiceInv

\* A page of the history is the newest of the messages below the cursor, and
\* all of them if it is not full.
LEMMA NewestFirst ==
  ASSUME ListTypeOK, kind = "history", NEW S \in SUBSET rows, NEW n \in Nat \ {0}, NEW R \in Answers(S, 0, n)
  PROVE  /\ R \subseteq S
         /\ \A i \in R, j \in S \ R : ~(stamp[j] > stamp[i])
         /\ Cardinality(R) # n => R = S
<1>1. PICK B \in SUBSET (S \ R) :
        /\ Cardinality(B) = IF 0 < Cardinality(S) THEN 0 ELSE Cardinality(S)
        /\ Cardinality(R) = IF n < Cardinality(S) - Cardinality(B)
                            THEN n ELSE Cardinality(S) - Cardinality(B)
        /\ \A i \in R, j \in S \ (B \cup R) : ~Before(j, i)
  BY DEF Answers
<1>2. R \in SUBSET S /\ S \in SUBSET Items /\ B \in SUBSET Items
  BY StampType DEF Answers
<1>3. /\ Cardinality(S) \in Nat /\ Cardinality(B) \in Nat /\ Cardinality(R) \in Nat
      /\ R # S => Cardinality(R) < Cardinality(S)
      /\ IsFiniteSet(B)
  BY <1>2, ItemSets
<1>4. Cardinality(B) = 0
  BY <1>1, <1>3
<1>5. B = {}
  BY <1>3, <1>4, FS_EmptySet
<1>6. Cardinality(R) # n => Cardinality(R) = Cardinality(S)
  BY <1>1, <1>3, <1>4
<1>7. \A i \in R, j \in S \ R : ~Before(j, i)
  BY <1>1, <1>5
<1>8. QED
  BY <1>2, <1>3, <1>6, <1>7 DEF Before

\* The cursor moves down to the oldest message of the page; who has its stamp
\* is that message.
LEMMA NextMessagesInv ==
  ASSUME ListInv, ListTypeOK', NextMessages
  PROVE  ListInv'
<1> DEFINE size == HandlerSize(walk.asked)
           older == Older(walk.last)
<1>1. /\ ListTypeOK /\ walk.pc = "rows" /\ kind = "history" /\ kind' = kind /\ stamp' = stamp /\ rows' = rows
      /\ Walking /\ ~Paging /\ Scrolling /\ ~Paging'
  BY DEF ListInv, NextMessages, Walking, Paging, Scrolling
<1>2. PICK R \in Answers(older, 0, size) :
        IF Cardinality(R) = size
        THEN \E i \in R : (\A j \in R : stamp[i] <= stamp[j]) /\ GoOn(R, "rows", stamp[i])
        ELSE Finish(R)
  BY DEF NextMessages
<1>3. older \in SUBSET rows /\ size \in Nat \ {0}
  BY <1>1, SkippedType DEF Older
<1>4. /\ R \subseteq older
      /\ \A i \in R, j \in older \ R : ~(stamp[j] > stamp[i])
      /\ Cardinality(R) # size => R = older
  BY <1>1, <1>3, NewestFirst
<1>5. /\ \A i \in rows : stamp[i] \in Nat
      /\ \A i \in walk.got : stamp[i] \in Nat
      /\ walk.last # NoStamp => walk.last \in Nat
      /\ R \subseteq rows
  BY <1>1, <1>3, <1>4, StampType DEF ListInv, TwiceInv, SeenIsStamped, ListTypeOK, Walk, Stamps
\* Nothing of the page was seen before: what was seen is at the cursor or above.
<1>6. walk.got \cap R = {}
  <2>1. walk.last = NoStamp => walk.got = {}
    BY <1>1 DEF ListInv, TwiceInv, SeenIsNewer
  <2>2. ASSUME walk.last # NoStamp, NEW i \in walk.got, i \in R
        PROVE  FALSE
    <3>1. stamp[i] >= walk.last
      BY <1>1, <2>2 DEF ListInv, TwiceInv, SeenIsNewer
    <3>2. stamp[i] < walk.last
      BY <1>4, <2>2 DEF Older
    <3>3. QED
      BY <1>5, <2>2, <3>1, <3>2
  <2>3. QED
    BY <2>1, <2>2
<1>7. /\ walk'.got = walk.got \cup R /\ walk'.twice = walk.twice \cup (walk.got \cap R)
      /\ walk'.start = walk.start /\ walk'.excuse = walk.excuse
  <2> HIDE DEF size
  <2>1. CASE Finish(R)
    BY <2>1 DEF Finish, NoWalk
  <2>2. ASSUME NEW i \in R, GoOn(R, "rows", stamp[i])
        PROVE  /\ walk'.got = walk.got \cup R /\ walk'.twice = walk.twice \cup (walk.got \cap R)
               /\ walk'.start = walk.start /\ walk'.excuse = walk.excuse
    <3>1. walk \in Walk
      BY <1>1 DEF ListTypeOK
    <3>2. QED
      BY <2>2, <3>1 DEF GoOn, Walk
  <2>3. QED
    BY <1>2, <2>1, <2>2
<1>8. \A E : Without(E)' <=> Without(E)
  BY <1>7 DEF Without
<1>9. TiesAreKnown' /\ StartIsKept'
  BY <1>1, <1>7, <1>8 DEF ListInv, TiesAreKnown, StartIsKept, Ties
<1>10. SeenIsStamped' /\ NoneTwice'
  BY <1>1, <1>5, <1>6, <1>7 DEF ListInv, TwiceInv, SeenIsStamped, NoneTwice, ListTypeOK
<1>11. TotalCounts' /\ SkippedIsSeen' /\ SeenIsSkipped'
  BY <1>1 DEF TotalCounts, SkippedIsSeen, SeenIsSkipped
<1>12. Without({"deleted", "tied"}) => walk.start \subseteq rows /\ ~Ties
  BY <1>1 DEF ListInv, StartIsKept, TiesAreKnown, Without
<1>13. Without({"deleted", "tied"}) => \A i \in walk.start : i \in walk.got \/ i \in older
  <2> SUFFICES ASSUME Without({"deleted", "tied"}), NEW i \in walk.start, i \notin walk.got, walk.last # NoStamp
               PROVE  i \in older
    BY <1>12 DEF Older
  <2>1. i \in rows /\ ~(stamp[i] >= walk.last)
    BY <1>1, <1>12 DEF ListInv, MissInv, NewerIsSeen
  <2>2. QED
    BY <1>5, <2>1 DEF Older
<1>14. CASE Cardinality(R) = size
  <2>1. PICK last \in R : (\A j \in R : stamp[last] <= stamp[j]) /\ GoOn(R, "rows", stamp[last])
    BY <1>2, <1>14
  <2>2. walk'.pc = "rows" /\ walk'.last = stamp[last] /\ stamp[last] # NoStamp
    BY <1>1, <1>5, <2>1 DEF GoOn, ListTypeOK, Walk
  <2>3. SeenIsNewer'
    <3>1. walk.last # NoStamp => stamp[last] < walk.last
      BY <1>4 DEF Older
    <3>2. ASSUME NEW i \in walk.got
          PROVE  stamp[i] >= stamp[last]
      <4>1. walk.last # NoStamp /\ stamp[i] >= walk.last
        BY <1>1 DEF ListInv, TwiceInv, SeenIsNewer
      <4>2. QED
        BY <1>5, <3>1, <4>1
    <3>3. \A i \in R : stamp[i] >= stamp[last]
      BY <1>5, <2>1
    <3>4. QED
      BY <1>1, <1>7, <2>2, <3>2, <3>3 DEF SeenIsNewer
  <2>4. NewerIsSeen'
    <3>1. ASSUME Without({"deleted", "tied"}), NEW i \in walk.start, stamp[i] >= stamp[last], i \notin walk.got
          PROVE  i \in R
      <4>1. i \in older /\ i \in rows /\ ~Ties
        BY <1>3, <1>12, <1>13, <3>1
      <4>2. stamp[i] > stamp[last] \/ i = last
        BY <1>5, <3>1, <4>1 DEF Ties
      <4>3. QED
        BY <1>4, <4>1, <4>2
    <3>2. QED
      BY <1>1, <1>7, <1>8, <2>2, <3>1 DEF NewerIsSeen
  <2>5. DoneHasAll'
    BY <2>2 DEF DoneHasAll
  <2>6. QED
    BY <1>9, <1>10, <1>11, <2>3, <2>4, <2>5 DEF ListInv, MissInv, TwiceInv
<1>15. CASE Cardinality(R) # size
  <2>1. walk'.pc = "done" /\ R = older
    BY <1>2, <1>4, <1>15 DEF Finish, NoWalk
  <2>2. SeenIsNewer' /\ NewerIsSeen'
    BY <2>1 DEF SeenIsNewer, NewerIsSeen, Scrolling, Walking
  <2>3. DoneHasAll'
    BY <1>7, <1>8, <1>13, <2>1 DEF DoneHasAll, Without
  <2>4. QED
    BY <1>9, <1>10, <1>11, <2>2, <2>3 DEF ListInv, MissInv, TwiceInv
<1>16. QED
  BY <1>14, <1>15

LEMMA ListStep == ListInv /\ [ListNext]_listVars => ListInv'
<1> SUFFICES ASSUME ListInv, [ListNext]_listVars
             PROVE  ListInv'
  OBVIOUS
<1>1. ListTypeOK'
  BY WalkTypeStep DEF ListInv
<1>2. CASE Tick \/ UNCHANGED listVars
  BY <1>1, <1>2, SameOrder DEF Tick, listVars
<1>3. ASSUME NEW i \in Items, Begin(i)
      PROVE  ListInv'
  BY <1>1, <1>3, SameOrder DEF Begin, ListInv, ListTypeOK
<1>4. CASE EndWalk
  <2>1. walk' = NoWalk
    BY <1>4 DEF EndWalk
  <2>2. QED
    BY <1>1, <2>1 DEF NoWalk, ListInv, TiesAreKnown, StartIsKept, MissInv, TotalCounts, SkippedIsSeen, NewerIsSeen,
         DoneHasAll, TwiceInv, SeenIsSkipped, SeenIsNewer, SeenIsStamped, NoneTwice, Walking, Paging, Scrolling
<1>5. QED
  BY <1>1, <1>2, <1>3, <1>4, CommitInv, DeleteInv, StartWalkInv, CountInv, PageRowsInv, NextMessagesInv DEF ListNext

\* The walk and the rows are related as ListInv says.
LEMMA ListInvariant == ListSpec => []ListInv
  BY WalkInit, ListStep, PTL DEF ListSpec

\* Who reads all pages of a list has seen every row that was there all the
\* time, whatever the number of rows and pages: only a deletion, an insertion
\* between the two queries of the last page, or two rows of one stamp hide one.
THEOREM ListMissesNone == ListSpec => []NoneMissed
<1>1. ListInv => NoneMissed
  BY DEF ListInv, MissInv, DoneHasAll, NoneMissed, Without
<1>2. QED
  BY <1>1, ListInvariant, PTL

\* No row is on two pages unless an insertion before it or a tie moved it, and
\* no message of the history ever is.
THEOREM ListShowsNoneTwice == ListSpec => []NoneTwice
<1>1. ListInv => NoneTwice
  BY DEF ListInv, TwiceInv
<1>2. QED
  BY <1>1, ListInvariant, PTL

\* The offset of a walk and what it counted are at most the number of rows.
OffsetsFit ==
  Paging => Skipped <= Cardinality(Items) /\ walk.total <= Cardinality(Items)

LEMMA OffsetsInit == ListInit => OffsetsFit
  BY DEF ListInit, NoWalk, OffsetsFit, Paging, Walking

LEMMA OffsetsStep == ListTypeOK /\ OffsetsFit /\ [ListNext]_listVars => OffsetsFit'
<1> SUFFICES ASSUME ListTypeOK, OffsetsFit, [ListNext]_listVars
             PROVE  OffsetsFit'
  OBVIOUS
<1>1. Cardinality(Items) \in Nat /\ Cardinality(rows) \in Nat /\ Cardinality(rows) <= Cardinality(Items)
  BY ItemSets, StampType
<1>2. ASSUME UNCHANGED kind, walk'.pc = walk.pc, walk'.page = walk.page, walk'.asked = walk.asked,
             walk'.total = walk.total
      PROVE  OffsetsFit'
  BY <1>2 DEF OffsetsFit, Paging, Walking, Skipped
<1>3. CASE Tick \/ EndWalk \/ (\E i \in Items : Begin(i)) \/ UNCHANGED listVars
  BY <1>2, <1>3 DEF Tick, EndWalk, Begin, listVars, NoWalk, OffsetsFit, Paging, Walking
<1>4. CASE \E i \in Items : Commit(i) \/ Delete(i)
  BY <1>2, <1>4 DEF Commit, Delete, ListTypeOK, Walk
<1>5. CASE Count
  BY <1>1, <1>5 DEF Count, ListTypeOK, Walk, OffsetsFit, Paging, Walking, Skipped
<1>6. ASSUME NEW n \in 0..MaxSize, StartWalk(n)
      PROVE  OffsetsFit'
  <2>1. walk'.page = 1 /\ walk'.asked = n /\ walk'.total = 0
    BY <1>6 DEF StartWalk, NoWalk
  <2>2. Skipped' = 0
    BY <2>1, SizeType, FirstOffset DEF Skipped
  <2>3. QED
    BY <1>1, <2>1, <2>2 DEF OffsetsFit
<1>7. CASE PageRows
  <2> DEFINE size == HandlerSize(walk.asked)
  <2>1. PICK R : IF walk.page < TotalPages(walk.total, size) THEN GoOn(R, "count", NoStamp) ELSE Finish(R)
    BY <1>7 DEF PageRows
  <2>2. /\ walk \in Walk /\ walk.page \in Nat \ {0} /\ walk.total \in Nat /\ size \in Nat \ {0}
        /\ walk.total <= Cardinality(Items)
    BY <1>7, SkippedType DEF ListTypeOK, Walk, PageRows, OffsetsFit, Paging, Walking
  <2> HIDE DEF size
  <2>3. CASE walk.page < TotalPages(walk.total, size)
    <3>1. walk'.page = walk.page + 1 /\ walk'.asked = walk.asked /\ walk'.total = walk.total
      BY <2>1, <2>2, <2>3 DEF GoOn, Walk
    <3>2. Offset(walk.page + 1, size) <= walk.total /\ Offset(walk.page + 1, size) \in Nat
      <4>1. Offset(walk.page + 1, size) <= walk.total
        BY <2>2, <2>3, NotLastPage
      <4>2. walk.page + 1 \in Nat \ {0}
        BY <2>2
      <4>3. Offset(walk.page + 1, size) \in Nat
        BY <2>2, <4>2, NextOffset
      <4>4. QED
        BY <4>1, <4>3
    <3>3. Skipped' = Offset(walk.page + 1, size)
      BY <3>1 DEF Skipped, size
    <3>4. QED
      BY <1>1, <2>2, <3>1, <3>2, <3>3 DEF OffsetsFit
  <2>4. CASE ~(walk.page < TotalPages(walk.total, size))
    <3>1. walk'.pc = "done"
      BY <2>1, <2>4 DEF Finish, NoWalk
    <3>2. QED
      BY <3>1 DEF OffsetsFit, Paging, Walking
  <2>5. QED
    BY <2>3, <2>4
<1>8. CASE NextMessages
  BY <1>8 DEF NextMessages, OffsetsFit, Paging
<1>9. QED
  BY <1>3, <1>4, <1>5, <1>6, <1>7, <1>8 DEF ListNext

\* The offsets of a walk stay below the number of rows, however rows come and go
\* between its pages: (page - 1) * pageSize overflows for no page that the answers
\* lead a client to, only for one it makes up.
THEOREM ListOffsetsFit == ListSpec => []OffsetsFit
  BY ListTypes, OffsetsInit, OffsetsStep, PTL DEF ListSpec
=============================================================================
