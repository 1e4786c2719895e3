----------------------- MODULE RefreshRotationProofs ------------------------
(***************************************************************************)
(* The safety of RefreshRotation for every number of concurrent requests   *)
(* and of tokens.                                                          *)
(***************************************************************************)
EXTENDS RefreshRotation, TLAPS

USE RotationAssumption

\* Why the invariants below are inductive: the token of a refresh that has
\* come to the issue is dead, and a token with two claims on its one successor
\* (two refreshes, or a refresh and a successor) is one whose refreshes raced.
IssueIsDead == \A r \in Requests : req[r].pc = "issue" => req[r].tok \notin table
ReadIsPresented ==
  \A r \in Requests : req[r].pc \in {"reap", "delete"} => req[r].tok \in presented
TwoRefreshesRace ==
  \A r, q \in Requests : \A t \in Tokens :
    r # q /\ InRefresh(r, t) /\ InRefresh(q, t) => t \in raced
RefreshOfRotatedRaces ==
  \A r \in Requests : \A t \in Tokens : InRefresh(r, t) /\ Child(t) => t \in raced

IInv == /\ TypeOK /\ RotatedIsDead /\ SingleUseUnlessRaced /\ UnusedStaysValid
        /\ LogoutIsFinal
        /\ IssueIsDead /\ ReadIsPresented /\ TwoRefreshesRace /\ RefreshOfRotatedRaces

\* What appending a token to the lineage changes.
LEMMA AppendLemma ==
  ASSUME TypeOK, NEW p \in Tokens \cup {0}, lineage' = Append(lineage, p)
  PROVE  /\ Tokens' = Tokens \cup {Len(lineage) + 1} /\ Len(lineage) + 1 \notin Tokens
         /\ lineage' \in Seq(Nat) /\ lineage'[Len(lineage) + 1] = p
         /\ \A i \in Tokens : lineage'[i] = lineage[i]
         /\ \A i \in Tokens' : lineage'[i] < i
         /\ Len(lineage) \in Nat /\ Len(lineage') = Len(lineage) + 1
         /\ \A t : Child(t)' <=> Child(t) \/ t = p
  BY DEF TypeOK, Tokens, Child

LEMMA InvInit == Init => IInv
  BY DEF Init, IInv, TypeOK, RotatedIsDead, SingleUseUnlessRaced, UnusedStaysValid,
     LogoutIsFinal, IssueIsDead, ReadIsPresented, TwoRefreshesRace,
     RefreshOfRotatedRaces, Tokens, Child, InRefresh, Idle, States

\* IInv is inductive: one step per action of RefreshRotation, Issue being the
\* only one that extends the lineage and the table.
LEMMA InvNext == IInv /\ [Next]_vars => IInv'
<1> SUFFICES ASSUME IInv, [Next]_vars PROVE IInv'
  OBVIOUS
<1> USE DEF IInv, TypeOK, RotatedIsDead, SingleUseUnlessRaced, UnusedStaysValid,
     LogoutIsFinal, IssueIsDead, ReadIsPresented, TwoRefreshesRace,
     RefreshOfRotatedRaces, InRefresh, Idle, States, Becomes, Ends, account
<1>1. ASSUME NEW t \in Tokens, Expire(t) PROVE IInv'
  BY <1>1 DEF Expire, Tokens, Child
<1>2. ASSUME NEW t \in Tokens, Logout(t) PROVE IInv'
  BY <1>2 DEF Logout, Tokens, Child
<1>3. ASSUME NEW r \in Requests, Login(r) PROVE IInv'
  BY <1>3 DEF Login, Tokens, Child
<1>4. ASSUME NEW r \in Requests, NEW t \in Tokens, RefreshFind(r, t) PROVE IInv'
  <2>1. lineage' = lineage /\ Tokens' = Tokens /\ \A i : Child(i)' <=> Child(i)
    BY <1>4 DEF RefreshFind, Tokens, Child
  <2>2. TypeOK'
    <3>1. CASE t \notin table
      BY <1>4, <2>1, <3>1 DEF RefreshFind
    <3>2. CASE t \in table
      <4>1. /\ req' = [req EXCEPT ![r] = [pc |-> IF t \in expired THEN "reap" ELSE "delete",
                                        tok |-> t]]
            /\ raced' \in {raced, raced \cup {t}} /\ presented' = presented \cup {t}
            /\ t \in held /\ UNCHANGED <<table, expired, lineage, held, loggedOut, closed, account>>
        BY <1>4, <3>2 DEF RefreshFind
      <4> QED
        BY <4>1, <2>1
    <3> QED
      BY <3>1, <3>2
  <2>3. RotatedIsDead'
    BY <1>4, <2>1 DEF RefreshFind
  <2>4. SingleUseUnlessRaced'
    BY <1>4, <2>1 DEF RefreshFind
  <2>5. UnusedStaysValid'
    BY <1>4, <2>1 DEF RefreshFind
  <2>6. LogoutIsFinal'
    BY <1>4, <2>1 DEF RefreshFind
  <2>7. IssueIsDead'
    BY <1>4, <2>1 DEF RefreshFind
  <2>8. ReadIsPresented'
    BY <1>4, <2>1 DEF RefreshFind
  <2>9. TwoRefreshesRace'
    BY <1>4, <2>1 DEF RefreshFind
  <2>10. RefreshOfRotatedRaces'
    BY <1>4, <2>1 DEF RefreshFind
  <2> QED
    BY <2>2, <2>3, <2>4, <2>5, <2>6, <2>7, <2>8, <2>9, <2>10
\* The steps that end a request without a new token.
<1>5. ASSUME NEW r \in Requests, RefreshReap(r) \/ RefreshDeleteFails(r) \/ IssueFails(r) PROVE IInv'
  <2>1. /\ req' = [req EXCEPT ![r] = Idle]
        /\ table' = table \/ (table' = table \ {req[r].tok} /\ req[r].tok \in presented)
        /\ UNCHANGED <<expired, lineage, held, presented, raced, loggedOut, closed, account>>
    BY <1>5 DEF RefreshReap, RefreshDeleteFails, IssueFails
  <2>2. Tokens' = Tokens /\ \A i : Child(i)' <=> Child(i)
    BY <2>1 DEF Tokens, Child
  <2>3. TypeOK'
    BY <2>1, <2>2
  <2>4. RotatedIsDead'
    BY <2>1, <2>2
  <2>5. SingleUseUnlessRaced'
    BY <2>1, <2>2
  <2>6. UnusedStaysValid'
    BY <2>1, <2>2
  <2>7. LogoutIsFinal'
    BY <2>1, <2>2
  <2>8. IssueIsDead' /\ ReadIsPresented'
    BY <2>1, <2>2
  <2>9. TwoRefreshesRace' /\ RefreshOfRotatedRaces'
    BY <2>1, <2>2
  <2> QED
    BY <2>3, <2>4, <2>5, <2>6, <2>7, <2>8, <2>9
<1>6. ASSUME NEW r \in Requests, RefreshDelete(r) PROVE IInv'
  <2>1. lineage' = lineage /\ Tokens' = Tokens /\ \A i : Child(i)' <=> Child(i)
    BY <1>6 DEF RefreshDelete, Tokens, Child
  <2>2. TypeOK'
    BY <1>6, <2>1 DEF RefreshDelete
  <2>3. RotatedIsDead'
    BY <1>6, <2>1 DEF RefreshDelete
  <2>4. SingleUseUnlessRaced'
    BY <1>6, <2>1 DEF RefreshDelete
  <2>5. UnusedStaysValid'
    BY <1>6, <2>1 DEF RefreshDelete
  <2>6. LogoutIsFinal'
    BY <1>6, <2>1 DEF RefreshDelete
  <2>7. IssueIsDead'
    BY <1>6, <2>1 DEF RefreshDelete
  <2>8. ReadIsPresented'
    BY <1>6, <2>1 DEF RefreshDelete
  <2>9. TwoRefreshesRace'
    BY <1>6, <2>1 DEF RefreshDelete
  <2>10. RefreshOfRotatedRaces'
    BY <1>6, <2>1 DEF RefreshDelete
  <2> QED
    BY <2>2, <2>3, <2>4, <2>5, <2>6, <2>7, <2>8, <2>9, <2>10
<1>7. ASSUME NEW r \in Requests, Issue(r) PROVE IInv'
  <2>1. /\ req[r].tok \in Tokens \cup {0} /\ req[r].pc = "issue"
        /\ lineage' = Append(lineage, req[r].tok)
        /\ req' = [req EXCEPT ![r] = Idle] /\ user
        /\ table' = table \cup {Len(lineage) + 1}
        /\ held' \in {held, held \cup {Len(lineage) + 1}}
        /\ UNCHANGED <<expired, presented, raced, loggedOut, closed, account>>
    BY <1>7 DEF Issue
  <2>2. /\ Tokens' = Tokens \cup {Len(lineage) + 1} /\ Len(lineage) + 1 \notin Tokens
        /\ lineage' \in Seq(Nat) /\ lineage'[Len(lineage) + 1] = req[r].tok
        /\ \A i \in Tokens : lineage'[i] = lineage[i]
        /\ \A i \in Tokens' : lineage'[i] < i
        /\ Len(lineage) \in Nat /\ Len(lineage') = Len(lineage) + 1
        /\ \A t : Child(t)' <=> Child(t) \/ t = req[r].tok
    BY <2>1, AppendLemma
  <2>3. /\ \A i \in Tokens : Child(lineage[i])
        /\ ~Child(Len(lineage) + 1)
    BY DEF Child, Tokens
  <2>4. TypeOK'
    <3>1. \A i \in Tokens' : lineage'[i] < i
      BY <2>2
    <3>2. /\ table' \subseteq Tokens' /\ expired' \subseteq Tokens' /\ held' \subseteq Tokens'
          /\ presented' \subseteq held' /\ raced' \subseteq held'
          /\ loggedOut' \subseteq held' /\ closed' \subseteq loggedOut'
      BY <2>1, <2>2
    <3>3. req' \in [Requests -> [pc : States, tok : Tokens' \cup {0}]]
      BY <2>1, <2>2
    <3>4. \A q \in Requests : req'[q].pc \in {"reap", "delete"} => req'[q].tok \in Tokens'
      BY <2>1, <2>2
    <3>5. cut' \in 0..Len(lineage')
      BY <2>1, <2>2
    <3>6. /\ user' \in BOOLEAN /\ registering' \in BOOLEAN
          /\ (registering' => user') /\ (~user' => table' = {})
      BY <2>1
    <3> QED
      BY <2>2, <3>1, <3>2, <3>3, <3>4, <3>5, <3>6
  <2>5. RotatedIsDead'
    <3>1. req[r].tok \notin table /\ req[r].tok # Len(lineage) + 1
      BY <2>1, <2>2 DEF Tokens
    <3> QED
      BY <2>1, <2>2, <2>3, <3>1
  <2>6. SingleUseUnlessRaced'
    <3>1. ASSUME NEW i \in Tokens, lineage[i] = req[r].tok, req[r].tok # 0
          PROVE  req[r].tok \in raced
      BY <3>1, <2>1, <2>3
    <3>2. SUFFICES ASSUME NEW i \in Tokens', NEW j \in Tokens',
                          lineage'[i] = lineage'[j], lineage'[i] # 0, i # j
                   PROVE  lineage'[i] \in raced
      BY <2>1
    <3>3. CASE i \in Tokens /\ j \in Tokens
      BY <2>2, <3>2, <3>3
    <3>4. CASE i = Len(lineage) + 1 /\ j \in Tokens
      BY <2>2, <3>1, <3>2, <3>4
    <3>5. CASE i \in Tokens /\ j = Len(lineage) + 1
      BY <2>2, <3>1, <3>2, <3>5
    <3> QED
      BY <2>2, <3>2, <3>3, <3>4, <3>5
  <2>7. UnusedStaysValid'
    BY <2>1, <2>2, <2>3
  <2>8. LogoutIsFinal'
    BY <2>1, <2>2, <2>3
  <2>9. IssueIsDead'
    BY <2>1, <2>2, <2>3
  <2>10. ReadIsPresented'
    BY <2>1, <2>2, <2>3
  <2>11. TwoRefreshesRace'
    BY <2>1, <2>2, <2>3
  <2>12. RefreshOfRotatedRaces'
    BY <2>1, <2>2, <2>3
  <2> QED
    BY <2>4, <2>5, <2>6, <2>7, <2>8, <2>9, <2>10, <2>11, <2>12
\* The registration of the account ends, with or without the account, or the
\* account is inserted again: of the tokens at most the table changes.
<1>8. ASSUME RegisterEnds \/ Rollback \/ Resurrect PROVE IInv'
  <2>1. /\ UNCHANGED <<expired, lineage, held, req, presented, raced, loggedOut, closed>>
        /\ \/ table' = table /\ cut' = cut
           \/ table' = {} /\ cut' = Len(lineage)
        /\ user' \in BOOLEAN /\ registering' \in BOOLEAN
        /\ (registering' => user') /\ (~user' => table' = {})
    BY <1>8 DEF RegisterEnds, Rollback, Resurrect
  <2>2. Tokens' = Tokens /\ \A i : Child(i)' <=> Child(i)
    BY <2>1 DEF Tokens, Child
  <2>3. TypeOK'
    BY <2>1, <2>2
  <2>4. RotatedIsDead' /\ UnusedStaysValid'
    <3>1. \A t \in held : t \leq Len(lineage) /\ ~(t > Len(lineage))
      BY DEF Tokens
    <3>2. RotatedIsDead'
      BY <2>1, <2>2
    <3>3. UnusedStaysValid'
      BY <2>1, <3>1
    <3> QED
      BY <3>2, <3>3
  <2>5. SingleUseUnlessRaced' /\ LogoutIsFinal'
    BY <2>1, <2>2
  <2>6. IssueIsDead' /\ ReadIsPresented' /\ TwoRefreshesRace' /\ RefreshOfRotatedRaces'
    BY <2>1, <2>2
  <2> QED
    BY <2>3, <2>4, <2>5, <2>6
<1>9. CASE UNCHANGED vars
  BY <1>9 DEF vars, Tokens, Child
<1> QED
  BY <1>1, <1>2, <1>3, <1>4, <1>5, <1>6, <1>7, <1>8, <1>9 DEF Next

\* The strengthening is an invariant of the specification.
LEMMA InvAlways == Spec => []IInv
  BY InvInit, InvNext, PTL DEF Spec
-----------------------------------------------------------------------------
\* Every variable keeps its type (the table refresh_tokens and its requests).
THEOREM RotationTyped == Spec => []TypeOK
<1>1. IInv => TypeOK
  BY DEF IInv
<1> QED
  BY <1>1, InvAlways, PTL

\* A refresh token that was exchanged never works again (Refresh deletes the
\* row before it issues another), nor does one of an account that was taken back
\* (Register), also when the account is inserted again.
THEOREM RotationKills == Spec => []RotatedIsDead
<1>1. IInv => RotatedIsDead
  BY DEF IInv
<1> QED
  BY <1>1, InvAlways, PTL

\* A refresh token has two successors only if two refreshes of it were between
\* their FindByHash and their end at the same time (Refresh).
THEOREM RotationSingleUse == Spec => []SingleUseUnlessRaced
<1>1. IInv => SingleUseUnlessRaced
  BY DEF IInv
<1> QED
  BY <1>1, InvAlways, PTL

\* A refresh token that its client has neither used nor logged out stays in the
\* table, whatever other sessions do (Refresh, Logout), unless the account's own
\* Register took the account back after the token had been issued.
THEOREM RotationIsolated == Spec => []UnusedStaysValid
<1>1. IInv => UnusedStaysValid
  BY DEF IInv
<1> QED
  BY <1>1, InvAlways, PTL

\* The logout of a live token that no refresh is using ends its session for
\* good (Logout).
THEOREM LogoutEnds == Spec => []LogoutIsFinal
<1>1. IInv => LogoutIsFinal
  BY DEF IInv
<1> QED
  BY <1>1, InvAlways, PTL
=============================================================================
