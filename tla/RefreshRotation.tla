-------------------------- MODULE RefreshRotation ---------------------------
(***************************************************************************)
(* The refresh tokens of one account: Login, Refresh and Logout of         *)
(* local_auth_service.go over the table refresh_tokens.                    *)
(*                                                                         *)
(* Requests are served concurrently; every repository call is one atomic   *)
(* step and nothing spans two of them (Refresh uses no transaction).  A    *)
(* token is the number of its creation, and lineage remembers which token  *)
(* it was exchanged for.  A refresh token is held by a client once the     *)
(* response that carries it has arrived; a response may be lost.           *)
(*                                                                         *)
(* The Register that made the account may still wait for its mail while    *)
(* the link it sent has been clicked: when the mail then fails, it deletes *)
(* the account and with it every token.  An Update that read the row       *)
(* before (VerifyEmail) inserts the account again, without tokens.         *)
(***************************************************************************)
EXTENDS Naturals, Sequences, FiniteSets

CONSTANTS Requests,   \* the requests served at one time
          MaxTokens   \* bound: tokens issued in a behaviour

ASSUME RotationAssumption == MaxTokens \in Nat

VARIABLES user,        \* is the row of the account in users?
          registering, \* does its Register still wait for the mail?
          table,       \* the rows of refresh_tokens
          expired,     \* the tokens past their expires_at
          lineage,     \* lineage[t]: the token t replaced, 0 for a login
          held,        \* the tokens clients have received
          req,         \* req[r]: the program counter and the token of a request
          presented,   \* history: tokens ever sent to Refresh
          raced,       \* history: tokens whose refreshes overlapped
          loggedOut,   \* history: tokens whose logout was answered
          closed,      \* history: live tokens logged out while no refresh used them
          cut          \* history: tokens 1..cut had been issued when Register
                       \* took the account back

account == <<user, registering, cut>>
vars == <<table, expired, lineage, held, req, presented, raced, loggedOut, closed, account>>

Tokens == 1..Len(lineage)
Idle == [pc |-> "idle", tok |-> 0]
States == {"idle", "reap", "delete", "issue"}

Becomes(r, s, t) == req' = [req EXCEPT ![r] = [pc |-> s, tok |-> t]]
Ends(r) == req' = [req EXCEPT ![r] = Idle]
InRefresh(r, t) == req[r].pc \in {"delete", "issue"} /\ req[r].tok = t
Child(t) == \E i \in Tokens : lineage[i] = t

Init == /\ user = TRUE /\ registering \in BOOLEAN /\ cut = 0
        /\ table = {} /\ expired = {} /\ held = {}
        /\ lineage = <<>>
        /\ req = [r \in Requests |-> Idle]
        /\ presented = {} /\ raced = {} /\ loggedOut = {} /\ closed = {}

\* Seven days pass (JWTRefreshExpiryDay).
Expire(t) ==
  /\ t \in Tokens \ expired
  /\ expired' = expired \cup {t}
  /\ UNCHANGED <<table, lineage, held, req, presented, raced, loggedOut, closed, account>>

\* The mail of the registration was accepted, or Register failed without
\* deleting the account.
RegisterEnds ==
  /\ registering
  /\ registering' = FALSE
  /\ UNCHANGED <<user, cut, table, expired, lineage, held, req, presented, raced, loggedOut, closed>>

\* Mutant: the tokens of the deleted account stay (no ON DELETE CASCADE).
Rollback_NoCascade ==
  /\ registering
  /\ registering' = FALSE /\ user' = FALSE
  /\ cut' = Len(lineage)
  /\ UNCHANGED <<table, expired, lineage, held, req, presented, raced, loggedOut, closed>>

\* The mail fails and Register takes the account back: DeleteByID, which
\* cascades to refresh_tokens.
Rollback ==
  /\ registering
  /\ registering' = FALSE /\ user' = FALSE
  /\ table' = {}
  /\ cut' = Len(lineage)
  /\ UNCHANGED <<expired, lineage, held, req, presented, raced, loggedOut, closed>>

\* Update (Save) of a request that read the row before inserts it again.
Resurrect ==
  /\ ~user
  /\ user' = TRUE
  /\ UNCHANGED <<registering, cut, table, expired, lineage, held, req, presented, raced, loggedOut, closed>>

\* Login, VerifyEmail or ConfirmAccountLink has found and accepted its caller
\* and goes on to issueTokenPair.
Login(r) ==
  /\ req[r] = Idle /\ user
  /\ Becomes(r, "issue", 0)
  /\ UNCHANGED <<table, expired, lineage, held, presented, raced, loggedOut, closed, account>>

\* Mutant: the token is taken from its signature alone, without the lookup.
RefreshFind_NoLookup(r, t) ==
  /\ req[r] = Idle /\ t \in held
  /\ presented' = presented \cup {t}
  /\ Becomes(r, "delete", t)
  /\ raced' = IF \E q \in Requests : InRefresh(q, t) THEN raced \cup {t} ELSE raced
  /\ UNCHANGED <<table, expired, lineage, held, loggedOut, closed, account>>

\* Refresh: FindByHash, then the expiry test on the row that was read.  An
\* unknown token is refused.
RefreshFind(r, t) ==
  /\ req[r] = Idle /\ t \in held
  /\ presented' = presented \cup {t}
  /\ \/ t \notin table /\ UNCHANGED <<req, raced>>
     \/ /\ t \in table
        /\ Becomes(r, IF t \in expired THEN "reap" ELSE "delete", t)
        /\ raced' = IF t \notin expired /\ \E q \in Requests : InRefresh(q, t)
                    THEN raced \cup {t} ELSE raced
  /\ UNCHANGED <<table, expired, lineage, held, loggedOut, closed, account>>

\* An expired row is deleted, an error of that ignored, and the caller refused.
RefreshReap(r) ==
  /\ req[r].pc = "reap"
  /\ table' \in {table, table \ {req[r].tok}}
  /\ Ends(r)
  /\ UNCHANGED <<expired, lineage, held, presented, raced, loggedOut, closed, account>>

\* DeleteByHash: rows affected are not looked at, so it succeeds whether or
\* not the row was still there ...
RefreshDelete(r) ==
  /\ req[r].pc = "delete"
  /\ table' = table \ {req[r].tok}
  /\ Becomes(r, "issue", req[r].tok)
  /\ UNCHANGED <<expired, lineage, held, presented, raced, loggedOut, closed, account>>

\* ... or the database fails, before or after it took effect.
RefreshDeleteFails(r) ==
  /\ req[r].pc = "delete"
  /\ table' \in {table, table \ {req[r].tok}}
  /\ Ends(r)
  /\ UNCHANGED <<expired, lineage, held, presented, raced, loggedOut, closed, account>>

\* Mutant: the new token is issued, and the old one deleted afterwards.
Issue_KeepsOld(r) ==
  /\ req[r].pc = "issue" /\ user /\ Len(lineage) < MaxTokens
  /\ LET t == Len(lineage) + 1 IN
     /\ lineage' = Append(lineage, req[r].tok)
     /\ table' = table \cup ({t, req[r].tok} \ {0})
     /\ held' \in {held, held \cup {t}}
  /\ Ends(r)
  /\ UNCHANGED <<expired, presented, raced, loggedOut, closed, account>>

\* issueTokenPair: a fresh row, for a user who still exists (the foreign key);
\* the response reaches the client or is lost.
Issue(r) ==
  /\ req[r].pc = "issue" /\ user /\ Len(lineage) < MaxTokens
  /\ LET t == Len(lineage) + 1 IN
     /\ lineage' = Append(lineage, req[r].tok)
     /\ table' = table \cup {t}
     /\ held' \in {held, held \cup {t}}
  /\ Ends(r)
  /\ UNCHANGED <<expired, presented, raced, loggedOut, closed, account>>

\* The Save fails, for want of the user too, or the server dies between the
\* delete and the Save.
IssueFails(r) ==
  /\ req[r].pc = "issue"
  /\ Ends(r)
  /\ UNCHANGED <<table, expired, lineage, held, presented, raced, loggedOut, closed, account>>

\* Mutant: logging out one device deletes every token of the user.
Logout_AllOfUser(t) ==
  /\ t \in held
  /\ loggedOut' = loggedOut \cup {t}
  /\ table' = {}
  /\ UNCHANGED <<expired, lineage, held, req, presented, raced, closed, account>>

\* Logout answers success, also when its delete failed.
Logout(t) ==
  /\ t \in held
  /\ loggedOut' = loggedOut \cup {t}
  /\ \/ /\ table' = table \ {t}
        /\ closed' = IF t \in table /\ ~\E r \in Requests : InRefresh(r, t)
                     THEN closed \cup {t} ELSE closed
     \/ UNCHANGED <<table, closed>>
  /\ UNCHANGED <<expired, lineage, held, req, presented, raced, account>>

Next == \/ RegisterEnds \/ Rollback \/ Resurrect
        \/ \E t \in Tokens : Expire(t) \/ Logout(t)
        \/ \E r \in Requests : \/ Login(r) \/ \E t \in Tokens : RefreshFind(r, t)
                               \/ RefreshReap(r) \/ RefreshDelete(r) \/ RefreshDeleteFails(r)
                               \/ Issue(r) \/ IssueFails(r)

Spec == Init /\ [][Next]_vars
-----------------------------------------------------------------------------
TypeOK ==
  /\ user \in BOOLEAN /\ registering \in BOOLEAN /\ cut \in 0..Len(lineage)
  /\ registering => user
  /\ ~user => table = {}
  /\ lineage \in Seq(Nat) /\ \A i \in Tokens : lineage[i] < i
  /\ table \subseteq Tokens /\ expired \subseteq Tokens /\ held \subseteq Tokens
  /\ req \in [Requests -> [pc : States, tok : Tokens \cup {0}]]
  /\ \A r \in Requests : req[r].pc \in {"reap", "delete"} => req[r].tok \in Tokens
  /\ presented \subseteq held /\ raced \subseteq held
  /\ loggedOut \subseteq held /\ closed \subseteq loggedOut

\* A token that was exchanged is dead, and so is every token of an account that
\* its Register took back: no interleaving of refreshes, failures and logouts
\* leaves or puts it back in the table (Refresh deletes before it issues), nor
\* does the Update that inserts the account again.
RotatedIsDead == \A t \in table : ~Child(t) /\ t > cut

\* A token buys at most one successor unless two refreshes of it overlapped
\* between one's FindByHash and the other's DeleteByHash.
SingleUseUnlessRaced ==
  \A i, j \in Tokens : lineage[i] = lineage[j] /\ lineage[i] # 0 /\ i # j => lineage[i] \in raced

\* docs/frontend-guide.md:462: "Each refresh token can only be used ONCE
\* (rotation)", also when the client sends it twice at the same time.
SingleUse == \A i, j \in Tokens : lineage[i] = lineage[j] /\ lineage[i] # 0 => i = j

\* A token its client has neither used nor logged out still works, whatever
\* the other devices of the account do and whichever calls fail.  Two things
\* end it: its expiry, and the registration of its own account when its mail
\* fails after the user has clicked the link (Rollback); a token of the account
\* that VerifyEmail inserted again is as safe as any other.
UnusedStaysValid ==
  \A t \in held \ (presented \cup loggedOut) : t > cut => t \in table

\* After the logout of a live token that no refresh was using, that session
\* is over: the token is gone and nothing is ever exchanged for it.
LogoutIsFinal ==
  \A t \in closed : t \notin table /\ ~Child(t) /\ \A r \in Requests : ~InRefresh(r, t)
=============================================================================
