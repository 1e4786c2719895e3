------------------------ MODULE AuthMiddlewareProofs ------------------------
(***************************************************************************)
(* Which tokens the auth middleware lets through, and what its key cache   *)
(* knows, for any number of requests, keys and key sets.                   *)
(***************************************************************************)
EXTENDS AuthMiddleware, TLAPS

\* A request in progress has a token of the right algorithm, and from "sync" on
\* its claims are checked.
ClaimsInv ==
  \A r \in Requests :
    /\ req[r].pc # "idle" => req[r].token \in Token /\ req[r].token.kind # "misfit"
    /\ req[r].pc \in {"sync", "next"} =>
         req[r].token.kind \in {"api", "local"} /\ ~req[r].token.expired
\* What a request has fetched is no older than the request, and the cache no
\* older than that unless somebody has replaced it.
DocInv ==
  \A r \in Requests :
    /\ req[r].pc \in {"install", "again"} => req[r].since <= req[r].doc
    /\ req[r].pc = "again" /\ ~req[r].overtaken => req[r].doc <= cache
IndInv == TypeOK /\ ClaimsInv /\ DocInv

Request == [pc : States, token : Token \cup {NoToken}, since : 0..published,
            doc : 0..published, overtaken : BOOLEAN]

LEMMA TypeInit == Init => TypeOK
<1> SUFFICES ASSUME Init PROVE TypeOK
  OBVIOUS
<1>1. published \in Versions \ {0} /\ cache \in 0..published
  BY AuthAssumption DEF Init, Versions
<1>2. tokens \subseteq Token
  BY AuthAssumption DEF Init
<1>3. Idle \in Request
  BY <1>1 DEF Idle, Request, States, Versions
<1> QED
  BY <1>1, <1>2, <1>3 DEF Init, TypeOK, Request

\* A step in which only r's counter moves, to a place with no new claim.
LEMMA MoveKeeps ==
  ASSUME IndInv, NEW r \in Requests, NEW s \in States \ {"install", "again"}, Goto(r, s),
         req[r].pc # "idle",
         s \in {"sync", "next"} =>
           req[r].token.kind \in {"api", "local"} /\ ~req[r].token.expired,
         UNCHANGED <<published, cache, tokens>>
  PROVE  IndInv'
<1>1. req \in [Requests -> Request]
  BY DEF IndInv, TypeOK, Request
<1>2. req' = [req EXCEPT ![r] = [req[r] EXCEPT !.pc = s]]
  BY <1>1 DEF Goto
<1>3. [req[r] EXCEPT !.pc = s] \in Request
  BY <1>1 DEF Request
<1>4. TypeOK'
  BY <1>1, <1>2, <1>3 DEF IndInv, TypeOK, Request
<1>5. ClaimsInv'
  BY <1>1, <1>2 DEF IndInv, ClaimsInv, Request
<1>6. DocInv'
  BY <1>1, <1>2 DEF IndInv, DocInv, Request
<1> QED
  BY <1>4, <1>5, <1>6 DEF IndInv

LEMMA RefuseKeeps ==
  ASSUME IndInv, NEW r \in Requests, Refuse(r), UNCHANGED <<published, cache>>,
         tokens' \subseteq Token
  PROVE  IndInv'
<1>1. req \in [Requests -> Request] /\ Idle \in Request
  BY AuthAssumption DEF IndInv, TypeOK, Request, Idle, States, Versions
<1>2. TypeOK'
  BY <1>1 DEF IndInv, TypeOK, Request, Refuse
<1>3. ClaimsInv'
  BY <1>1 DEF IndInv, ClaimsInv, Refuse, Idle
<1>4. DocInv'
  BY <1>1 DEF IndInv, DocInv, Refuse, Idle
<1> QED
  BY <1>2, <1>3, <1>4 DEF IndInv

LEMMA HandleKeeps ==
  ASSUME IndInv, NEW r \in Requests, NEW t \in tokens, Handle(r, t)
  PROVE  IndInv'
<1>0. CASE t.kind = "misfit"
  BY <1>0 DEF Handle, IndInv, TypeOK, ClaimsInv, DocInv
<1> SUFFICES ASSUME t.kind # "misfit" PROVE IndInv'
  BY <1>0
<1> DEFINE new == [pc |-> IF Signed(t) THEN "lookup" ELSE "claims", token |-> t,
                   since |-> published, doc |-> 0, overtaken |-> FALSE]
<1>1. req \in [Requests -> Request] /\ new \in Request
  BY AuthAssumption DEF IndInv, TypeOK, Request, States, Versions
<1>2. req' = [req EXCEPT ![r] = new] /\ UNCHANGED <<published, cache, tokens>>
  BY DEF Handle
<1>3. new.pc \in {"lookup", "claims"}
  OBVIOUS
<1>7. new.token \in Token /\ new.token.kind # "misfit"
  BY DEF IndInv, TypeOK
<1> HIDE DEF new
<1>4. TypeOK'
  BY <1>1, <1>2 DEF IndInv, TypeOK, Request
<1>5. ClaimsInv'
  BY <1>1, <1>2, <1>3, <1>7 DEF IndInv, ClaimsInv
<1>6. DocInv'
  BY <1>1, <1>2, <1>3 DEF IndInv, DocInv
<1> QED
  BY <1>4, <1>5, <1>6 DEF IndInv

LEMMA RotateKeeps == IndInv /\ Rotate => IndInv'
<1> SUFFICES ASSUME IndInv, Rotate PROVE IndInv'
  OBVIOUS
<1>1. published \in Nat /\ published' = published + 1 /\ UNCHANGED <<cache, tokens, req>>
  BY DEF IndInv, TypeOK, Versions, Rotate
<1>2. published' \in Versions \ {0}
  BY AuthAssumption, <1>1 DEF Rotate, Versions
<1>3. 0..published \subseteq 0..published'
  BY <1>1
<1>4. TypeOK'
  BY <1>1, <1>2, <1>3 DEF IndInv, TypeOK
<1> QED
  BY <1>1, <1>4 DEF IndInv, ClaimsInv, DocInv

LEMMA FetchKeeps ==
  ASSUME IndInv, NEW r \in Requests, Fetch(r)
  PROVE  IndInv'
<1> DEFINE new == [req[r] EXCEPT !.pc = "install", !.doc = published]
<1>0. req \in [Requests -> Request] /\ published \in Nat /\ published \in 0..published
  BY DEF IndInv, TypeOK, Request, Versions
<1>1. req \in [Requests -> Request] /\ published \in Nat /\ new \in Request
  BY <1>0 DEF Request, States
<1>2. req' = [req EXCEPT ![r] = new] /\ UNCHANGED <<published, cache, tokens>>
  BY <1>1 DEF Fetch
<1>3. new.pc = "install" /\ new.doc = published /\ new.since \in 0..published
  BY <1>1 DEF Request
<1>7. new.token \in Token /\ new.token.kind # "misfit"
  BY <1>1 DEF Fetch, IndInv, ClaimsInv, Request
<1> HIDE DEF new
<1>4. TypeOK'
  BY <1>1, <1>2 DEF IndInv, TypeOK, Request
<1>5. ClaimsInv'
  BY <1>1, <1>2, <1>3, <1>7 DEF IndInv, ClaimsInv
<1>6. DocInv'
  BY <1>1, <1>2, <1>3 DEF IndInv, DocInv
<1> QED
  BY <1>4, <1>5, <1>6 DEF IndInv

\* The others either keep their place or learn that they are overtaken.
LEMMA InstallKeeps ==
  ASSUME IndInv, NEW r \in Requests, Install(r)
  PROVE  IndInv'
<1>1. req \in [Requests -> Request] /\ published \in Nat
  BY DEF IndInv, TypeOK, Request, Versions
<1>2. /\ req[r].pc = "install" /\ Docs[req[r].doc] # {} /\ cache' = req[r].doc
      /\ UNCHANGED <<published, tokens>>
  BY DEF Install
<1>3. \A q \in Requests :
        req'[q] = IF q = r THEN [req[q] EXCEPT !.pc = "again"]
                  ELSE IF req[q].pc = "again" /\ req[r].doc < req[q].doc
                  THEN [req[q] EXCEPT !.overtaken = TRUE] ELSE req[q]
  BY DEF Install, Replaces
<1>4. req' \in [Requests -> Request]
  <2>1. \A q \in Requests : /\ [req[q] EXCEPT !.pc = "again"] \in Request
                            /\ [req[q] EXCEPT !.overtaken = TRUE] \in Request
    BY <1>1 DEF Request, States
  <2>2. \A q \in Requests : req'[q] \in Request
    BY <1>1, <1>3, <2>1
  <2> QED
    BY <2>2 DEF Install, Replaces
<1>5. TypeOK'
  BY <1>1, <1>2, <1>4 DEF IndInv, TypeOK, Request
<1>6. \A q \in Requests :
        /\ UNCHANGED <<req[q].token, req[q].since, req[q].doc>>
        /\ req'[q].pc = IF q = r THEN "again" ELSE req[q].pc
        /\ req'[q].overtaken = IF q # r /\ req[q].pc = "again" /\ req[r].doc < req[q].doc
                               THEN TRUE ELSE req[q].overtaken
  BY <1>1, <1>3 DEF Request
<1>7. ClaimsInv'
  BY <1>2, <1>6 DEF IndInv, ClaimsInv
<1>8. ASSUME NEW q \in Requests
      PROVE  /\ req'[q].pc \in {"install", "again"} => req'[q].since <= req'[q].doc
             /\ req'[q].pc = "again" /\ ~req'[q].overtaken => req'[q].doc <= cache'
  <2>1. req[q].doc \in Nat /\ req[r].doc \in Nat
    BY <1>1 DEF Request
  <2>2. req'[q].since = req[q].since /\ req'[q].doc = req[q].doc
    BY <1>6
  <2>3. req[q].pc \in {"install", "again"} => req[q].since <= req[q].doc
    BY DEF IndInv, DocInv
  <2>4. CASE q = r
    <3>1. req'[q].pc = "again" /\ req[q].since <= req[q].doc /\ cache' = req[q].doc
      BY <1>2, <1>6, <2>3, <2>4
    <3> QED
      BY <2>1, <2>2, <3>1
  <2>5. CASE q # r
    <3>1. req'[q].pc = req[q].pc
      BY <1>6, <2>5
    <3>2. req[q].pc = "again" /\ req[r].doc < req[q].doc => req'[q].overtaken
      BY <1>6, <2>5
    <3> QED
      BY <1>2, <2>1, <2>2, <2>3, <3>1, <3>2
  <2> QED
    BY <2>4, <2>5
<1>9. DocInv'
  BY <1>8 DEF DocInv
<1> QED
  BY <1>5, <1>7, <1>9 DEF IndInv

LEMMA IndNext == IndInv /\ [Next]_vars => IndInv'
<1> SUFFICES ASSUME IndInv, [Next]_vars PROVE IndInv'
  OBVIOUS
<1>0. tokens \subseteq Token /\ \A b \in BOOLEAN : LinkToken(b) \in Token
  BY DEF IndInv, TypeOK, LinkToken, Token
<1>1. ASSUME NEW r \in Requests, FetchFails(r) \/ NoKeys(r) \/ SyncRefuses(r) \/ Done(r)
      PROVE  IndInv'
  BY <1>0, <1>1, RefuseKeeps DEF FetchFails, NoKeys, SyncRefuses, Done
<1>2. ASSUME NEW r \in Requests, IssuePendingLink(r) PROVE IndInv'
  BY <1>0, <1>2, RefuseKeeps DEF IssuePendingLink
<1>3. ASSUME NEW r \in Requests, Lookup(r) PROVE IndInv'
  BY <1>3, MoveKeeps DEF Lookup, States
<1>4. ASSUME NEW r \in Requests, LookupAgain(r) PROVE IndInv'
  BY <1>0, <1>4, MoveKeeps, RefuseKeeps DEF LookupAgain, States
<1>5. ASSUME NEW r \in Requests, Claims(r) PROVE IndInv'
  <2>1. CASE req[r].token.expired \/ req[r].token.kind \in {"other", "link"}
    BY <1>0, <1>5, <2>1, RefuseKeeps DEF Claims
  <2>2. CASE ~(req[r].token.expired \/ req[r].token.kind \in {"other", "link"})
    <3>1. req[r].token \in Token /\ req[r].token.kind # "misfit"
      BY <1>5 DEF IndInv, ClaimsInv, Claims
    <3>2. req[r].token.kind \in {"api", "local"}
      BY <2>2, <3>1 DEF Token
    <3> QED
      BY <1>5, <2>2, <3>2, MoveKeeps DEF Claims, States
  <2> QED
    BY <2>1, <2>2
<1>6. ASSUME NEW r \in Requests, SyncUser(r) PROVE IndInv'
  BY <1>6, MoveKeeps DEF SyncUser, States, IndInv, ClaimsInv
<1>7. CASE LinkExpires
  <2>1. tokens' \subseteq Token /\ UNCHANGED <<published, cache, req>>
    BY <1>0, <1>7 DEF LinkExpires
  <2> QED
    BY <2>1 DEF IndInv, TypeOK, ClaimsInv, DocInv
<1>8. CASE UNCHANGED vars
  BY <1>8 DEF vars, IndInv, TypeOK, ClaimsInv, DocInv
<1> QED
  BY <1>1, <1>2, <1>3, <1>4, <1>5, <1>6, <1>7, <1>8, HandleKeeps, RotateKeeps,
     FetchKeeps, InstallKeeps DEF Next, Proceed

LEMMA Invariance == Spec => []IndInv
<1>1. Init => IndInv
  BY TypeInit DEF Init, IndInv, ClaimsInv, DocInv, Idle
<1> QED
  BY <1>1, IndNext, PTL DEF Spec

-----------------------------------------------------------------------------
\* The fields of the state are of their types; the cache is never installed
\* from a key set without usable keys.
THEOREM MiddlewareTyped == Spec => []TypeOK
<1>1. IndInv => TypeOK
  BY DEF IndInv
<1> QED
  BY <1>1, Invariance, PTL

\* Only access tokens for this server reach a handler.
THEOREM OnlyAccessTokens == Spec => []AdmittedByAccessToken
<1>1. IndInv => AdmittedByAccessToken
  BY DEF IndInv, ClaimsInv, AdmittedByAccessToken
<1> QED
  BY <1>1, Invariance, PTL

\* A request that is refused for want of a key after its own refresh has been
\* overtaken, or the provider did not publish the key at some moment of it.
THEOREM KeysAreFound == Spec => KnownKeyFound
<1> DEFINE Missing(r) == \E v \in req[r].since..published : req[r].token.kid \notin Docs[v]
           Step == \A r \in Requests :
                     req[r].pc = "again" /\ req'[r].pc = "idle" /\ ~req[r].overtaken => Missing(r)
<1>1. ASSUME IndInv, [Next]_vars, NEW r \in Requests,
             req[r].pc = "again", req'[r].pc = "idle", ~req[r].overtaken
      PROVE  Missing(r)
  <2>1. LookupAgain(r)
    <3>0. req \in [Requests -> Request]
      BY <1>1 DEF IndInv, TypeOK, Request
    <3>1. ASSUME NEW q \in Requests, Proceed(q), q # r PROVE req'[r].pc = "again"
      BY <1>1, <3>0, <3>1, Zenon
         DEF Proceed, Lookup, Fetch, FetchFails, Install, NoKeys, LookupAgain, Claims,
             SyncUser, SyncRefuses, IssuePendingLink, Done, Goto, Refuse, Replaces, Request
    <3>2. ASSUME NEW q \in Requests, NEW t \in tokens, Handle(q, t) PROVE req'[r].pc = "again"
      BY <1>1, <3>0, <3>2 DEF Handle, Idle
    <3>3. ASSUME Rotate \/ LinkExpires \/ UNCHANGED vars PROVE req'[r].pc = "again"
      BY <1>1, <3>3 DEF Rotate, LinkExpires, vars
    <3>4. ASSUME Proceed(r) PROVE LookupAgain(r)
      BY <1>1, <3>4
         DEF Proceed, Lookup, Fetch, FetchFails, Install, NoKeys, Claims,
             SyncUser, SyncRefuses, IssuePendingLink, Done
    <3> QED
      BY <1>1, <3>1, <3>2, <3>3, <3>4 DEF Next
  <2>2. req[r].token.kid \notin Docs[cache]
    <3>1. ASSUME req[r].token.kid \in Docs[cache] PROVE req'[r].pc = "claims"
      BY <1>1, <2>1, <3>1 DEF LookupAgain, Goto, IndInv, TypeOK
    <3> QED
      BY <1>1, <3>1
  <2>3. /\ req[r].since <= req[r].doc /\ req[r].doc <= cache
        /\ req[r].since \in Nat /\ req[r].doc \in Nat /\ cache \in 0..published
        /\ published \in Nat
    BY <1>1 DEF IndInv, TypeOK, DocInv, Versions
  <2> QED
    BY <2>2, <2>3
<1>2. IndInv /\ [Next]_vars => [Step]_vars
  BY <1>1
<1> QED
  BY <1>2, Invariance, PTL DEF Spec, KnownKeyFound
=============================================================================
