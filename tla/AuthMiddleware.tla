--------------------------- MODULE AuthMiddleware ---------------------------
(***************************************************************************)
(* AuthMiddleware of middleware/auth.go: which bearer tokens Handle lets   *)
(* through, and the cache of the identity provider's public keys that it   *)
(* fills on demand (keyFunc, lookupKey, refreshJWKS).  Auth0 and the local *)
(* secret are both configured.                                             *)
(*                                                                         *)
(* Requests are served concurrently.  A lookup in the cache and the        *)
(* installation of a fetched key set are single critical sections of       *)
(* AuthMiddleware.mu; nothing is locked while the key set is fetched, and  *)
(* nothing keeps two requests from fetching at the same time.              *)
(*                                                                         *)
(* Docs[v] are the usable RSA keys of the v-th key set that the provider   *)
(* publishes; the cache is described by the v it was installed from, and   *)
(* version 0 is the empty map the server starts with.                      *)
(***************************************************************************)
EXTENDS Naturals, FiniteSets

CONSTANTS Requests,   \* the requests served at one time
          Kids,       \* the ids of the provider's signing keys
          NoKid,      \* a token without kid header
          MaxVersion, \* bound: key sets the provider publishes
          Docs,       \* Docs[v]: the keys of version v
          Issued      \* the tokens issued elsewhere, by Auth0 and by Login

\* "api" is an Auth0 access token for this server's audience, "other" one for
\* another audience, "local" a token of issueTokenPair, "link" a pending link
\* token, which is signed with the secret of the local ones; a "misfit" is not
\* signed with the algorithm of the key that its kid, or having none, asks for.
Token == [kind : {"api", "other"}, kid : Kids, expired : BOOLEAN]
         \cup [kind : {"local", "link"}, kid : {NoKid}, expired : BOOLEAN]
         \cup [kind : {"misfit"}, kid : Kids \cup {NoKid}, expired : BOOLEAN]
LinkToken(late) == [kind |-> "link", kid |-> NoKid, expired |-> late]

Versions == 0..MaxVersion

ASSUME AuthAssumption ==
  /\ NoKid \notin Kids
  /\ MaxVersion \in Nat \ {0}
  /\ Docs \in [Versions -> SUBSET Kids] /\ Docs[0] = {}
  /\ Issued \subseteq {t \in Token : t.kind # "link"}

VARIABLES
  published, \* the version the provider answers with
  cache,     \* jwksByK, as the version it was installed from
  tokens,    \* the tokens in the hands of clients
  req        \* req[r]: what request r is doing

vars == <<published, cache, tokens, req>>

States == {"idle", "lookup", "fetch", "install", "again", "claims", "sync", "next"}
NoToken == [kind |-> "none", kid |-> NoKid, expired |-> FALSE]
\* doc is the key set the request fetched; since and overtaken are history: the
\* version published when it arrived, and whether an older key set has
\* replaced the one it installed.
Idle == [pc |-> "idle", token |-> NoToken, since |-> 0, doc |-> 0, overtaken |-> FALSE]

Goto(r, s) == req' = [req EXCEPT ![r].pc = s]
\* The request is answered without reaching a handler.
Refuse(r) == req' = [req EXCEPT ![r] = Idle]
Signed(t) == t.kid # NoKid

\* r goes on to its second lookup; those waiting for theirs, with a newer key
\* set, are overtaken.
Replaces(r) ==
  req' = [q \in Requests |->
            IF q = r THEN [req[q] EXCEPT !.pc = "again"]
            ELSE IF req[q].pc = "again" /\ req[r].doc < req[q].doc
                 THEN [req[q] EXCEPT !.overtaken = TRUE]
            ELSE req[q]]

Init == /\ published = 1 /\ cache = 0
        /\ tokens = Issued
        /\ req = [r \in Requests |-> Idle]

\* The provider publishes its next key set.
Rotate == /\ published < MaxVersion
          /\ published' = published + 1
          /\ UNCHANGED <<cache, tokens, req>>

-----------------------------------------------------------------------------
\* Handle with token t.  keyFunc refuses a misfit at once; else it asks for a
\* key of the provider if the token has a kid, and if not it takes the local
\* secret and the signature verifies.
Handle(r, t) ==
  /\ req[r] = Idle /\ t \in tokens
  /\ IF t.kind = "misfit" THEN UNCHANGED req
     ELSE req' = [req EXCEPT ![r] = [pc |-> IF Signed(t) THEN "lookup" ELSE "claims",
                                     token |-> t, since |-> published, doc |-> 0,
                                     overtaken |-> FALSE]]
  /\ UNCHANGED <<published, cache, tokens>>

\* Mutant: only an empty cache is refreshed.
Lookup_NoRefresh(r) ==
  /\ req[r].pc = "lookup"
  /\ IF req[r].token.kid \in Docs[cache] THEN Goto(r, "claims")
     ELSE IF cache = 0 THEN Goto(r, "fetch") ELSE Refuse(r)
  /\ UNCHANGED <<published, cache, tokens>>

\* The first lookupKey of keyFunc.
Lookup(r) ==
  /\ req[r].pc = "lookup"
  /\ Goto(r, IF req[r].token.kid \in Docs[cache] THEN "claims" ELSE "fetch")
  /\ UNCHANGED <<published, cache, tokens>>

\* refreshJWKS: the provider answers ...
Fetch(r) ==
  /\ req[r].pc = "fetch"
  /\ req' = [req EXCEPT ![r].pc = "install", ![r].doc = published]
  /\ UNCHANGED <<published, cache, tokens>>

\* ... or not: an error, a status, a body that does not parse, the timeout.
FetchFails(r) ==
  /\ req[r].pc = "fetch"
  /\ Refuse(r)
  /\ UNCHANGED <<published, cache, tokens>>

\* Mutant: a cache that has keys is not replaced.
Install_OnlyFirst(r) ==
  /\ req[r].pc = "install" /\ Docs[req[r].doc] # {}
  /\ cache' = IF cache = 0 THEN req[r].doc ELSE cache
  /\ Replaces(r)
  /\ UNCHANGED <<published, tokens>>

\* Mutant: a key set without usable keys is installed.
Install_Empty(r) ==
  /\ req[r].pc = "install"
  /\ cache' = req[r].doc
  /\ Replaces(r)
  /\ UNCHANGED <<published, tokens>>

\* What was fetched replaces the map, whatever came in meanwhile ...
Install(r) ==
  /\ req[r].pc = "install" /\ Docs[req[r].doc] # {}
  /\ cache' = req[r].doc
  /\ Replaces(r)
  /\ UNCHANGED <<published, tokens>>

\* ... unless it has no usable key.
NoKeys(r) ==
  /\ req[r].pc = "install" /\ Docs[req[r].doc] = {}
  /\ Refuse(r)
  /\ UNCHANGED <<published, cache, tokens>>

\* The second lookupKey of keyFunc.
LookupAgain(r) ==
  /\ req[r].pc = "again"
  /\ IF req[r].token.kid \in Docs[cache] THEN Goto(r, "claims") ELSE Refuse(r)
  /\ UNCHANGED <<published, cache, tokens>>

-----------------------------------------------------------------------------
\* Mutant: handleLocalToken does not look at the issuer.
Claims_NoIssuer(r) ==
  /\ req[r].pc = "claims"
  /\ LET t == req[r].token IN
     IF t.expired \/ t.kind = "other" THEN Refuse(r)
     ELSE Goto(r, IF Signed(t) THEN "sync" ELSE "next")
  /\ UNCHANGED <<published, cache, tokens>>

\* The signature is right: the parser checks the expiry, handleAuth0Token
\* issuer and audience, handleLocalToken the issuer.
Claims(r) ==
  /\ req[r].pc = "claims"
  /\ LET t == req[r].token IN
     IF t.expired \/ t.kind \in {"other", "link"} THEN Refuse(r)
     ELSE Goto(r, IF Signed(t) THEN "sync" ELSE "next")
  /\ UNCHANGED <<published, cache, tokens>>

\* SyncAuth0User has the user of the token: c.Next() runs the handler.
SyncUser(r) ==
  /\ req[r].pc = "sync"
  /\ Goto(r, "next")
  /\ UNCHANGED <<published, cache, tokens>>

\* It refuses an unverified address, knows no user, or fails.
SyncRefuses(r) ==
  /\ req[r].pc = "sync"
  /\ Refuse(r)
  /\ UNCHANGED <<published, cache, tokens>>

\* It asks for consent: the answer carries a pending link token.
IssuePendingLink(r) ==
  /\ req[r].pc = "sync"
  /\ tokens' = tokens \cup {LinkToken(FALSE)}
  /\ Refuse(r)
  /\ UNCHANGED <<published, cache>>

\* The handler behind the middleware has answered.
Done(r) ==
  /\ req[r].pc = "next"
  /\ Refuse(r)
  /\ UNCHANGED <<published, cache, tokens>>

\* The ten minutes of a pending link token are over.
LinkExpires ==
  /\ LinkToken(FALSE) \in tokens
  /\ tokens' = (tokens \ {LinkToken(FALSE)}) \cup {LinkToken(TRUE)}
  /\ UNCHANGED <<published, cache, req>>

-----------------------------------------------------------------------------
\* What a request that has begun does next.
Proceed(r) ==
  \/ Lookup(r) \/ Fetch(r) \/ FetchFails(r) \/ Install(r) \/ NoKeys(r) \/ LookupAgain(r)
  \/ Claims(r) \/ SyncUser(r) \/ SyncRefuses(r) \/ IssuePendingLink(r) \/ Done(r)

Next == \/ Rotate \/ LinkExpires
        \/ \E r \in Requests : Proceed(r) \/ \E t \in tokens : Handle(r, t)

Spec == Init /\ [][Next]_vars

\* The tokens that the provider has signed.
Keyed == {t \in Issued : Signed(t) /\ t.kind # "misfit"}

\* Every request is finished (the HTTP client gives up after 5 s, nothing
\* else blocks).  Clients go on presenting each of these tokens, and the
\* provider does not fail every time it is asked.
Fairness ==
  /\ \A r \in Requests : WF_vars(Proceed(r)) /\ SF_vars(Fetch(r))
  /\ \A t \in Keyed : SF_vars(\E r \in Requests : Handle(r, t))

FairSpec == Spec /\ Fairness
-----------------------------------------------------------------------------
TypeOK ==
  /\ published \in Versions \ {0} /\ cache \in 0..published
  /\ cache = 0 \/ Docs[cache] # {}
  /\ tokens \subseteq Token
  /\ req \in [Requests -> [pc : States, token : Token \cup {NoToken},
                           since : 0..published, doc : 0..published,
                           overtaken : BOOLEAN]]

\* Only an access token for this server, neither misfit nor expired, reaches a
\* handler: the pending link token of a 409 answer has the same signature as
\* a local access token and is sent to the same server, and does not.
AdmittedByAccessToken ==
  \A r \in Requests :
    req[r].pc = "next" => req[r].token.kind \in {"api", "local"} /\ ~req[r].token.expired

\* A token is not refused for want of a key that the provider published all
\* the time the request took, unless an older key set, fetched by another
\* request, replaced the one this request installed (auth.go:195-201).
KnownKeyFound ==
  [][\A r \in Requests :
       req[r].pc = "again" /\ req'[r].pc = "idle" /\ ~req[r].overtaken =>
         \E v \in req[r].since..published : req[r].token.kid \notin Docs[v]]_vars

\* The cache follows the provider: a token whose key the provider goes on
\* publishing has its key found again and again, whatever rotations and
\* failed or overtaken refreshes came before.
RecoversFromRotation ==
  \A t \in Keyed :
    <>[](t.kid \in Docs[published]) =>
      []<>(\E r \in Requests : req[r].token = t /\ req[r].pc = "claims")
=============================================================================
