--------------------------- MODULE HostConnections ---------------------------
(***************************************************************************)
(* Host Connections (server/host-auth.ts): the authorization codes the     *)
(* Operator consents to, the grants issued for them, static tokens,        *)
(* refresh and revocation.  A token is a number, and its hash the same     *)
(* number; every one is sealed in the vault and named in the row of its    *)
(* connection, two writes the vault's await separates.                     *)
(***************************************************************************)
EXTENDS Custody

CONSTANTS
  Clients,        \* registered OAuth clients
  MaxCodes,       \* bound on the authorization codes
  Fragile         \* rows in whose handlers the process may die half-way

ASSUME HostConnectionsAssumption ==
  /\ MaxCodes \in Nat
  /\ Fragile \subseteq Nat

VARIABLES
  codes,          \* oauth_codes, a deleted row marked so
  connections     \* host_connections

hostVars == <<codes, connections>>

-----------------------------------------------------------------------------
None == 0

CodeRow == [client : Clients, live : BOOLEAN]

\* A static token has no client, no code and no refresh token.
ConnectionRow ==
  [kind : {"static", "oauth"}, code : 0 .. MaxCodes, status : {"active", "revoked"},
   token : Tokens, fresh : BOOLEAN, accessRef : References, refreshRef : References \cup {None}]

\* A call that mints: the code it answers, its tokens and, once sealed, their
\* references; a refresh names its connection.
HostCall ==
  [op : {"mint", "issue"}, step : {"access", "refresh", "insert"}, code : 0 .. MaxCodes,
   token : Tokens, accessRef : References \cup {None}, refreshRef : References \cup {None}]
  \cup [op : {"refresh"}, step : {"rotate", "update"}, connection : Nat, token : Tokens]

HostConnectionsTypeOK ==
  /\ codes \in Seq(CodeRow)
  /\ Len(codes) <= MaxCodes
  /\ connections \in Seq(ConnectionRow)

HostConnectionsInit == codes = <<>> /\ connections = <<>>

-----------------------------------------------------------------------------
(* Consent *)

authorize(client) ==
  /\ Turn
  /\ Len(codes) < MaxCodes
  /\ codes' = Append(codes, [client |-> client, live |-> TRUE])
  /\ UNCHANGED <<custodyVars, connections>>

\* A code that has lapsed is as good as deleted: takeCode refuses it.
codeExpires(m) ==
  /\ codes[m].live
  /\ codes' = [codes EXCEPT ![m].live = FALSE]
  /\ UNCHANGED <<custodyVars, connections>>

-----------------------------------------------------------------------------
(* Minting *)

Minting(op, step, code) ==
  [op |-> op, step |-> step, code |-> code, token |-> minted + 1,
   accessRef |-> None, refreshRef |-> None]

mintStaticHostToken(c) ==
  /\ Begin(c, Minting("mint", "access", None), 1)
  /\ UNCHANGED <<vaultVars, hostVars>>

\* Faulty variant of deleteCode: the row goes once the grant is there.
deleteCodeLater(m) == UNCHANGED codes

deleteCode(m) == codes' = [codes EXCEPT ![m].live = FALSE]

\* The row is read and deleted in one turn, then issueTokens awaits the vault.
exchangeAuthorizationCode(c, m, client) ==
  /\ codes[m].live
  /\ codes[m].client = client
  /\ deleteCode(m)
  /\ Begin(c, Minting("issue", "access", m), 2)
  /\ UNCHANGED <<vaultVars, connections>>

IsAt(c, op, step) == calls[c].op = op /\ calls[c].step = step

storeAccess(c) ==
  /\ \/ IsAt(c, "mint", "access")
     \/ IsAt(c, "issue", "access")
  /\ storeSecret(c, calls[c].token,
       [calls[c] EXCEPT !.accessRef = Len(secrets) + 1,
                        !.step = IF calls[c].op = "issue" THEN "refresh" ELSE "insert"])
  /\ UNCHANGED hostVars

\* The refresh token is the one minted with the access token.
storeRefresh(c) ==
  /\ IsAt(c, "issue", "refresh")
  /\ storeSecret(c, calls[c].token + 1,
       [calls[c] EXCEPT !.refreshRef = Len(secrets) + 1, !.step = "insert"])
  /\ UNCHANGED hostVars

insertConnection(c) ==
  /\ Resumes(c)
  /\ IsAt(c, "mint", "insert") \/ IsAt(c, "issue", "insert")
  /\ connections' = Append(connections,
       [kind |-> IF calls[c].op = "mint" THEN "static" ELSE "oauth",
        code |-> calls[c].code, status |-> "active", token |-> calls[c].token,
        fresh |-> TRUE, accessRef |-> calls[c].accessRef,
        refreshRef |-> calls[c].refreshRef])
  /\ EndCall(c)
  /\ UNCHANGED <<vaultVars, minted, codes>>

-----------------------------------------------------------------------------
(* Refresh *)

accessExpires(n) ==
  /\ connections[n].kind = "oauth"
  /\ connections[n].fresh
  /\ connections' = [connections EXCEPT ![n].fresh = FALSE]
  /\ UNCHANGED <<custodyVars, codes>>

\* Faulty variant of exchangeRefreshToken: the row first, then the vault.
exchangeRefreshTokenRowFirst(c, n) ==
  /\ connections[n].kind = "oauth"
  /\ connections[n].status = "active"
  /\ Begin(c, [op |-> "refresh", step |-> "rotate", connection |-> n,
               token |-> minted + 1], 1)
  /\ connections' = [connections EXCEPT ![n].token = minted + 1]
  /\ UNCHANGED <<vaultVars, codes>>

\* The status is read before the vault is awaited; the refresh token stays.
exchangeRefreshToken(c, n) ==
  /\ connections[n].kind = "oauth"
  /\ connections[n].status = "active"
  /\ Begin(c, [op |-> "refresh", step |-> "rotate", connection |-> n,
               token |-> minted + 1], 1)
  /\ UNCHANGED <<vaultVars, hostVars>>

rotateAccess(c) ==
  /\ IsAt(c, "refresh", "rotate")
  /\ rotateSecret(c, connections[calls[c].connection].accessRef, calls[c].token,
       [calls[c] EXCEPT !.step = "update"])
  /\ UNCHANGED hostVars

\* The row is written without another look at its status.
updateGrant(c) ==
  /\ Resumes(c)
  /\ IsAt(c, "refresh", "update")
  /\ connections' = [connections EXCEPT
       ![calls[c].connection].token = calls[c].token,
       ![calls[c].connection].fresh = TRUE]
  /\ EndCall(c)
  /\ UNCHANGED <<vaultVars, minted, codes>>

-----------------------------------------------------------------------------
(* Revocation *)

SecretsOf(n) == {connections[n].accessRef, connections[n].refreshRef} \ {None}

markRevoked(n) ==
  /\ connections[n].status = "active"
  /\ connections' = [connections EXCEPT ![n].status = "revoked"]
  /\ UNCHANGED codes

revokeHostConnection(n) ==
  /\ Turn
  /\ markRevoked(n)
  /\ revokeSecret(SecretsOf(n))
  /\ UNCHANGED <<keyed, vaultReady, minted, calls, waiting>>

\* By the host, with either token of its grant: a static one has no client.
revokeToken(n) ==
  /\ connections[n].kind = "oauth"
  /\ revokeHostConnection(n)

\* The process dies after the row and before the last secret.
revocationCutShort(n) ==
  /\ Turn
  /\ n \in Fragile
  /\ markRevoked(n)
  /\ \E done \in {{}, {connections[n].accessRef}} \ {SecretsOf(n)} : revokeSecret(done)
  /\ ProcessRestarts

\* verifyHostToken lets the token through.
Verifies(token) ==
  \E n \in DOMAIN connections :
    /\ connections[n].token = token
    /\ connections[n].status = "active"
    /\ connections[n].fresh

HostSteps(c) ==
  \/ storeAccess(c)
  \/ storeRefresh(c)
  \/ insertConnection(c)
  \/ rotateAccess(c)
  \/ updateGrant(c)

-----------------------------------------------------------------------------
(* Properties *)

\* A consent leads to one connection: two exchanges of a code that overlap do
\* not both issue ("DELETE FROM oauth_codes" before issueTokens is awaited).
GrantPerConsent ==
  \A m, n \in DOMAIN connections :
    connections[m].code = connections[n].code /\ connections[m].code # None => m = n

\* A revoked connection stays as it is ("UPDATE host_connections" of the refresh
\* looks at no status, host-auth.ts:338): no refresh under way when it was
\* revoked gives it a token, its own verifies no more, and the vault holds
\* nothing of it, unless its revocation was cut short.
RevokedIsClosed ==
  [][\A n \in DOMAIN connections : connections[n].status = "revoked" =>
       /\ connections'[n].status = "revoked"
       /\ connections'[n].token = connections[n].token
       /\ ~Verifies(connections[n].token)
       /\ n \notin Fragile =>
            \A r \in SecretsOf(n) : secrets'[r] = [status |-> "revoked", token |-> Wiped]
    ]_<<connections, secrets>>
=============================================================================
