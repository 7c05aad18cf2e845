----------------------------- MODULE VaultProofs -----------------------------
(***************************************************************************)
(* Theorems about the vault under Access: what a row verifies is what is   *)
(* sealed for it, and a revoked connection stays closed.                   *)
(*                                                                         *)
(* A secret has one owner, a row or a call (OwnersInv), so a rotation or a *)
(* revocation touches nobody else's.  A refresh or a rotation that has     *)
(* written the vault is queued, and its row waits for it (QueuedInv); of   *)
(* several, the latest in the queue has its token sealed (SealedInv): the  *)
(* continuations run in the order the vault was written.  A token is of    *)
(* one row or one call (TokensInv), and a refresh that comes after a       *)
(* revocation finds the secret wiped (ClosedInv).                          *)
(***************************************************************************)
EXTENDS AccessProofs

-----------------------------------------------------------------------------
(* What the steps do *)

\* A refresh or a rotation that has written the vault and not yet the row.
Updating(call, op, row) ==
  /\ call.op = op
  /\ call.step = "update"
  /\ row = IF op = "refresh" THEN call.connection ELSE call.project

Updates(call) == call.op \in {"refresh", "rotate"} /\ call.step = "update"

MintsHost(call) == call.op \in {"mint", "issue"}

\* The record of a call whose handler has just begun.
Opening(call) ==
  \/ /\ MintsHost(call) /\ call.step = "access"
     /\ call.token = minted + 1 /\ call.accessRef = None /\ call.refreshRef = None
  \/ call.op = "register" /\ call.step = "store" /\ call.ref = None
  \/ call.op = "conformance" /\ call.step = "resolve"
  \/ /\ call.op = "refresh" /\ call.step = "rotate" /\ call.token = minted + 1
     /\ connections[call.connection].status = "active"
  \/ call.op = "rotate" /\ call.step = "rotate"

Requests(c) ==
  \/ /\ UNCHANGED projectVars
     /\ \/ mintStaticHostToken(c)
        \/ \E m \in DOMAIN codes, client \in Clients : exchangeAuthorizationCode(c, m, client)
        \/ \E n \in DOMAIN connections : exchangeRefreshToken(c, n)
  \/ /\ UNCHANGED hostVars
     /\ \/ \E d \in Domains : registerProject(c, d)
        \/ \E p \in DOMAIN projects : runConformanceFor(c, p) \/ rotateProjectToken(c, p)

LEMMA Begins ==
  ASSUME TypesInv, NEW c \in Calls, Requests(c)
  PROVE  \E call, k :
           /\ Begin(c, call, k) /\ k \in {0, 1, 2} /\ Opening(call)
           /\ MintsHost(call) \/ call.op = "refresh" => k > 0
           /\ UNCHANGED <<vaultReady, secrets, connections, projects>>
<1> DEFINE Goal(call, k) ==
      /\ Begin(c, call, k) /\ k \in {0, 1, 2} /\ Opening(call)
      /\ MintsHost(call) \/ call.op = "refresh" => k > 0
      /\ UNCHANGED <<vaultReady, secrets, connections, projects>>
<1>1. ASSUME mintStaticHostToken(c), UNCHANGED projectVars
      PROVE  \E call, k : Goal(call, k)
  <2> DEFINE call == Minting("mint", "access", None)
  <2>1. Begin(c, call, 1) /\ UNCHANGED <<vaultReady, secrets, connections, projects>>
    BY <1>1 DEF mintStaticHostToken, vaultVars, hostVars, projectVars
  <2>2. call.op = "mint" /\ call.step = "access" /\ call.token = minted + 1
        /\ call.accessRef = None /\ call.refreshRef = None
    BY <1>1 DEF mintStaticHostToken, Minting, RunConformance, None
  <2> HIDE DEF call
  <2>3. Opening(call) /\ (MintsHost(call) \/ call.op = "refresh" => 1 > 0)
    BY <2>2 DEF Opening, MintsHost
  <2>4. QED
    BY <2>1, <2>3
<1>2. ASSUME NEW m \in DOMAIN codes, NEW client \in Clients, exchangeAuthorizationCode(c, m, client),
             UNCHANGED projectVars
      PROVE  \E call, k : Goal(call, k)
  <2> DEFINE call == Minting("issue", "access", m)
  <2>1. Begin(c, call, 2) /\ UNCHANGED <<vaultReady, secrets, connections, projects>>
    BY <1>2 DEF exchangeAuthorizationCode, vaultVars, hostVars, projectVars
  <2>2. call.op = "issue" /\ call.step = "access" /\ call.token = minted + 1
        /\ call.accessRef = None /\ call.refreshRef = None
    BY <1>2 DEF exchangeAuthorizationCode, Minting, RunConformance, None
  <2> HIDE DEF call
  <2>3. Opening(call) /\ (MintsHost(call) \/ call.op = "refresh" => 2 > 0)
    BY <2>2 DEF Opening, MintsHost
  <2>4. QED
    BY <2>1, <2>3
<1>3. ASSUME NEW n \in DOMAIN connections, exchangeRefreshToken(c, n), UNCHANGED projectVars
      PROVE  \E call, k : Goal(call, k)
  <2> DEFINE call == [op |-> "refresh", step |-> "rotate", connection |-> n, token |-> minted + 1]
  <2>1. Begin(c, call, 1) /\ UNCHANGED <<vaultReady, secrets, connections, projects>>
    BY <1>3 DEF exchangeRefreshToken, vaultVars, hostVars, projectVars
  <2>2. call.op = "refresh" /\ call.step = "rotate" /\ call.token = minted + 1
        /\ connections[call.connection].status = "active"
    BY <1>3 DEF exchangeRefreshToken, Minting, RunConformance, None
  <2> HIDE DEF call
  <2>3. Opening(call) /\ (MintsHost(call) \/ call.op = "refresh" => 1 > 0)
    BY <2>2 DEF Opening, MintsHost
  <2>4. QED
    BY <2>1, <2>3
<1>4. ASSUME NEW d \in Domains, registerProject(c, d), UNCHANGED hostVars
      PROVE  \E call, k : Goal(call, k)
  <2> DEFINE call == [op |-> "register", step |-> "store", domain |-> d, token |-> minted + 1, ref |-> 0]
  <2>1. Begin(c, call, 1) /\ UNCHANGED <<vaultReady, secrets, connections, projects>>
    BY <1>4 DEF registerProject, vaultVars, hostVars, projectVars
  <2>2. call.op = "register" /\ call.step = "store" /\ call.ref = None
    BY <1>4 DEF registerProject, Minting, RunConformance, None
  <2> HIDE DEF call
  <2>3. Opening(call) /\ (MintsHost(call) \/ call.op = "refresh" => 1 > 0)
    BY <2>2 DEF Opening, MintsHost
  <2>4. QED
    BY <2>1, <2>3
<1>5. ASSUME NEW p \in DOMAIN projects, runConformanceFor(c, p), UNCHANGED hostVars
      PROVE  \E call, k : Goal(call, k)
  <2> DEFINE call == RunConformance(p)
  <2>1. Begin(c, call, 0) /\ UNCHANGED <<vaultReady, secrets, connections, projects>>
    BY <1>5 DEF runConformanceFor, vaultVars, hostVars, projectVars
  <2>2. call.op = "conformance" /\ call.step = "resolve"
    BY <1>5 DEF runConformanceFor, Minting, RunConformance, None
  <2> HIDE DEF call
  <2>3. Opening(call) /\ (MintsHost(call) \/ call.op = "refresh" => 0 > 0)
    BY <2>2 DEF Opening, MintsHost
  <2>4. QED
    BY <2>1, <2>3
<1>6. ASSUME NEW p \in DOMAIN projects, rotateProjectToken(c, p), UNCHANGED hostVars
      PROVE  \E call, k : Goal(call, k)
  <2> DEFINE call == [op |-> "rotate", step |-> "rotate", project |-> p, token |-> minted + 1]
  <2>1. Begin(c, call, 1) /\ UNCHANGED <<vaultReady, secrets, connections, projects>>
    BY <1>6 DEF rotateProjectToken, vaultVars, hostVars, projectVars
  <2>2. call.op = "rotate" /\ call.step = "rotate"
    BY <1>6 DEF rotateProjectToken, Minting, RunConformance, None
  <2> HIDE DEF call
  <2>3. Opening(call) /\ (MintsHost(call) \/ call.op = "refresh" => 1 > 0)
    BY <2>2 DEF Opening, MintsHost
  <2>4. QED
    BY <2>1, <2>3
<1>7. QED
  BY <1>1, <1>2, <1>3, <1>4, <1>5, <1>6 DEF Requests

\* What a call is once the token it sealed has a reference.
Stored(call, stored, token, new) ==
  \/ /\ MintsHost(call) /\ call.step = "access" /\ token = call.token
     /\ stored.op = call.op /\ stored.step \in {"refresh", "insert"}
     /\ stored.step = "refresh" => stored.op = "issue"
     /\ stored.token = call.token /\ stored.accessRef = new /\ stored.refreshRef = call.refreshRef
  \/ /\ call.op = "issue" /\ call.step = "refresh"
     /\ stored.op = call.op /\ stored.step = "insert"
     /\ stored.token = call.token /\ stored.accessRef = call.accessRef /\ stored.refreshRef = new
  \/ /\ call.op = "register" /\ call.step = "store" /\ token = call.token
     /\ stored.op = call.op /\ stored.step = "insert"
     /\ stored.token = call.token /\ stored.ref = new

LEMMA Stores ==
  ASSUME TypesInv, NEW c \in Calls, storeAccess(c) \/ storeRefresh(c) \/ storeProjectToken(c)
  PROVE  /\ Resumes(c)
         /\ UNCHANGED <<vaultReady, minted>>
         /\ calls[c].op \in {"mint", "issue", "register"}
         /\ \/ UNCHANGED secrets /\ AwaitNetwork(c, Idle)
            \/ \E stored, token :
                 /\ Await(c, stored) /\ Stored(calls[c], stored, token, Len(secrets) + 1)
                 /\ token \in Tokens
                 /\ secrets' = Append(secrets, [status |-> "active", token |-> token])
<1>1. /\ Resumes(c) /\ UNCHANGED <<vaultReady, minted>>
      /\ calls[c].op \in {"mint", "issue", "register"}
  BY DEF storeAccess, storeRefresh, storeProjectToken, storeSecret, IsAt, Serving
<1>2. ASSUME NEW stored, NEW token \in Tokens, storeSecret(c, token, stored),
             Stored(calls[c], stored, token, Len(secrets) + 1)
      PROVE  \/ UNCHANGED secrets /\ AwaitNetwork(c, Idle)
             \/ \E st, t :
                  /\ Await(c, st) /\ Stored(calls[c], st, t, Len(secrets) + 1)
                  /\ t \in Tokens
                  /\ secrets' = Append(secrets, [status |-> "active", token |-> t])
  BY <1>2 DEF storeSecret, EndCall
<1>3. CASE storeAccess(c)
  <2> DEFINE stored == [calls[c] EXCEPT !.accessRef = Len(secrets) + 1,
                          !.step = IF calls[c].op = "issue" THEN "refresh" ELSE "insert"]
  <2>1. MintsHost(calls[c]) /\ calls[c].step = "access" /\ storeSecret(c, calls[c].token, stored)
    BY <1>3 DEF storeAccess, IsAt, MintsHost
  <2>2. calls[c] \in MintCall
    BY <2>1, HostCalls DEF MintsHost
  <2>3. /\ stored.op = calls[c].op /\ stored.step \in {"refresh", "insert"}
        /\ stored.step = "refresh" => stored.op = "issue"
        /\ stored.token = calls[c].token /\ stored.accessRef = Len(secrets) + 1
        /\ stored.refreshRef = calls[c].refreshRef /\ calls[c].token \in Tokens
    BY <2>2 DEF MintCall
  <2> HIDE DEF stored
  <2>4. Stored(calls[c], stored, calls[c].token, Len(secrets) + 1)
    BY <2>1, <2>3 DEF Stored
  <2>5. QED
    BY <1>1, <1>2, <2>1, <2>3, <2>4
<1>4. CASE storeRefresh(c)
  <2> DEFINE stored == [calls[c] EXCEPT !.refreshRef = Len(secrets) + 1, !.step = "insert"]
  <2>1. calls[c].op = "issue" /\ calls[c].step = "refresh" /\ storeSecret(c, calls[c].token + 1, stored)
    BY <1>4 DEF storeRefresh, IsAt
  <2>2. calls[c] \in MintCall
    BY <2>1, HostCalls
  <2>3. /\ stored.op = calls[c].op /\ stored.step = "insert" /\ stored.token = calls[c].token
        /\ stored.accessRef = calls[c].accessRef /\ stored.refreshRef = Len(secrets) + 1
    BY <2>2 DEF MintCall
  <2>4. calls[c].token + 1 \in Tokens
    BY <2>1 DEF TypesInv, Fits
  <2> HIDE DEF stored
  <2>5. Stored(calls[c], stored, calls[c].token + 1, Len(secrets) + 1)
    BY <2>1, <2>3 DEF Stored
  <2>6. QED
    BY <1>1, <1>2, <2>1, <2>4, <2>5
<1>5. CASE storeProjectToken(c)
  <2> DEFINE stored == [calls[c] EXCEPT !.ref = Len(secrets) + 1, !.step = "insert"]
  <2>1. calls[c].op = "register" /\ calls[c].step = "store" /\ storeSecret(c, calls[c].token, stored)
    BY <1>5 DEF storeProjectToken, Serving
  <2>2. calls[c] \in [op : {"register"}, step : {"store", "insert"}, domain : Domains,
                      token : Tokens, ref : Nat]
    BY <2>1, ProjectCalls
  <2>3. /\ stored.op = calls[c].op /\ stored.step = "insert" /\ stored.token = calls[c].token
        /\ stored.ref = Len(secrets) + 1 /\ calls[c].token \in Tokens
    BY <2>2
  <2> HIDE DEF stored
  <2>4. Stored(calls[c], stored, calls[c].token, Len(secrets) + 1)
    BY <2>1, <2>3 DEF Stored
  <2>5. QED
    BY <1>1, <1>2, <2>1, <2>3, <2>4
<1>6. QED
  BY <1>3, <1>4, <1>5

\* The secret a refresh or a rotation writes.
RefOf(op, row) == IF op = "refresh" THEN connections[row].accessRef ELSE projects[row].ref

RowOf(call) == IF call.op = "refresh" THEN call.connection ELSE call.project

LEMMA Rotates ==
  ASSUME TypesInv, NEW c \in Calls, rotateAccess(c) \/ rotateSealed(c)
  PROVE  /\ Resumes(c)
         /\ UNCHANGED <<vaultReady, minted>>
         /\ calls[c].op \in {"refresh", "rotate"} /\ calls[c].step = "rotate"
         /\ calls[c].op = "refresh" => calls[c].connection \in DOMAIN connections
         /\ calls[c].op = "rotate" => calls[c].project \in DOMAIN projects
         /\ calls[c].token \in Tokens
         /\ RefOf(calls[c].op, RowOf(calls[c])) \in DOMAIN secrets
         /\ \/ UNCHANGED secrets /\ AwaitNetwork(c, Idle)
            \/ \E rotated :
                 /\ Await(c, rotated)
                 /\ Updating(rotated, calls[c].op, RowOf(calls[c])) /\ rotated.token = calls[c].token
                 /\ Usable(RefOf(calls[c].op, RowOf(calls[c])))
                 /\ secrets' = [secrets EXCEPT ![RefOf(calls[c].op, RowOf(calls[c]))].token = calls[c].token]
<1> DEFINE rotated == [calls[c] EXCEPT !.step = "update"]
           ref == RefOf(calls[c].op, RowOf(calls[c]))
<1>1. /\ calls[c].op \in {"refresh", "rotate"} /\ calls[c].step = "rotate"
      /\ rotateSecret(c, ref, calls[c].token, rotated)
  BY DEF rotateAccess, rotateSealed, IsAt, Serving, RefOf, RowOf
<1>2. /\ calls[c].op = "refresh" => calls[c].connection \in DOMAIN connections
      /\ calls[c].op = "rotate" => calls[c].project \in DOMAIN projects
      /\ ref \in DOMAIN secrets
  BY <1>1 DEF TypesInv, Fits, RefOf, RowOf
<1>3. CASE calls[c].op = "refresh"
  <2>1. calls[c] \in [op : {"refresh"}, step : {"rotate", "update"}, connection : Nat, token : Tokens]
    BY <1>3, HostCalls
  <2>2. calls[c].token \in Tokens /\ Updating(rotated, calls[c].op, RowOf(calls[c]))
        /\ rotated.token = calls[c].token
    BY <2>1 DEF Updating, RowOf
  <2> HIDE DEF rotated, ref
  <2>3. QED
    BY <1>1, <1>2, <2>2 DEF rotateSecret, EndCall, ref
<1>4. CASE calls[c].op = "rotate"
  <2>1. calls[c] \in [op : {"rotate"}, step : {"rotate", "update"}, project : Nat, token : Tokens]
    BY <1>4, ProjectCalls
  <2>2. calls[c].token \in Tokens /\ Updating(rotated, calls[c].op, RowOf(calls[c]))
        /\ rotated.token = calls[c].token
    BY <2>1 DEF Updating, RowOf
  <2> HIDE DEF rotated, ref
  <2>3. QED
    BY <1>1, <1>2, <2>2 DEF rotateSecret, EndCall, ref
<1>5. QED
  BY <1>1, <1>3, <1>4

LEMMA Resolves ==
  ASSUME TypesInv, NEW c \in Calls, resolveToken(c)
  PROVE  /\ Resumes(c)
         /\ UNCHANGED <<vaultReady, minted, secrets, projects>>
         /\ calls[c].op = "conformance"
         /\ \E call : AwaitNetwork(c, call) /\ (call = Idle \/ call.op = "conformance")
<1> DEFINE ref == projects[calls[c].project].ref
           blank == [op |-> "conformance", step |-> "check", project |-> calls[c].project,
                     token |-> Wiped, todo |-> Order, passed |-> TRUE]
           call == [blank EXCEPT !.token = secrets[ref].token]
<1>1. /\ calls[c].op = "conformance" /\ Resumes(c) /\ call.op = "conformance"
      /\ UNCHANGED <<vaultReady, minted, secrets, projects>>
      /\ AwaitNetwork(c, call) \/ AwaitNetwork(c, Idle)
  BY DEF resolveToken, resolveSecret, Serving, EndCall, vaultVars, projectVars
<1> HIDE DEF call
<1>2. QED
  BY <1>1

\* Neither table gains a row or changes a reference.
SameRefs ==
  /\ DOMAIN connections' = DOMAIN connections
  /\ \A n \in DOMAIN connections :
       /\ connections'[n].accessRef = connections[n].accessRef
       /\ connections'[n].refreshRef = connections[n].refreshRef
  /\ DOMAIN projects' = DOMAIN projects
  /\ \A p \in DOMAIN projects : projects'[p].ref = projects[p].ref

\* A row written in place keeps its references.
LEMMA RowsWritten ==
  ASSUME TypesInv, NEW c \in Calls,
         (updateGrant(c) /\ UNCHANGED projectVars) \/ (updateProject(c) /\ UNCHANGED hostVars)
  PROVE  /\ SameRefs
         /\ Resumes(c) /\ AwaitNetwork(c, Idle) /\ UNCHANGED <<vaultReady, secrets, minted>>
         /\ Updating(calls[c], calls[c].op, RowOf(calls[c]))
         /\ \/ /\ calls[c].op = "refresh" /\ calls[c].connection \in DOMAIN connections
               /\ connections'[calls[c].connection].token = calls[c].token
               /\ connections'[calls[c].connection].status = connections[calls[c].connection].status
               /\ \A n \in DOMAIN connections :
                    n # calls[c].connection => connections'[n] = connections[n]
               /\ UNCHANGED projects
            \/ /\ calls[c].op = "rotate" /\ calls[c].project \in DOMAIN projects
               /\ projects'[calls[c].project].token = calls[c].token
               /\ \A p \in DOMAIN projects : p # calls[c].project => projects'[p] = projects[p]
               /\ UNCHANGED connections
<1>1. connections \in Seq(ConnectionRow) /\ projects \in Seq(ProjectRow)
  BY DEF TypesInv, HostConnectionsTypeOK, ConnectedProjectsTypeOK
<1>2. CASE updateGrant(c) /\ UNCHANGED projectVars
  <2>1. /\ calls[c].op = "refresh" /\ calls[c].step = "update"
        /\ Resumes(c) /\ AwaitNetwork(c, Idle) /\ UNCHANGED <<vaultReady, secrets, minted>>
        /\ connections' = [connections EXCEPT ![calls[c].connection].token = calls[c].token,
                                               ![calls[c].connection].fresh = TRUE]
    BY <1>2 DEF updateGrant, IsAt, EndCall, vaultVars
  <2>2. calls[c].connection \in DOMAIN connections
    BY <2>1 DEF TypesInv, Fits
  <2> DEFINE n == calls[c].connection
             row == [connections[n] EXCEPT !.token = calls[c].token, !.fresh = TRUE]
  <2>3. connections[n] \in ConnectionRow
    BY <1>1, <2>2
  <2>4. /\ row.token = calls[c].token /\ row.status = connections[n].status
        /\ row.accessRef = connections[n].accessRef /\ row.refreshRef = connections[n].refreshRef
        /\ connections' = [connections EXCEPT ![n] = row]
    BY <2>1, <2>2, <2>3 DEF ConnectionRow
  <2> HIDE DEF n, row
  <2>5. /\ DOMAIN connections' = DOMAIN connections /\ connections'[n] = row
        /\ \A m \in DOMAIN connections : m # n => connections'[m] = connections[m]
    BY <1>1, <2>2, <2>4 DEF n
  <2>6. UNCHANGED projects
    BY <1>2 DEF projectVars
  <2>7. QED
    BY <2>1, <2>2, <2>4, <2>5, <2>6 DEF SameRefs, n, Updating, RowOf
<1>3. CASE updateProject(c) /\ UNCHANGED hostVars
  <2>1. /\ calls[c].op = "rotate" /\ calls[c].step = "update"
        /\ Resumes(c) /\ AwaitNetwork(c, Idle) /\ UNCHANGED <<vaultReady, secrets, minted>>
        /\ projects' = [projects EXCEPT ![calls[c].project].token = calls[c].token]
    BY <1>3 DEF updateProject, Serving, EndCall, vaultVars
  <2>2. calls[c].project \in DOMAIN projects
    BY <2>1 DEF TypesInv, Fits
  <2> DEFINE p == calls[c].project
             row == [projects[p] EXCEPT !.token = calls[c].token]
  <2>3. projects[p] \in ProjectRow
    BY <1>1, <2>2
  <2>4. /\ row.token = calls[c].token /\ row.ref = projects[p].ref
        /\ projects' = [projects EXCEPT ![p] = row]
    BY <2>1, <2>2, <2>3 DEF ProjectRow
  <2> HIDE DEF p, row
  <2>5. /\ DOMAIN projects' = DOMAIN projects /\ projects'[p] = row
        /\ \A q \in DOMAIN projects : q # p => projects'[q] = projects[q]
    BY <1>1, <2>2, <2>4 DEF p
  <2>6. UNCHANGED connections
    BY <1>3 DEF hostVars
  <2>7. QED
    BY <2>1, <2>2, <2>4, <2>5, <2>6 DEF SameRefs, p, Updating, RowOf
<1>4. QED
  BY <1>2, <1>3

\* A connection is revoked, or its access token runs out.
LEMMA RowsMarked ==
  ASSUME TypesInv, UNCHANGED projectVars, NEW n \in DOMAIN connections,
         \/ accessExpires(n) \/ revokeHostConnection(n)
         \/ revokeToken(n) \/ revocationCutShort(n)
  PROVE  /\ SameRefs
         /\ UNCHANGED <<projects, minted>>
         /\ connections'[n].token = connections[n].token
         /\ \A m \in DOMAIN connections : m # n => connections'[m] = connections[m]
         /\ \/ /\ connections'[n].status = connections[n].status
               /\ UNCHANGED <<secrets, calls, waiting, vaultReady>>
            \/ /\ Turn
               /\ connections[n].status = "active" /\ connections'[n].status = "revoked"
               /\ DOMAIN secrets' = DOMAIN secrets
               /\ \A r \in DOMAIN secrets :
                    secrets'[r] = secrets[r]
                      \/ (r \in SecretsOf(n) /\ secrets'[r] = [status |-> "revoked", token |-> Wiped])
               /\ \/ /\ UNCHANGED <<calls, waiting, vaultReady>>
                     /\ \A r \in SecretsOf(n) :
                          r \in DOMAIN secrets => secrets'[r] = [status |-> "revoked", token |-> Wiped]
                  \/ n \in Fragile /\ ProcessRestarts
<1>1. connections \in Seq(ConnectionRow) /\ connections[n] \in ConnectionRow
      /\ secrets \in Seq(SecretRow)
  BY DEF TypesInv, HostConnectionsTypeOK, CustodyTypeOK
<1>2. ASSUME NEW row, row.accessRef = connections[n].accessRef,
             row.refreshRef = connections[n].refreshRef, row.token = connections[n].token,
             connections' = [connections EXCEPT ![n] = row]
      PROVE  /\ SameRefs
             /\ connections'[n] = row /\ connections'[n].token = connections[n].token
             /\ \A m \in DOMAIN connections : m # n => connections'[m] = connections[m]
  <2>1. /\ DOMAIN connections' = DOMAIN connections /\ connections'[n] = row
        /\ \A m \in DOMAIN connections : m # n => connections'[m] = connections[m]
    BY <1>1, <1>2
  <2>2. QED
    BY <1>2, <2>1 DEF SameRefs, projectVars
<1>3. CASE accessExpires(n)
  <2> DEFINE row == [connections[n] EXCEPT !.fresh = FALSE]
  <2>1. row.accessRef = connections[n].accessRef /\ row.refreshRef = connections[n].refreshRef
        /\ row.token = connections[n].token /\ row.status = connections[n].status
    BY <1>1 DEF ConnectionRow
  <2>2. connections' = [connections EXCEPT ![n] = row]
        /\ UNCHANGED <<secrets, calls, waiting, vaultReady, minted, projects>>
    BY <1>3 DEF accessExpires, custodyVars, vaultVars, projectVars
  <2> HIDE DEF row
  <2>3. QED
    BY <1>2, <2>1, <2>2
<1>4. CASE revokeHostConnection(n) \/ revokeToken(n) \/ revocationCutShort(n)
  <2> DEFINE row == [connections[n] EXCEPT !.status = "revoked"]
  <2>1. row.accessRef = connections[n].accessRef /\ row.refreshRef = connections[n].refreshRef
        /\ row.token = connections[n].token /\ row.status = "revoked"
    BY <1>1 DEF ConnectionRow
  <2>2. /\ connections' = [connections EXCEPT ![n] = row] /\ connections[n].status = "active"
        /\ Turn /\ UNCHANGED <<minted, projects>>
    BY <1>4 DEF revokeHostConnection, revokeToken, revocationCutShort, markRevoked, ProcessRestarts,
                projectVars
  <2>3. /\ DOMAIN secrets' = DOMAIN secrets
        /\ \A r \in DOMAIN secrets :
             secrets'[r] = secrets[r]
               \/ (r \in SecretsOf(n) /\ secrets'[r] = [status |-> "revoked", token |-> Wiped])
        /\ \/ /\ UNCHANGED <<calls, waiting, vaultReady>>
              /\ \A r \in SecretsOf(n) :
                   r \in DOMAIN secrets => secrets'[r] = [status |-> "revoked", token |-> Wiped]
           \/ n \in Fragile /\ ProcessRestarts
    <3>1. CASE revokeHostConnection(n) \/ revokeToken(n)
      <4>1. revokeSecret(SecretsOf(n)) /\ UNCHANGED <<calls, waiting, vaultReady>>
        BY <3>1 DEF revokeHostConnection, revokeToken
      <4>2. QED
        BY <1>1, <4>1, SecretsRevoked
    <3>2. CASE revocationCutShort(n)
      <4>1. PICK done \in {{}, {connections[n].accessRef}} \ {SecretsOf(n)} : revokeSecret(done)
        BY <3>2 DEF revocationCutShort
      <4>2. done \subseteq SecretsOf(n)
        BY <1>1, <4>1 DEF SecretsOf, ConnectionRow, References, None
      <4>3. QED
        BY <1>1, <3>2, <4>1, <4>2, SecretsRevoked DEF revocationCutShort
    <3>3. QED
      BY <1>4, <3>1, <3>2
  <2> HIDE DEF row
  <2>4. QED
    BY <1>2, <2>1, <2>2, <2>3
<1>5. QED
  BY <1>3, <1>4

\* A row takes over what its call sealed.
LEMMA ConnectionInserted ==
  ASSUME TypesInv, NEW c \in Calls, insertConnection(c), UNCHANGED projectVars
  PROVE  /\ Resumes(c) /\ AwaitNetwork(c, Idle)
         /\ UNCHANGED <<vaultReady, secrets, minted, projects>>
         /\ MintsHost(calls[c]) /\ calls[c].step = "insert"
         /\ DOMAIN connections' = DOMAIN connections \cup {Len(connections) + 1}
         /\ Len(connections) + 1 \notin DOMAIN connections
         /\ \A n \in DOMAIN connections : connections'[n] = connections[n]
         /\ connections'[Len(connections) + 1].accessRef = calls[c].accessRef
         /\ connections'[Len(connections) + 1].refreshRef = calls[c].refreshRef
         /\ connections'[Len(connections) + 1].token = calls[c].token
         /\ connections'[Len(connections) + 1].status = "active"
<1> DEFINE row == [kind |-> IF calls[c].op = "mint" THEN "static" ELSE "oauth",
                   code |-> calls[c].code, status |-> "active", token |-> calls[c].token,
                   fresh |-> TRUE, accessRef |-> calls[c].accessRef,
                   refreshRef |-> calls[c].refreshRef]
<1>1. /\ Resumes(c) /\ AwaitNetwork(c, Idle)
      /\ UNCHANGED <<vaultReady, secrets, minted, projects>>
      /\ MintsHost(calls[c]) /\ calls[c].step = "insert"
      /\ connections' = Append(connections, row)
  BY DEF insertConnection, IsAt, EndCall, vaultVars, projectVars, MintsHost
<1>2. row.accessRef = calls[c].accessRef /\ row.refreshRef = calls[c].refreshRef
      /\ row.token = calls[c].token /\ row.status = "active"
  OBVIOUS
<1>3. connections \in Seq(ConnectionRow)
  BY DEF TypesInv, HostConnectionsTypeOK
<1> HIDE DEF row
<1>4. /\ DOMAIN connections' = DOMAIN connections \cup {Len(connections) + 1}
      /\ Len(connections) + 1 \notin DOMAIN connections
      /\ connections'[Len(connections) + 1] = row
      /\ \A n \in DOMAIN connections : connections'[n] = connections[n]
  BY <1>1, <1>3
<1>5. QED
  BY <1>1, <1>2, <1>4

LEMMA ProjectInserted ==
  ASSUME TypesInv, NEW c \in Calls, insertProject(c), UNCHANGED hostVars
  PROVE  /\ Resumes(c)
         /\ UNCHANGED <<vaultReady, secrets, minted, connections>>
         /\ calls[c].op = "register" /\ calls[c].step = "insert"
         /\ \/ UNCHANGED projects /\ AwaitNetwork(c, Idle)
            \/ /\ Await(c, RunConformance(Len(projects) + 1))
               /\ DOMAIN projects' = DOMAIN projects \cup {Len(projects) + 1}
               /\ Len(projects) + 1 \notin DOMAIN projects
               /\ \A p \in DOMAIN projects : projects'[p] = projects[p]
               /\ projects'[Len(projects) + 1].ref = calls[c].ref
               /\ projects'[Len(projects) + 1].token = calls[c].token
<1> DEFINE row == [domain |-> calls[c].domain, token |-> calls[c].token, ref |-> calls[c].ref,
                   healthy |-> FALSE]
<1>1. /\ Resumes(c)
      /\ UNCHANGED <<vaultReady, secrets, minted, connections>>
      /\ calls[c].op = "register" /\ calls[c].step = "insert"
      /\ \/ UNCHANGED projects /\ AwaitNetwork(c, Idle)
         \/ Await(c, RunConformance(Len(projects) + 1)) /\ projects' = Append(projects, row)
  BY DEF insertProject, Serving, EndCall, vaultVars, hostVars
<1>2. row.ref = calls[c].ref /\ row.token = calls[c].token
  OBVIOUS
<1>3. projects \in Seq(ProjectRow)
  BY DEF TypesInv, ConnectedProjectsTypeOK
<1> HIDE DEF row
<1>4. projects' = Append(projects, row) =>
        /\ DOMAIN projects' = DOMAIN projects \cup {Len(projects) + 1}
        /\ Len(projects) + 1 \notin DOMAIN projects
        /\ projects'[Len(projects) + 1] = row
        /\ \A p \in DOMAIN projects : projects'[p] = projects[p]
  BY <1>3
<1>5. QED
  BY <1>1, <1>2, <1>4

\* A run reads the answers of its domain: health apart, nothing changes.
LEMMA ProjectRead ==
  ASSUME TypesInv, NEW c \in Calls, readChecks(c), UNCHANGED hostVars
  PROVE  /\ SameRefs
         /\ UNCHANGED <<vaultReady, secrets, minted, waiting, connections>>
         /\ \A p \in DOMAIN projects : projects'[p].token = projects[p].token
         /\ calls[c].op = "conformance" /\ calls[c].step = "check"
         /\ calls'[c].op \in {"idle", "conformance"}
         /\ \A d \in Calls : d # c => calls'[d] = calls[d]
<1>1. /\ calls[c].op = "conformance" /\ calls[c].step = "check"
      /\ calls[c].project \in DOMAIN projects
      /\ UNCHANGED <<keyed, vaultReady, secrets, minted, waiting, domainVars>>
      /\ \A d \in Calls : d # c => calls'[d] = calls[d]
  BY ChecksRead
<1>2. projects \in Seq(ProjectRow)
  BY DEF TypesInv, ConnectedProjectsTypeOK
<1>3. ASSUME calls' = [calls EXCEPT ![c] = Idle], NEW passed \in BOOLEAN,
             projects' = [projects EXCEPT ![calls[c].project].healthy = passed]
      PROVE  /\ DOMAIN projects' = DOMAIN projects
             /\ \A p \in DOMAIN projects :
                  projects'[p].ref = projects[p].ref /\ projects'[p].token = projects[p].token
             /\ calls'[c].op = "idle"
  <2> DEFINE p == calls[c].project
             row == [projects[p] EXCEPT !.healthy = passed]
  <2>1. projects[p] \in ProjectRow
    BY <1>1, <1>2
  <2>2. row.ref = projects[p].ref /\ row.token = projects[p].token
        /\ projects' = [projects EXCEPT ![p] = row]
    BY <1>3, <2>1 DEF ProjectRow
  <2>3. calls'[c] = Idle
    BY <1>3, CallReplaced
  <2> HIDE DEF p, row
  <2>4. QED
    BY <1>2, <2>2, <2>3 DEF Idle
<1>4. ASSUME UNCHANGED projects, NEW passed \in BOOLEAN,
             calls' = [calls EXCEPT ![c].todo = Tail(@), ![c].passed = passed]
      PROVE  calls'[c].op = "conformance"
  <2> DEFINE call == [calls[c] EXCEPT !.todo = Tail(@), !.passed = passed]
  <2>1. calls[c] \in [op : {"conformance"}, step : {"check"}, project : Nat, token : Tokens,
                      todo : Seq(SUBSET Suite) \ {<<>>}, passed : BOOLEAN]
    BY <1>1, ProjectCalls
  <2>2. call.op = "conformance" /\ calls' = [calls EXCEPT ![c] = call]
    BY <1>4, <2>1
  <2> HIDE DEF call
  <2>3. QED
    BY <2>2, CallReplaced
<1>5. /\ DOMAIN projects' = DOMAIN projects
      /\ \A p \in DOMAIN projects :
           projects'[p].ref = projects[p].ref /\ projects'[p].token = projects[p].token
      /\ calls'[c].op \in {"idle", "conformance"}
  BY <1>3, <1>4, ChecksRead
<1>6. QED
  BY <1>1, <1>5 DEF SameRefs, hostVars

-----------------------------------------------------------------------------
(* The steps, by what they do to the vault and the two tables *)

Quiet ==
  /\ UNCHANGED <<secrets, minted, calls, waiting, connections, projects>>
  /\ vaultReady => vaultReady'

Seals(c) ==
  /\ storeAccess(c) \/ storeRefresh(c) \/ storeProjectToken(c)
  /\ UNCHANGED <<hostVars, projectVars>>

Reseals(c) ==
  /\ rotateAccess(c) \/ rotateSealed(c)
  /\ UNCHANGED <<hostVars, projectVars>>

Rewritten(c) ==
  \/ updateGrant(c) /\ UNCHANGED projectVars
  \/ updateProject(c) /\ UNCHANGED hostVars

Marks(n) ==
  /\ accessExpires(n) \/ revokeHostConnection(n) \/ revokeToken(n) \/ revocationCutShort(n)
  /\ UNCHANGED projectVars

LEMMA StepCases ==
  ASSUME [AccessNext]_accessVars
  PROVE  \/ Quiet
         \/ \E c \in Calls : \/ Requests(c)
                             \/ Seals(c)
                             \/ Reseals(c)
                             \/ resolveToken(c) /\ UNCHANGED hostVars
                             \/ insertConnection(c) /\ UNCHANGED projectVars
                             \/ insertProject(c) /\ UNCHANGED hostVars
                             \/ Rewritten(c)
                             \/ readChecks(c) /\ UNCHANGED hostVars
         \/ \E n \in DOMAIN connections : Marks(n)
         \/ restart
<1>1. CASE UNCHANGED accessVars \/ (OperatorAuthNext /\ UNCHANGED <<custodyVars, hostVars, projectVars>>)
  BY <1>1 DEF accessVars, custodyVars, vaultVars, hostVars, projectVars, Quiet
<1>2. CASE libsodiumLoads /\ UNCHANGED <<authVars, hostVars, projectVars>>
  BY <1>2 DEF libsodiumLoads, hostVars, projectVars, Quiet
<1>3. CASE OperatorRequests
  <2>1. ASSUME NEW client \in Clients, authorize(client), UNCHANGED projectVars PROVE Quiet
    BY <2>1 DEF authorize, custodyVars, vaultVars, projectVars, Quiet
  <2>2. QED
    BY <1>3, <2>1 DEF OperatorRequests, Requests, Marks
<1>4. CASE HostRequests
  BY <1>4 DEF HostRequests, Requests, Marks
<1>5. CASE Elapses
  <2>1. ASSUME NEW m \in DOMAIN codes, codeExpires(m), UNCHANGED projectVars PROVE Quiet
    BY <2>1 DEF codeExpires, custodyVars, vaultVars, projectVars, Quiet
  <2>2. QED
    BY <1>5, <2>1 DEF Elapses, Marks
<1>6. ASSUME NEW c \in Calls, Steps(c)
      PROVE  \/ Seals(c)
             \/ Reseals(c)
             \/ resolveToken(c) /\ UNCHANGED hostVars
             \/ insertConnection(c) /\ UNCHANGED projectVars
             \/ insertProject(c) /\ UNCHANGED hostVars
             \/ Rewritten(c)
             \/ readChecks(c) /\ UNCHANGED hostVars
  <2>1. CASE storeAccess(c) /\ UNCHANGED projectVars
    BY <2>1 DEF storeAccess, Seals
  <2>2. CASE storeRefresh(c) /\ UNCHANGED projectVars
    BY <2>2 DEF storeRefresh, Seals
  <2>3. CASE rotateAccess(c) /\ UNCHANGED projectVars
    BY <2>3 DEF rotateAccess, Reseals
  <2>4. CASE storeProjectToken(c) /\ UNCHANGED hostVars
    BY <2>4 DEF storeProjectToken, Seals
  <2>5. CASE rotateSealed(c) /\ UNCHANGED hostVars
    BY <2>5 DEF rotateSealed, Reseals
  <2>6. QED
    BY <1>6, <2>1, <2>2, <2>3, <2>4, <2>5 DEF Steps, HostSteps, ProjectSteps, Rewritten
<1>7. CASE DomainSteps
  BY <1>7 DEF DomainSteps, domainChanges, installToken, custodyVars, vaultVars, hostVars, Quiet
<1>8. CASE diesInRevocation
  BY <1>8 DEF diesInRevocation, Marks
<1>9. QED
  BY <1>1, <1>2, <1>3, <1>4, <1>5, <1>6, <1>7, <1>8 DEF AccessNext

-----------------------------------------------------------------------------
(* A secret has one owner *)

\* The references of what a call has sealed.
Held(call) ==
  IF MintsHost(call) THEN {call.accessRef, call.refreshRef} \ {None}
    ELSE IF call.op = "register" THEN {call.ref} \ {None} ELSE {}

\* A call has no reference of what it has yet to seal.
Blank(call) ==
  /\ MintsHost(call) /\ call.step = "access" => call.accessRef = None
  /\ MintsHost(call) /\ call.step # "insert" => call.refreshRef = None
  /\ call.op = "register" /\ call.step = "store" => call.ref = None

OwnersInv ==
  /\ \A c \in Calls : Blank(calls[c]) /\ Held(calls[c]) \subseteq DOMAIN secrets
  /\ \A c, d \in Calls : c # d => Held(calls[c]) \cap Held(calls[d]) = {}
  /\ \A c \in Calls :
       /\ \A n \in DOMAIN connections : Held(calls[c]) \cap SecretsOf(n) = {}
       /\ \A p \in DOMAIN projects : projects[p].ref \notin Held(calls[c])
  /\ \A m, n \in DOMAIN connections : m # n => SecretsOf(m) \cap SecretsOf(n) = {}
  /\ \A n \in DOMAIN connections, p \in DOMAIN projects : projects[p].ref \notin SecretsOf(n)
  /\ \A p, q \in DOMAIN projects : projects[p].ref = projects[q].ref => p = q

\* Calls that own less, or a secret sealed in this step.
LEMMA OwnersFrame ==
  ASSUME OwnersInv, TypesInv, SameRefs, NEW new, new \notin DOMAIN secrets,
         DOMAIN secrets \subseteq DOMAIN secrets',
         NEW c \in Calls, Blank(calls'[c]),
         Held(calls'[c]) \subseteq Held(calls[c]) \cup {new},
         Held(calls'[c]) \subseteq DOMAIN secrets',
         \A d \in Calls : d # c => calls'[d] = calls[d]
  PROVE  OwnersInv'
<1>1. \A n \in DOMAIN connections' : n \in DOMAIN connections /\ (SecretsOf(n))' = SecretsOf(n)
  BY DEF SameRefs, SecretsOf
<1>2. \A n \in DOMAIN connections : new \notin SecretsOf(n)
  BY DEF TypesInv, SecretsOf
<1>3. \A p \in DOMAIN projects : projects[p].ref # new
  BY DEF TypesInv
<1>4. \A d \in Calls : new \notin Held(calls[d])
  BY DEF OwnersInv
<1>5. \A d \in Calls : Blank(calls'[d]) /\ Held(calls'[d]) \subseteq DOMAIN secrets'
  BY DEF OwnersInv
<1>6. \A d, e \in Calls : d # e => Held(calls'[d]) \cap Held(calls'[e]) = {}
  BY <1>4 DEF OwnersInv
<1>7. \A d \in Calls :
        /\ \A n \in DOMAIN connections' : Held(calls'[d]) \cap (SecretsOf(n))' = {}
        /\ \A p \in DOMAIN projects' : projects'[p].ref \notin Held(calls'[d])
  <2>1. TAKE d \in Calls
  <2>2. Held(calls'[d]) \subseteq Held(calls[d]) \cup {new}
    OBVIOUS
  <2>3. \A n \in DOMAIN connections' : Held(calls'[d]) \cap (SecretsOf(n))' = {}
    BY <1>1, <1>2, <2>2 DEF OwnersInv
  <2>4. \A p \in DOMAIN projects' : projects'[p].ref \notin Held(calls'[d])
    BY <1>3, <2>2 DEF OwnersInv, SameRefs
  <2>5. QED
    BY <2>3, <2>4
<1>8. /\ \A m, n \in DOMAIN connections' : m # n => (SecretsOf(m))' \cap (SecretsOf(n))' = {}
      /\ \A n \in DOMAIN connections', p \in DOMAIN projects' : projects'[p].ref \notin (SecretsOf(n))'
      /\ \A p, q \in DOMAIN projects' : projects'[p].ref = projects'[q].ref => p = q
  BY <1>1 DEF OwnersInv, SameRefs
<1>9. QED
  BY <1>5, <1>6, <1>7, <1>8 DEF OwnersInv

LEMMA Ended ==
  /\ Held(Idle) = {} /\ Blank(Idle) /\ ~MintsHost(Idle) /\ Idle.op = "idle"
  /\ \A op, row : op # "idle" => ~Updating(Idle, op, row)
BY DEF Held, Blank, Idle, MintsHost, Updating

\* The calls all end, or stay as they are.
LEMMA OwnersEnd ==
  ASSUME OwnersInv, SameRefs, DOMAIN secrets' = DOMAIN secrets,
         UNCHANGED calls \/ calls' = [c \in Calls |-> Idle]
  PROVE  OwnersInv'
<1>1. \A n \in DOMAIN connections' : n \in DOMAIN connections /\ (SecretsOf(n))' = SecretsOf(n)
  BY DEF SameRefs, SecretsOf
<1>2. \A c \in Calls : Blank(calls'[c]) /\ Held(calls'[c]) \subseteq Held(calls[c])
  BY Ended DEF OwnersInv
<1>3. \A c \in Calls : Held(calls'[c]) \subseteq DOMAIN secrets'
  BY <1>2 DEF OwnersInv
<1>4. \A d, e \in Calls : d # e => Held(calls'[d]) \cap Held(calls'[e]) = {}
  BY <1>2 DEF OwnersInv
<1>5. \A d \in Calls :
        /\ \A n \in DOMAIN connections' : Held(calls'[d]) \cap (SecretsOf(n))' = {}
        /\ \A p \in DOMAIN projects' : projects'[p].ref \notin Held(calls'[d])
  <2>1. TAKE d \in Calls
  <2>2. Held(calls'[d]) \subseteq Held(calls[d])
    BY <1>2
  <2>3. \A n \in DOMAIN connections' : Held(calls'[d]) \cap (SecretsOf(n))' = {}
    BY <1>1, <2>2 DEF OwnersInv
  <2>4. \A p \in DOMAIN projects' : projects'[p].ref \notin Held(calls'[d])
    BY <2>2 DEF OwnersInv, SameRefs
  <2>5. QED
    BY <2>3, <2>4
<1>6. /\ \A m, n \in DOMAIN connections' : m # n => (SecretsOf(m))' \cap (SecretsOf(n))' = {}
      /\ \A n \in DOMAIN connections', p \in DOMAIN projects' : projects'[p].ref \notin (SecretsOf(n))'
      /\ \A p, q \in DOMAIN projects' : projects'[p].ref = projects'[q].ref => p = q
  BY <1>1 DEF OwnersInv, SameRefs
<1>7. QED
  BY <1>2, <1>3, <1>4, <1>5, <1>6 DEF OwnersInv

LEMMA OwnersGrant ==
  ASSUME OwnersInv, TypesInv, NEW c \in Calls, insertConnection(c), UNCHANGED projectVars
  PROVE  OwnersInv'
<1>0. PICK new : new = Len(connections) + 1
  OBVIOUS
<1>1. /\ DOMAIN connections' = DOMAIN connections \cup {new} /\ new \notin DOMAIN connections
      /\ UNCHANGED <<secrets, projects>> /\ MintsHost(calls[c])
      /\ \A n \in DOMAIN connections : connections'[n] = connections[n]
      /\ connections'[new].accessRef = calls[c].accessRef
      /\ connections'[new].refreshRef = calls[c].refreshRef
      /\ calls'[c] = Idle /\ \A d \in Calls : d # c => calls'[d] = calls[d]
  <2>1. AwaitNetwork(c, Idle)
    BY ConnectionInserted
  <2>2. calls'[c] = Idle /\ \A d \in Calls : d # c => calls'[d] = calls[d]
    BY <2>1, CallReplaced DEF AwaitNetwork
  <2>3. QED
    BY <1>0, <2>2, ConnectionInserted
<1>2. (SecretsOf(new))' = Held(calls[c])
  BY <1>1 DEF SecretsOf, Held
<1>3. \A n \in DOMAIN connections : (SecretsOf(n))' = SecretsOf(n)
  BY <1>1 DEF SecretsOf
<1>4. \A d \in Calls : /\ Blank(calls'[d]) /\ Held(calls'[d]) \subseteq DOMAIN secrets'
                       /\ d = c => Held(calls'[d]) = {}
                       /\ d # c => Held(calls'[d]) = Held(calls[d])
  BY <1>1, Ended DEF OwnersInv
<1>5. \A d, e \in Calls : d # e => Held(calls'[d]) \cap Held(calls'[e]) = {}
  BY <1>4 DEF OwnersInv
<1>6. \A d \in Calls :
        /\ \A n \in DOMAIN connections' : Held(calls'[d]) \cap (SecretsOf(n))' = {}
        /\ \A p \in DOMAIN projects' : projects'[p].ref \notin Held(calls'[d])
  BY <1>1, <1>2, <1>3, <1>4 DEF OwnersInv
<1>7. \A m, n \in DOMAIN connections' : m # n => (SecretsOf(m))' \cap (SecretsOf(n))' = {}
  BY <1>1, <1>2, <1>3 DEF OwnersInv
<1>8. \A n \in DOMAIN connections', p \in DOMAIN projects' : projects'[p].ref \notin (SecretsOf(n))'
  BY <1>1, <1>2, <1>3 DEF OwnersInv
<1>9. \A p, q \in DOMAIN projects' : projects'[p].ref = projects'[q].ref => p = q
  BY <1>1 DEF OwnersInv
<1>10. QED
  BY <1>4, <1>5, <1>6, <1>7, <1>8, <1>9 DEF OwnersInv

LEMMA OwnersRegister ==
  ASSUME OwnersInv, TypesInv, NEW c \in Calls, insertProject(c), UNCHANGED hostVars
  PROVE  OwnersInv'
<1>1. ASSUME UNCHANGED projects, AwaitNetwork(c, Idle)
      PROVE  OwnersInv'
  <2>1. SameRefs /\ UNCHANGED secrets /\ calls'[c] = Idle
        /\ \A d \in Calls : d # c => calls'[d] = calls[d]
    BY <1>1, ProjectInserted, CallReplaced DEF SameRefs, AwaitNetwork
  <2>2. Len(secrets) + 1 \notin DOMAIN secrets
    BY DEF TypesInv, CustodyTypeOK
  <2>3. QED
    BY <2>1, <2>2, Ended, OwnersFrame
<1> DEFINE new == Len(projects) + 1
<1>2. ASSUME Await(c, RunConformance(new)),
             DOMAIN projects' = DOMAIN projects \cup {new}, new \notin DOMAIN projects,
             \A p \in DOMAIN projects : projects'[p] = projects[p],
             projects'[new].ref = calls[c].ref
      PROVE  OwnersInv'
  <2>1. calls[c].op = "register" /\ calls[c].step = "insert" /\ UNCHANGED <<secrets, connections>>
    BY ProjectInserted
  <2>2. calls'[c] = RunConformance(new) /\ \A d \in Calls : d # c => calls'[d] = calls[d]
    BY <1>2, CallReplaced DEF Await
  <2> HIDE DEF new
  <2>3. Held(calls'[c]) = {} /\ Blank(calls'[c])
    BY <2>2 DEF RunConformance, Held, Blank, MintsHost
  <2>4. projects'[new].ref \in Held(calls[c])
    <3>1. calls[c].ref \in DOMAIN secrets /\ secrets \in Seq(SecretRow)
      BY <2>1 DEF TypesInv, Fits, CustodyTypeOK
    <3>2. calls[c].ref # None
      BY <3>1 DEF None
    <3>3. QED
      BY <1>2, <2>1, <3>2 DEF Held, MintsHost
  <2>5. \A n \in DOMAIN connections : (SecretsOf(n))' = SecretsOf(n)
    BY <2>1 DEF SecretsOf
  <2>6. \A d \in Calls : /\ Blank(calls'[d]) /\ Held(calls'[d]) \subseteq DOMAIN secrets'
                         /\ d = c => Held(calls'[d]) = {}
                         /\ d # c => Held(calls'[d]) = Held(calls[d])
    BY <2>1, <2>2, <2>3 DEF OwnersInv
  <2>7. \A d, e \in Calls : d # e => Held(calls'[d]) \cap Held(calls'[e]) = {}
    BY <2>6 DEF OwnersInv
  <2>8. \A d \in Calls :
          /\ \A n \in DOMAIN connections' : Held(calls'[d]) \cap (SecretsOf(n))' = {}
          /\ \A p \in DOMAIN projects' : projects'[p].ref \notin Held(calls'[d])
    BY <1>2, <2>1, <2>4, <2>5, <2>6 DEF OwnersInv
  <2>9. \A m, n \in DOMAIN connections' : m # n => (SecretsOf(m))' \cap (SecretsOf(n))' = {}
    BY <2>1, <2>5 DEF OwnersInv
  <2>10. \A n \in DOMAIN connections', p \in DOMAIN projects' : projects'[p].ref \notin (SecretsOf(n))'
    BY <1>2, <2>1, <2>4, <2>5 DEF OwnersInv
  <2>11. \A p, q \in DOMAIN projects' : projects'[p].ref = projects'[q].ref => p = q
    BY <1>2, <2>4 DEF OwnersInv
  <2>12. QED
    BY <2>6, <2>7, <2>8, <2>9, <2>10, <2>11 DEF OwnersInv
<1>3. QED
  BY <1>1, <1>2, ProjectInserted

LEMMA OwnersInvariance == AccessSpec => []OwnersInv
<1>1. AccessInit => OwnersInv
  <2> SUFFICES ASSUME AccessInit PROVE OwnersInv
    OBVIOUS
  <2>1. calls = [c \in Calls |-> Idle] /\ DOMAIN connections = {} /\ DOMAIN projects = {}
    BY DEF AccessInit, CustodyInit, HostConnectionsInit, ConnectedProjectsInit
  <2>2. QED
    BY <2>1, Ended DEF OwnersInv
<1>2. TypesInv /\ OwnersInv /\ [AccessNext]_accessVars => OwnersInv'
  <2> SUFFICES ASSUME TypesInv, OwnersInv, [AccessNext]_accessVars PROVE OwnersInv'
    OBVIOUS
  <2> DEFINE new == Len(secrets) + 1
  <2>1. new \notin DOMAIN secrets /\ secrets \in Seq(SecretRow)
    BY DEF TypesInv, CustodyTypeOK
  <2>2. UNCHANGED <<connections, projects>> => SameRefs
    BY DEF SameRefs
  <2>3. CASE Quiet
    BY <2>2, <2>3, OwnersEnd DEF Quiet
  <2>4. ASSUME NEW c \in Calls, Requests(c) PROVE OwnersInv'
    <3>1. PICK call, k : Begin(c, call, k) /\ Opening(call) /\ UNCHANGED <<secrets, connections, projects>>
      BY <2>4, Begins
    <3>2. Held(call) = {} /\ Blank(call)
      BY <3>1 DEF Opening, Held, Blank, MintsHost
    <3>3. calls'[c] = call /\ \A d \in Calls : d # c => calls'[d] = calls[d]
      BY <3>1, CallReplaced DEF Begin
    <3>4. QED
      BY <2>1, <2>2, <3>1, <3>2, <3>3, OwnersFrame
  <2>5. ASSUME NEW c \in Calls, Seals(c) PROVE OwnersInv'
    <3>1. UNCHANGED <<connections, projects>>
      BY <2>5 DEF Seals, hostVars, projectVars
    <3>2. CASE UNCHANGED secrets /\ AwaitNetwork(c, Idle)
      <4>1. calls'[c] = Idle /\ \A d \in Calls : d # c => calls'[d] = calls[d]
        BY <3>2, CallReplaced DEF AwaitNetwork
      <4>2. QED
        BY <2>1, <2>2, <3>1, <3>2, <4>1, Ended, OwnersFrame
    <3>3. ASSUME NEW stored, NEW token \in Tokens, Await(c, stored),
                 Stored(calls[c], stored, token, new),
                 secrets' = Append(secrets, [status |-> "active", token |-> token])
          PROVE  OwnersInv'
      <4>1. DOMAIN secrets' = DOMAIN secrets \cup {new}
        BY <2>1, <3>3, SecretsAppended
      <4>2. calls'[c] = stored /\ \A d \in Calls : d # c => calls'[d] = calls[d]
        BY <3>3, CallReplaced DEF Await
      <4>3. Blank(calls[c]) /\ Held(calls[c]) \subseteq DOMAIN secrets
        BY DEF OwnersInv
      <4> HIDE DEF new
      <4>4. Blank(stored) /\ Held(stored) \subseteq Held(calls[c]) \cup {new}
        BY <3>3, <4>3 DEF Stored, Blank, Held, MintsHost
      <4>5. QED
        BY <2>1, <2>2, <3>1, <4>1, <4>2, <4>3, <4>4, OwnersFrame
    <3>4. QED
      BY <2>5, <3>2, <3>3, Stores DEF Seals
  <2>6. ASSUME NEW c \in Calls, Reseals(c) PROVE OwnersInv'
    <3>1. UNCHANGED <<connections, projects>>
      BY <2>6 DEF Reseals, hostVars, projectVars
    <3>2. DOMAIN secrets' = DOMAIN secrets
      BY <2>1, <2>6, Rotates, SecretsRotated DEF Reseals
    <3>3. Held(calls'[c]) = {} /\ Blank(calls'[c]) /\ \A d \in Calls : d # c => calls'[d] = calls[d]
      <4>1. CASE AwaitNetwork(c, Idle)
        BY <4>1, CallReplaced, Ended DEF AwaitNetwork
      <4>2. ASSUME NEW rotated, Await(c, rotated), Updating(rotated, calls[c].op, RowOf(calls[c])),
                   calls[c].op \in {"refresh", "rotate"}
            PROVE  Held(calls'[c]) = {} /\ Blank(calls'[c]) /\ \A d \in Calls : d # c => calls'[d] = calls[d]
        <5>1. calls'[c] = rotated /\ \A d \in Calls : d # c => calls'[d] = calls[d]
          BY <4>2, CallReplaced DEF Await
        <5>2. QED
          BY <4>2, <5>1 DEF Updating, Held, Blank, MintsHost
      <4>3. QED
        BY <2>6, <4>1, <4>2, Rotates DEF Reseals
    <3>4. QED
      BY <2>1, <2>2, <3>1, <3>2, <3>3, OwnersFrame
  <2>7. ASSUME NEW c \in Calls, resolveToken(c), UNCHANGED hostVars PROVE OwnersInv'
    <3>1. PICK call : AwaitNetwork(c, call) /\ (call = Idle \/ call.op = "conformance")
      BY <2>7, Resolves
    <3>2. calls'[c] = call /\ \A d \in Calls : d # c => calls'[d] = calls[d]
      BY <3>1, CallReplaced DEF AwaitNetwork
    <3>3. Held(call) = {} /\ Blank(call)
      BY <3>1, Ended DEF Held, Blank, MintsHost
    <3>4. UNCHANGED <<secrets, connections, projects>>
      BY <2>7, Resolves DEF hostVars
    <3>5. QED
      BY <2>1, <2>2, <3>2, <3>3, <3>4, OwnersFrame
  <2>8. ASSUME NEW c \in Calls, Rewritten(c) PROVE OwnersInv'
    <3>1. SameRefs /\ AwaitNetwork(c, Idle) /\ UNCHANGED secrets
      BY <2>8, RowsWritten DEF Rewritten
    <3>2. calls'[c] = Idle /\ \A d \in Calls : d # c => calls'[d] = calls[d]
      BY <3>1, CallReplaced DEF AwaitNetwork
    <3>3. QED
      BY <2>1, <3>1, <3>2, Ended, OwnersFrame
  <2>9. ASSUME NEW c \in Calls, readChecks(c), UNCHANGED hostVars PROVE OwnersInv'
    <3>1. SameRefs /\ UNCHANGED secrets /\ calls'[c].op \in {"idle", "conformance"}
          /\ \A d \in Calls : d # c => calls'[d] = calls[d]
      BY <2>9, ProjectRead
    <3>2. Held(calls'[c]) = {} /\ Blank(calls'[c])
      BY <3>1 DEF Held, Blank, MintsHost
    <3>3. QED
      BY <2>1, <3>1, <3>2, OwnersFrame
  <2>10. ASSUME NEW n \in DOMAIN connections, Marks(n) PROVE OwnersInv'
    <3>1. SameRefs /\ DOMAIN secrets' = DOMAIN secrets
          /\ (UNCHANGED calls \/ ProcessRestarts)
      BY <2>10, RowsMarked DEF Marks
    <3>2. QED
      BY <3>1, OwnersEnd DEF ProcessRestarts
  <2>11. CASE restart
    BY <2>2, <2>11, OwnersEnd DEF restart, ProcessRestarts, hostVars, projectVars
  <2>12. QED
    BY <2>3, <2>4, <2>5, <2>6, <2>7, <2>8, <2>9, <2>10, <2>11, StepCases, OwnersGrant, OwnersRegister
<1>3. QED
  BY <1>1, <1>2, TypesInvariance, PTL DEF AccessSpec

-----------------------------------------------------------------------------
(* The queue keeps the order of the vault *)

\* A call that has written the vault is queued to write its row.
QueuedInv ==
  \A c \in Calls : Updates(calls[c]) => vaultReady /\ \E k \in DOMAIN waiting : waiting[k] = c

\* No request is served in between.
LEMMA NoTurnBetween ==
  ASSUME QueuedInv, TypesInv, Turn, NEW c \in Calls
  PROVE  ~Updates(calls[c])
<1>1. waiting = <<>> => DOMAIN waiting = {}
  OBVIOUS
<1>2. QED
  BY <1>1 DEF QueuedInv, Turn

LEMMA Shifted ==
  ASSUME QueueInv, NEW c \in Calls, Resumes(c)
  PROVE  /\ Tail(waiting) \in Seq(Calls)
         /\ \A n \in DOMAIN Tail(waiting) :
              n \in Nat /\ n + 1 \in DOMAIN waiting /\ Tail(waiting)[n] = waiting[n + 1] /\ waiting[n + 1] # c
         /\ \A k \in DOMAIN waiting :
              k \in Nat /\ (k # 1 => k - 1 \in DOMAIN Tail(waiting) /\ Tail(waiting)[k - 1] = waiting[k])
         /\ \A k \in DOMAIN waiting : waiting[k] # c => k # 1
<1>1. waiting \in Seq(Calls) /\ waiting # <<>> /\ Head(waiting) = c
  BY DEF QueueInv, Resumes
<1>2. /\ Tail(waiting) \in Seq(Calls)
      /\ \A n \in DOMAIN Tail(waiting) :
           n \in Nat /\ n # 0 /\ n + 1 \in DOMAIN waiting /\ Tail(waiting)[n] = waiting[n + 1]
      /\ \A k \in DOMAIN waiting :
           k \in Nat /\ (k # 1 => k - 1 \in DOMAIN Tail(waiting) /\ Tail(waiting)[k - 1] = waiting[k])
      /\ 1 \in DOMAIN waiting /\ waiting[1] = c
  BY <1>1
<1>3. \A n \in DOMAIN Tail(waiting) : waiting[n + 1] # c
  BY <1>2 DEF QueueInv
<1>4. QED
  BY <1>2, <1>3

\* d is to write the row, and no call behind it in the queue is.
Latest(w, cs, d, op, row) ==
  \E k \in DOMAIN w :
    /\ w[k] = d
    /\ Updating(cs[d], op, row)
    /\ \A j \in DOMAIN w : j > k => ~Updating(cs[w[j]], op, row)

LEMMA LatestMoves ==
  ASSUME TypesInv, NEW c \in Calls, Resumes(c), NEW call,
         Await(c, call) \/ AwaitNetwork(c, call),
         NEW d \in Calls, NEW op, NEW row, Latest(waiting', calls', d, op, row)
  PROVE  \/ d = c /\ Updating(call, op, row)
         \/ /\ d # c /\ Latest(waiting, calls, d, op, row)
            /\ Await(c, call) => ~Updating(call, op, row)
<1> DEFINE q == Tail(waiting)
<1>1. /\ q \in Seq(Calls)
      /\ \A n \in DOMAIN q : n \in Nat /\ n + 1 \in DOMAIN waiting /\ q[n] = waiting[n + 1] /\ q[n] # c
      /\ \A k \in DOMAIN waiting : k \in Nat /\ (k # 1 => k - 1 \in DOMAIN q /\ q[k - 1] = waiting[k])
  BY Shifted DEF TypesInv
<1>2. calls'[c] = call /\ \A e \in Calls : e # c => calls'[e] = calls[e]
  BY CallReplaced DEF Await, AwaitNetwork
<1>3. waiting' = q \/ (Await(c, call) /\ waiting' = Append(q, c))
  BY DEF Await, AwaitNetwork
<1> HIDE DEF q
<1>4. /\ DOMAIN q \subseteq DOMAIN waiting' /\ \A n \in DOMAIN q : waiting'[n] = q[n]
      /\ \A n \in DOMAIN waiting' : n \in DOMAIN q \/ waiting'[n] = c
      /\ Await(c, call) => Len(q) + 1 \in DOMAIN waiting' /\ waiting'[Len(q) + 1] = c
                          /\ \A n \in DOMAIN q : Len(q) + 1 > n
  <2>1. CASE Await(c, call)
    <3>1. waiting' = Append(q, c)
      BY <2>1 DEF Await, q
    <3>2. QED
      BY <1>1, <2>1, <3>1
  <2>2. CASE ~Await(c, call)
    BY <1>3, <2>2
  <2>3. QED
    BY <2>1, <2>2
<1>5. PICK k \in DOMAIN waiting' :
        /\ waiting'[k] = d
        /\ Updating(calls'[d], op, row)
        /\ \A j \in DOMAIN waiting' : j > k => ~Updating(calls'[waiting'[j]], op, row)
  BY DEF Latest
<1>6. CASE d = c
  BY <1>2, <1>5, <1>6
<1>7. CASE d # c
  <2>1. k \in DOMAIN q /\ q[k] = d /\ k \in Nat /\ k + 1 \in DOMAIN waiting /\ waiting[k + 1] = d
    BY <1>1, <1>4, <1>5, <1>7
  <2>2. Updating(calls[d], op, row)
    BY <1>2, <1>5, <1>7
  <2>3. ASSUME NEW j \in DOMAIN waiting, j > k + 1
        PROVE  ~Updating(calls[waiting[j]], op, row)
    <3>1. j - 1 \in DOMAIN q /\ q[j - 1] = waiting[j] /\ j - 1 > k /\ q[j - 1] # c
      BY <1>1, <2>1, <2>3
    <3>2. waiting[j] \in Calls
      BY DEF TypesInv, QueueInv
    <3>3. ~Updating(calls'[waiting'[j - 1]], op, row)
      BY <1>4, <1>5, <3>1
    <3>4. waiting'[j - 1] = waiting[j] /\ calls'[waiting[j]] = calls[waiting[j]]
      BY <1>2, <1>4, <3>1, <3>2
    <3>5. QED
      BY <3>3, <3>4
  <2>4. Latest(waiting, calls, d, op, row)
    BY <2>1, <2>2, <2>3 DEF Latest
  <2>5. ASSUME Await(c, call) PROVE ~Updating(call, op, row)
    BY <1>2, <1>4, <1>5, <2>1, <2>5
  <2>6. QED
    BY <1>7, <2>4, <2>5
<1>8. QED
  BY <1>6, <1>7

LEMMA LatestBegins ==
  ASSUME TypesInv, NEW c \in Calls, NEW call, NEW k, Begin(c, call, k), ~Updates(call),
         NEW d \in Calls, NEW op \in {"refresh", "rotate"}, NEW row,
         Latest(waiting', calls', d, op, row)
  PROVE  d # c /\ Latest(waiting, calls, d, op, row)
<1>1. calls'[c] = call /\ \A e \in Calls : e # c => calls'[e] = calls[e]
  BY CallReplaced DEF Begin
<1>2. waiting' = Append(waiting, c) /\ waiting \in Seq(Calls) /\ calls[c].op = "idle"
  BY DEF Begin, TypesInv, QueueInv, Idle
<1>3. /\ DOMAIN waiting \subseteq DOMAIN waiting' /\ \A n \in DOMAIN waiting : waiting'[n] = waiting[n]
      /\ \A n \in DOMAIN waiting' : n \in DOMAIN waiting \/ waiting'[n] = c
  BY <1>2
<1>4. \A n \in DOMAIN waiting : waiting[n] # c /\ waiting[n] \in Calls
  <2>1. QueueInv
    BY DEF TypesInv
  <2>2. \A n \in DOMAIN waiting : waiting[n] \in Calls
    BY <1>2
  <2>3. \A n \in DOMAIN waiting : calls[waiting[n]].op # "idle"
    BY <2>1 DEF QueueInv, Queueable
  <2>4. QED
    BY <1>2, <2>2, <2>3
<1>5. ~Updating(call, op, row)
  BY DEF Updating, Updates
<1>6. PICK m \in DOMAIN waiting' :
        /\ waiting'[m] = d
        /\ Updating(calls'[d], op, row)
        /\ \A j \in DOMAIN waiting' : j > m => ~Updating(calls'[waiting'[j]], op, row)
  BY DEF Latest
<1>7. d # c
  BY <1>1, <1>5, <1>6
<1>8. m \in DOMAIN waiting /\ waiting[m] = d /\ Updating(calls[d], op, row)
  BY <1>1, <1>3, <1>6, <1>7
<1>9. \A j \in DOMAIN waiting : j > m => ~Updating(calls[waiting[j]], op, row)
  BY <1>1, <1>3, <1>4, <1>6
<1>10. QED
  BY <1>7, <1>8, <1>9 DEF Latest

LEMMA QueuedMoves ==
  ASSUME QueuedInv, TypesInv, NEW c \in Calls, Resumes(c), NEW call,
         Await(c, call) \/ (AwaitNetwork(c, call) /\ ~Updates(call)),
         UNCHANGED vaultReady
  PROVE  QueuedInv'
<1> DEFINE q == Tail(waiting)
<1>1. /\ q \in Seq(Calls)
      /\ \A k \in DOMAIN waiting : waiting[k] # c => k - 1 \in DOMAIN q /\ q[k - 1] = waiting[k]
  BY Shifted DEF TypesInv
<1>2. calls'[c] = call /\ \A e \in Calls : e # c => calls'[e] = calls[e]
  BY CallReplaced DEF Await, AwaitNetwork
<1> HIDE DEF q
<1>3. CASE Await(c, call)
  <2>1. waiting' = Append(q, c) /\ vaultReady
    BY <1>3 DEF Await, Resumes, q
  <2>2. /\ DOMAIN q \subseteq DOMAIN waiting' /\ \A n \in DOMAIN q : waiting'[n] = q[n]
        /\ Len(q) + 1 \in DOMAIN waiting' /\ waiting'[Len(q) + 1] = c
    BY <1>1, <2>1
  <2>3. QED
    BY <1>1, <1>2, <2>1, <2>2 DEF QueuedInv
<1>4. CASE AwaitNetwork(c, call) /\ ~Updates(call)
  <2>1. waiting' = q
    BY <1>4 DEF AwaitNetwork, q
  <2>2. QED
    BY <1>1, <1>2, <1>4, <2>1 DEF QueuedInv
<1>5. QED
  BY <1>3, <1>4

LEMMA QueuedInvariance == AccessSpec => []QueuedInv
<1>1. AccessInit => QueuedInv
  BY DEF AccessInit, CustodyInit, QueuedInv, Updates, Idle
<1>2. TypesInv /\ QueuedInv /\ [AccessNext]_accessVars => QueuedInv'
  <2> SUFFICES ASSUME TypesInv, QueuedInv, [AccessNext]_accessVars PROVE QueuedInv'
    OBVIOUS
  <2>1. ~Updates(Idle)
    BY DEF Updates, Idle
  <2>2. CASE Quiet
    BY <2>2 DEF Quiet, QueuedInv
  <2>3. ASSUME NEW c \in Calls, Requests(c) PROVE QueuedInv'
    <3>1. PICK call, k : Begin(c, call, k) /\ Opening(call) /\ UNCHANGED vaultReady
      BY <2>3, Begins
    <3>2. ~Updates(call)
      BY <3>1 DEF Opening, Updates, MintsHost
    <3>3. calls'[c] = call /\ \A d \in Calls : d # c => calls'[d] = calls[d]
      BY <3>1, CallReplaced DEF Begin
    <3>4. waiting' = Append(waiting, c) /\ waiting \in Seq(Calls)
      BY <3>1 DEF Begin, TypesInv, QueueInv
    <3>5. DOMAIN waiting \subseteq DOMAIN waiting' /\ \A n \in DOMAIN waiting : waiting'[n] = waiting[n]
      BY <3>4
    <3>6. QED
      BY <3>1, <3>2, <3>3, <3>5 DEF QueuedInv
  <2>4. ASSUME NEW c \in Calls, Seals(c) PROVE QueuedInv'
    BY <2>1, <2>4, Stores, QueuedMoves DEF Seals
  <2>5. ASSUME NEW c \in Calls, Reseals(c) PROVE QueuedInv'
    BY <2>1, <2>5, Rotates, QueuedMoves DEF Reseals
  <2>6. ASSUME NEW c \in Calls, resolveToken(c) PROVE QueuedInv'
    <3>1. PICK call : AwaitNetwork(c, call) /\ (call = Idle \/ call.op = "conformance")
      BY <2>6, Resolves
    <3>2. ~Updates(call)
      BY <2>1, <3>1 DEF Updates
    <3>3. QED
      BY <2>6, <3>1, <3>2, Resolves, QueuedMoves
  <2>7. ASSUME NEW c \in Calls, insertConnection(c), UNCHANGED projectVars PROVE QueuedInv'
    BY <2>1, <2>7, ConnectionInserted, QueuedMoves
  <2>8. ASSUME NEW c \in Calls, insertProject(c), UNCHANGED hostVars PROVE QueuedInv'
    BY <2>1, <2>8, ProjectInserted, QueuedMoves
  <2>9. ASSUME NEW c \in Calls, Rewritten(c) PROVE QueuedInv'
    BY <2>1, <2>9, RowsWritten, QueuedMoves DEF Rewritten
  <2>10. ASSUME NEW c \in Calls, readChecks(c), UNCHANGED hostVars PROVE QueuedInv'
    BY <2>10, ProjectRead DEF QueuedInv, Updates
  <2>11. ASSUME NEW n \in DOMAIN connections, Marks(n) PROVE QueuedInv'
    <3>1. UNCHANGED <<calls, waiting, vaultReady>> \/ ProcessRestarts
      BY <2>11, RowsMarked DEF Marks
    <3>2. QED
      BY <2>1, <3>1 DEF QueuedInv, ProcessRestarts
  <2>12. CASE restart
    BY <2>1, <2>12 DEF restart, ProcessRestarts, QueuedInv
  <2>13. QED
    BY <2>2, <2>3, <2>4, <2>5, <2>6, <2>7, <2>8, <2>9, <2>10, <2>11, <2>12, StepCases
<1>3. QED
  BY <1>1, <1>2, TypesInvariance, PTL DEF AccessSpec

-----------------------------------------------------------------------------
(* What is sealed is what is issued *)

SealedIn(vault, ref, token) == vault[ref] = [status |-> "active", token |-> token]

\* What a call has sealed is in the vault, and of the calls that are to write
\* a row, the latest has its token there.
SealedInv ==
  /\ \A c \in Calls : MintsHost(calls[c]) /\ calls[c].step # "access" =>
       SealedIn(secrets, calls[c].accessRef, calls[c].token)
  /\ \A c \in Calls : calls[c].op = "register" /\ calls[c].step = "insert" =>
       SealedIn(secrets, calls[c].ref, calls[c].token)
  /\ \A c \in Calls :
       /\ \A n \in DOMAIN connections : Latest(waiting, calls, c, "refresh", n) =>
            SealedIn(secrets, connections[n].accessRef, calls[c].token)
       /\ \A p \in DOMAIN projects : Latest(waiting, calls, c, "rotate", p) =>
            SealedIn(secrets, projects[p].ref, calls[c].token)
  /\ SealedIsIssued

LEMMA RewritingIsUpdating ==
  ASSUME NEW op \in {"refresh", "rotate"}, NEW row
  PROVE  Rewriting(op, row) <=> \E c \in Calls : Updating(calls[c], op, row)
BY DEF Rewriting, Rewrites, Updating

LEMMA RewritingThen ==
  ASSUME NEW op \in {"refresh", "rotate"}, NEW row
  PROVE  (Rewriting(op, row))' <=> \E c \in Calls : Updating(calls'[c], op, row)
BY DEF Rewriting, Rewrites, Updating

LEMMA HeldRefs ==
  ASSUME TypesInv, NEW c \in Calls
  PROVE  /\ MintsHost(calls[c]) /\ calls[c].step # "access" =>
              calls[c].accessRef \in Held(calls[c]) /\ calls[c].accessRef \in DOMAIN secrets
         /\ calls[c].op = "register" /\ calls[c].step = "insert" =>
              calls[c].ref \in Held(calls[c]) /\ calls[c].ref \in DOMAIN secrets
<1>1. \A r \in DOMAIN secrets : r # None
  BY DEF TypesInv, CustodyTypeOK, None
<1>2. Fits(calls[c], DOMAIN secrets, DOMAIN connections, DOMAIN projects)
  BY DEF TypesInv
<1>3. QED
  BY <1>1, <1>2 DEF Fits, Held, MintsHost

\* The secrets, tokens and statuses of the rows are as they were, and so are
\* the calls, but for some that update nothing and have sealed what they say.
LEMMA SealedFrame ==
  ASSUME SealedInv, TypesInv, SameRefs,
         \A n \in DOMAIN connections :
           connections'[n].token = connections[n].token /\ connections'[n].status = connections[n].status,
         \A p \in DOMAIN projects : projects'[p].token = projects[p].token,
         \A r \in DOMAIN secrets : secrets'[r] = secrets[r],
         \A d \in Calls :
           \/ calls'[d] = calls[d]
           \/ /\ ~Updates(calls[d])
              /\ MintsHost(calls'[d]) /\ calls'[d].step # "access" =>
                   SealedIn(secrets', calls'[d].accessRef, calls'[d].token)
              /\ calls'[d].op = "register" /\ calls'[d].step = "insert" =>
                   SealedIn(secrets', calls'[d].ref, calls'[d].token),
         \A d \in Calls, op \in {"refresh", "rotate"} : \A row :
           Latest(waiting', calls', d, op, row) =>
             calls'[d] = calls[d] /\ Latest(waiting, calls, d, op, row)
  PROVE  SealedInv'
<1>1. \A d \in Calls : MintsHost(calls'[d]) /\ calls'[d].step # "access" =>
        SealedIn(secrets', calls'[d].accessRef, calls'[d].token)
  BY HeldRefs DEF SealedInv, SealedIn
<1>2. \A d \in Calls : calls'[d].op = "register" /\ calls'[d].step = "insert" =>
        SealedIn(secrets', calls'[d].ref, calls'[d].token)
  BY HeldRefs DEF SealedInv, SealedIn
<1>3. \A d \in Calls :
        /\ \A n \in DOMAIN connections' : Latest(waiting', calls', d, "refresh", n) =>
             SealedIn(secrets', connections'[n].accessRef, calls'[d].token)
        /\ \A p \in DOMAIN projects' : Latest(waiting', calls', d, "rotate", p) =>
             SealedIn(secrets', projects'[p].ref, calls'[d].token)
  <2>1. ASSUME NEW d \in Calls, NEW n \in DOMAIN connections',
               Latest(waiting', calls', d, "refresh", n)
        PROVE  SealedIn(secrets', connections'[n].accessRef, calls'[d].token)
    <3>1. n \in DOMAIN connections /\ connections'[n].accessRef = connections[n].accessRef
          /\ connections[n].accessRef \in DOMAIN secrets
      BY DEF SameRefs, TypesInv
    <3>2. calls'[d] = calls[d] /\ Latest(waiting, calls, d, "refresh", n)
      BY <2>1
    <3>3. SealedIn(secrets, connections[n].accessRef, calls[d].token)
      BY <3>1, <3>2 DEF SealedInv
    <3>4. QED
      BY <3>1, <3>2, <3>3 DEF SealedIn
  <2>2. ASSUME NEW d \in Calls, NEW p \in DOMAIN projects',
               Latest(waiting', calls', d, "rotate", p)
        PROVE  SealedIn(secrets', projects'[p].ref, calls'[d].token)
    <3>1. p \in DOMAIN projects /\ projects'[p].ref = projects[p].ref /\ projects[p].ref \in DOMAIN secrets
      BY DEF SameRefs, TypesInv
    <3>2. calls'[d] = calls[d] /\ Latest(waiting, calls, d, "rotate", p)
      BY <2>2
    <3>3. SealedIn(secrets, projects[p].ref, calls[d].token)
      BY <3>1, <3>2 DEF SealedInv
    <3>4. QED
      BY <3>1, <3>2, <3>3 DEF SealedIn
  <2>3. QED
    BY <2>1, <2>2
<1>4. ASSUME NEW op \in {"refresh", "rotate"}, NEW row, Rewriting(op, row)
      PROVE  (Rewriting(op, row))'
  <2>1. PICK d \in Calls : Updating(calls[d], op, row)
    BY <1>4, RewritingIsUpdating
  <2>2. calls'[d] = calls[d]
    BY <2>1 DEF Updating, Updates
  <2>3. QED
    BY <2>1, <2>2, RewritingThen
<1>5. SealedIsIssued'
  <2>1. \A n \in DOMAIN connections' \ Fragile :
          \/ connections'[n].status = "revoked"
          \/ (Rewriting("refresh", n))'
          \/ SealedIn(secrets', connections'[n].accessRef, connections'[n].token)
    BY <1>4 DEF SealedInv, SealedIsIssued, SealedIn, SameRefs, TypesInv
  <2>2. \A p \in DOMAIN projects' \ Fragile :
          \/ (Rewriting("rotate", p))'
          \/ SealedIn(secrets', projects'[p].ref, projects'[p].token)
    BY <1>4 DEF SealedInv, SealedIsIssued, SealedIn, SameRefs, TypesInv
  <2>3. QED
    BY <2>1, <2>2 DEF SealedIsIssued, SealedIn
<1>6. QED
  BY <1>1, <1>2, <1>3, <1>5 DEF SealedInv

\* A call that holds no secret and updates no row becomes another such call.
LEMMA SealedMoves ==
  ASSUME SealedInv, TypesInv, NEW c \in Calls, Resumes(c), ~Updates(calls[c]),
         NEW call, AwaitNetwork(c, call) \/ Await(c, call), ~Updates(call),
         MintsHost(call) /\ call.step # "access" => SealedIn(secrets', call.accessRef, call.token),
         call.op = "register" /\ call.step = "insert" => SealedIn(secrets', call.ref, call.token),
         UNCHANGED <<connections, projects>>,
         \A r \in DOMAIN secrets : secrets'[r] = secrets[r]
  PROVE  SealedInv'
<1>1. calls'[c] = call /\ \A d \in Calls : d # c => calls'[d] = calls[d]
  BY CallReplaced DEF AwaitNetwork, Await
<1>2. \A op \in {"refresh", "rotate"} : \A row : ~Updating(call, op, row)
  BY DEF Updating, Updates
<1>3. \A d \in Calls, op \in {"refresh", "rotate"} : \A row :
        Latest(waiting', calls', d, op, row) =>
          calls'[d] = calls[d] /\ Latest(waiting, calls, d, op, row)
  BY <1>1, <1>2, LatestMoves
<1>4. SameRefs
  BY DEF SameRefs
<1>5. QED
  BY <1>1, <1>3, <1>4, SealedFrame

LEMMA SealedRequests ==
  ASSUME SealedInv, TypesInv, NEW c \in Calls, Requests(c)
  PROVE  SealedInv'
<1>1. PICK call, k : Begin(c, call, k) /\ Opening(call) /\ UNCHANGED <<secrets, connections, projects>>
  BY Begins
<1>2. /\ ~Updates(call) /\ ~(MintsHost(call) /\ call.step # "access")
      /\ ~(call.op = "register" /\ call.step = "insert")
  BY <1>1 DEF Opening, Updates, MintsHost
<1>3. calls'[c] = call /\ \A d \in Calls : d # c => calls'[d] = calls[d]
  BY <1>1, CallReplaced DEF Begin
<1>4. ~Updates(calls[c])
  BY <1>1 DEF Begin, Updates, Idle
<1>5. SameRefs
  BY <1>1 DEF SameRefs
<1>6. \A d \in Calls, op \in {"refresh", "rotate"} : \A row :
        Latest(waiting', calls', d, op, row) =>
          calls'[d] = calls[d] /\ Latest(waiting, calls, d, op, row)
  BY <1>1, <1>2, <1>3, LatestBegins
<1>7. QED
  BY <1>1, <1>2, <1>3, <1>4, <1>5, <1>6, SealedFrame

LEMMA SealedSeals ==
  ASSUME SealedInv, TypesInv, NEW c \in Calls, Seals(c)
  PROVE  SealedInv'
<1>1. Resumes(c) /\ ~Updates(calls[c]) /\ UNCHANGED <<connections, projects>>
  BY Stores DEF Seals, Updates, hostVars, projectVars
<1>2. CASE UNCHANGED secrets /\ AwaitNetwork(c, Idle)
  <2>1. ~Updates(Idle) /\ ~MintsHost(Idle) /\ Idle.op = "idle"
    BY DEF Updates, MintsHost, Idle
  <2>2. QED
    BY <1>1, <1>2, <2>1, SealedMoves
<1>3. ASSUME NEW stored, NEW token \in Tokens, Await(c, stored),
             Stored(calls[c], stored, token, Len(secrets) + 1),
             secrets' = Append(secrets, [status |-> "active", token |-> token])
      PROVE  SealedInv'
  <2>1. PICK new : new = Len(secrets) + 1
    OBVIOUS
  <2>2. secrets \in Seq(SecretRow)
    BY DEF TypesInv, CustodyTypeOK
  <2>3. /\ \A r \in DOMAIN secrets : secrets'[r] = secrets[r]
        /\ secrets'[new] = [status |-> "active", token |-> token]
    BY <1>3, <2>1, <2>2
  <2>4. ~Updates(stored)
    BY <1>3 DEF Stored, Updates, MintsHost
  <2>5. ASSUME MintsHost(stored), stored.step # "access"
        PROVE  SealedIn(secrets', stored.accessRef, stored.token)
    <3>1. CASE MintsHost(calls[c]) /\ calls[c].step = "access" /\ token = calls[c].token
               /\ stored.token = calls[c].token /\ stored.accessRef = new
      BY <2>3, <3>1 DEF SealedIn
    <3>2. CASE /\ calls[c].op = "issue" /\ calls[c].step = "refresh"
               /\ stored.token = calls[c].token /\ stored.accessRef = calls[c].accessRef
      <4>1. MintsHost(calls[c]) /\ calls[c].step # "access"
        BY <3>2 DEF MintsHost
      <4>2. SealedIn(secrets, calls[c].accessRef, calls[c].token) /\ calls[c].accessRef \in DOMAIN secrets
        BY <4>1, HeldRefs DEF SealedInv
      <4>3. QED
        BY <2>3, <3>2, <4>2 DEF SealedIn
    <3>3. QED
      BY <1>3, <2>1, <2>5, <3>1, <3>2 DEF Stored, MintsHost
  <2>6. ASSUME stored.op = "register"
        PROVE  SealedIn(secrets', stored.ref, stored.token)
    <3>1. token = calls[c].token /\ stored.token = calls[c].token /\ stored.ref = new
      BY <1>3, <2>1, <2>6 DEF Stored, MintsHost
    <3>2. QED
      BY <2>3, <3>1 DEF SealedIn
  <2>7. QED
    BY <1>1, <1>3, <2>3, <2>4, <2>5, <2>6, SealedMoves
<1>4. QED
  BY <1>2, <1>3, Stores DEF Seals

LEMMA DistinctRefs ==
  ASSUME OwnersInv, TypesInv
  PROVE  /\ \A m, n \in DOMAIN connections :
              connections[m].accessRef = connections[n].accessRef => m = n
         /\ \A n \in DOMAIN connections, p \in DOMAIN projects :
              connections[n].accessRef # projects[p].ref
         /\ \A p, q \in DOMAIN projects : projects[p].ref = projects[q].ref => p = q
         /\ \A n \in DOMAIN connections : connections[n].accessRef \in SecretsOf(n)
<1>1. \A n \in DOMAIN connections : connections[n].accessRef \in SecretsOf(n)
  <2>1. \A r \in DOMAIN secrets : r # None
    BY DEF TypesInv, CustodyTypeOK, None
  <2>2. QED
    BY <2>1 DEF TypesInv, SecretsOf
<1>2. QED
  BY <1>1 DEF OwnersInv

\* A rotation writes the secret of one row, and goes to the end of the queue.
LEMMA SealedReseals ==
  ASSUME SealedInv, OwnersInv, TypesInv, NEW c \in Calls, Reseals(c)
  PROVE  SealedInv'
<1>1. /\ Resumes(c) /\ ~Updates(calls[c]) /\ UNCHANGED <<connections, projects>>
      /\ calls[c].op \in {"refresh", "rotate"}
  BY Rotates DEF Reseals, Updates, hostVars, projectVars
<1>2. CASE UNCHANGED secrets /\ AwaitNetwork(c, Idle)
  <2>1. ~Updates(Idle) /\ ~MintsHost(Idle) /\ Idle.op = "idle"
    BY DEF Updates, MintsHost, Idle
  <2>2. QED
    BY <1>1, <1>2, <2>1, SealedMoves
<1>3. ASSUME NEW op, op = calls[c].op, NEW row, row = RowOf(calls[c]), NEW ref, ref = RefOf(op, row),
             NEW rotated, Await(c, rotated), Updating(rotated, op, row), rotated.token = calls[c].token,
             Usable(ref), secrets' = [secrets EXCEPT ![ref].token = calls[c].token],
             ref \in DOMAIN secrets, calls[c].token \in Tokens,
             op = "refresh" => row \in DOMAIN connections,
             op = "rotate" => row \in DOMAIN projects
      PROVE  SealedInv'
  <2>1. /\ secrets'[ref] = [status |-> "active", token |-> calls[c].token]
        /\ \A r \in DOMAIN secrets : r # ref => secrets'[r] = secrets[r]
    BY <1>3, SecretsRotated DEF TypesInv, CustodyTypeOK
  <2>2. calls'[c] = rotated /\ \A d \in Calls : d # c => calls'[d] = calls[d]
    BY <1>3, CallReplaced DEF Await
  <2>3. op \in {"refresh", "rotate"} /\ ~MintsHost(rotated) /\ rotated.op = op
    BY <1>1, <1>3 DEF Updating, MintsHost
  <2>4. /\ op = "refresh" => ref = connections[row].accessRef
        /\ op = "rotate" => ref = projects[row].ref
    BY <1>3 DEF RefOf
  <2>5. /\ \A n \in DOMAIN connections :
             connections[n].accessRef = ref => op = "refresh" /\ n = row
        /\ \A p \in DOMAIN projects : projects[p].ref = ref => op = "rotate" /\ p = row
    BY <1>3, <2>3, <2>4, DistinctRefs
  <2>6. \A d \in Calls : ref \notin Held(calls[d])
    <3>1. CASE op = "refresh"
      BY <1>3, <2>4, <3>1, DistinctRefs DEF OwnersInv
    <3>2. CASE op = "rotate"
      BY <1>3, <2>4, <3>2 DEF OwnersInv
    <3>3. QED
      BY <2>3, <3>1, <3>2
  <2>7. \A d \in Calls : MintsHost(calls'[d]) /\ calls'[d].step # "access" =>
          SealedIn(secrets', calls'[d].accessRef, calls'[d].token)
    BY <2>1, <2>2, <2>3, <2>6, HeldRefs DEF SealedInv, SealedIn
  <2>8. \A d \in Calls : calls'[d].op = "register" /\ calls'[d].step = "insert" =>
          SealedIn(secrets', calls'[d].ref, calls'[d].token)
    BY <2>1, <2>2, <2>3, <2>6, HeldRefs DEF SealedInv, SealedIn
  <2>9. \A o \in {"refresh", "rotate"} : \A r : Updating(rotated, o, r) => o = op /\ r = row
    BY <1>3, <2>3 DEF Updating
  <2>10. \A d \in Calls, o \in {"refresh", "rotate"} : \A r :
           Latest(waiting', calls', d, o, r) =>
             \/ d = c /\ o = op /\ r = row
             \/ d # c /\ Latest(waiting, calls, d, o, r) /\ ~(o = op /\ r = row)
    BY <1>1, <1>3, <2>9, LatestMoves
  <2>11. ASSUME NEW d \in Calls, NEW n \in DOMAIN connections',
                Latest(waiting', calls', d, "refresh", n)
         PROVE  SealedIn(secrets', connections'[n].accessRef, calls'[d].token)
    <3>1. CASE d = c /\ "refresh" = op /\ n = row
      BY <1>1, <1>3, <2>1, <2>2, <2>4, <3>1 DEF SealedIn
    <3>2. CASE d # c /\ Latest(waiting, calls, d, "refresh", n) /\ ~("refresh" = op /\ n = row)
      <4>1. n \in DOMAIN connections /\ connections[n].accessRef # ref
            /\ connections[n].accessRef \in DOMAIN secrets
        BY <1>1, <2>5, <3>2 DEF TypesInv
      <4>2. SealedIn(secrets, connections[n].accessRef, calls[d].token)
        BY <3>2, <4>1 DEF SealedInv
      <4>3. QED
        BY <1>1, <2>1, <2>2, <3>2, <4>1, <4>2 DEF SealedIn
    <3>3. QED
      BY <2>10, <2>11, <3>1, <3>2
  <2>12. ASSUME NEW d \in Calls, NEW p \in DOMAIN projects',
                Latest(waiting', calls', d, "rotate", p)
         PROVE  SealedIn(secrets', projects'[p].ref, calls'[d].token)
    <3>1. CASE d = c /\ "rotate" = op /\ p = row
      BY <1>1, <1>3, <2>1, <2>2, <2>4, <3>1 DEF SealedIn
    <3>2. CASE d # c /\ Latest(waiting, calls, d, "rotate", p) /\ ~("rotate" = op /\ p = row)
      <4>1. p \in DOMAIN projects /\ projects[p].ref # ref /\ projects[p].ref \in DOMAIN secrets
        BY <1>1, <2>5, <3>2 DEF TypesInv
      <4>2. SealedIn(secrets, projects[p].ref, calls[d].token)
        BY <3>2, <4>1 DEF SealedInv
      <4>3. QED
        BY <1>1, <2>1, <2>2, <3>2, <4>1, <4>2 DEF SealedIn
    <3>3. QED
      BY <2>10, <2>12, <3>1, <3>2
  <2>13. ASSUME NEW o \in {"refresh", "rotate"}, NEW r, Rewriting(o, r) \/ (o = op /\ r = row)
         PROVE  (Rewriting(o, r))'
    <3>1. CASE Rewriting(o, r)
      <4>1. PICK d \in Calls : Updating(calls[d], o, r)
        BY <3>1, RewritingIsUpdating
      <4>2. d # c
        BY <1>1, <4>1 DEF Updating, Updates
      <4>3. QED
        BY <2>2, <4>1, <4>2, RewritingThen
    <3>2. CASE o = op /\ r = row
      BY <1>3, <2>2, <3>2, RewritingThen
    <3>3. QED
      BY <2>13, <3>1, <3>2
  <2>14. \A n \in DOMAIN connections' \ Fragile :
           \/ connections'[n].status = "revoked"
           \/ (Rewriting("refresh", n))'
           \/ SealedIn(secrets', connections'[n].accessRef, connections'[n].token)
    BY <1>1, <2>1, <2>5, <2>13 DEF SealedInv, SealedIsIssued, SealedIn, TypesInv
  <2>15. \A p \in DOMAIN projects' \ Fragile :
           \/ (Rewriting("rotate", p))'
           \/ SealedIn(secrets', projects'[p].ref, projects'[p].token)
    BY <1>1, <2>1, <2>5, <2>13 DEF SealedInv, SealedIsIssued, SealedIn, TypesInv
  <2>16. SealedIsIssued'
    BY <2>14, <2>15 DEF SealedIsIssued, SealedIn
  <2>17. QED
    BY <2>7, <2>8, <2>11, <2>12, <2>16 DEF SealedInv
<1>4. ASSUME NEW rotated, Await(c, rotated),
             Updating(rotated, calls[c].op, RowOf(calls[c])), rotated.token = calls[c].token,
             Usable(RefOf(calls[c].op, RowOf(calls[c]))),
             secrets' = [secrets EXCEPT ![RefOf(calls[c].op, RowOf(calls[c]))].token = calls[c].token]
      PROVE  SealedInv'
  <2>1. PICK op : op = calls[c].op
    OBVIOUS
  <2>2. PICK row : row = RowOf(calls[c])
    OBVIOUS
  <2>3. PICK ref : ref = RefOf(op, row)
    OBVIOUS
  <2>4. /\ ref \in DOMAIN secrets /\ calls[c].token \in Tokens
        /\ op = "refresh" => row \in DOMAIN connections
        /\ op = "rotate" => row \in DOMAIN projects
    BY <2>1, <2>2, <2>3, Rotates DEF Reseals, RowOf
  <2>5. /\ Updating(rotated, op, row) /\ Usable(ref)
        /\ secrets' = [secrets EXCEPT ![ref].token = calls[c].token]
    BY <1>4, <2>1, <2>2, <2>3
  <2>6. QED
    BY <1>3, <1>4, <2>1, <2>2, <2>3, <2>4, <2>5
<1>5. QED
  BY <1>2, <1>4, Rotates DEF Reseals

\* The rows taken over what their calls sealed; the calls are over.
LEMMA SealedGrant ==
  ASSUME SealedInv, TypesInv, NEW c \in Calls, insertConnection(c), UNCHANGED projectVars
  PROVE  SealedInv'
<1>0. PICK new : new = Len(connections) + 1
  OBVIOUS
<1>1. /\ Resumes(c) /\ AwaitNetwork(c, Idle) /\ UNCHANGED <<secrets, projects>>
      /\ MintsHost(calls[c]) /\ calls[c].step # "access"
      /\ DOMAIN connections' = DOMAIN connections \cup {new} /\ new \notin DOMAIN connections
      /\ \A n \in DOMAIN connections : connections'[n] = connections[n]
      /\ connections'[new].accessRef = calls[c].accessRef
      /\ connections'[new].token = calls[c].token
  BY <1>0, ConnectionInserted
<1>2. calls'[c] = Idle /\ \A d \in Calls : d # c => calls'[d] = calls[d]
  BY <1>1, CallReplaced DEF AwaitNetwork
<1>3. \A d \in Calls, op \in {"refresh", "rotate"} : \A row :
        Latest(waiting', calls', d, op, row) => d # c /\ Latest(waiting, calls, d, op, row)
  BY <1>1, Ended, LatestMoves
<1>4. \A d \in Calls : ~Latest(waiting, calls, d, "refresh", new)
  BY <1>1 DEF Latest, Updating, TypesInv, Fits
<1>5. \A d \in Calls : MintsHost(calls'[d]) /\ calls'[d].step # "access" =>
        SealedIn(secrets', calls'[d].accessRef, calls'[d].token)
  BY <1>1, <1>2, Ended DEF SealedInv
<1>6. \A d \in Calls : calls'[d].op = "register" /\ calls'[d].step = "insert" =>
        SealedIn(secrets', calls'[d].ref, calls'[d].token)
  BY <1>1, <1>2, Ended DEF SealedInv
<1>7. \A d \in Calls :
        /\ \A n \in DOMAIN connections' : Latest(waiting', calls', d, "refresh", n) =>
             SealedIn(secrets', connections'[n].accessRef, calls'[d].token)
        /\ \A p \in DOMAIN projects' : Latest(waiting', calls', d, "rotate", p) =>
             SealedIn(secrets', projects'[p].ref, calls'[d].token)
  BY <1>1, <1>2, <1>3, <1>4 DEF SealedInv
<1>8. ASSUME NEW op \in {"refresh", "rotate"}, NEW row, Rewriting(op, row)
      PROVE  (Rewriting(op, row))'
  <2>1. PICK d \in Calls : Updating(calls[d], op, row)
    BY <1>8, RewritingIsUpdating
  <2>2. d # c
    BY <1>1, <2>1 DEF Updating, MintsHost
  <2>3. QED
    BY <1>2, <2>1, <2>2, RewritingThen
<1>9. SealedIn(secrets', connections'[new].accessRef, connections'[new].token)
  BY <1>1 DEF SealedInv
<1>10. SealedIsIssued'
  <2>1. \A n \in DOMAIN connections' \ Fragile :
          \/ connections'[n].status = "revoked"
          \/ (Rewriting("refresh", n))'
          \/ SealedIn(secrets', connections'[n].accessRef, connections'[n].token)
    BY <1>1, <1>8, <1>9 DEF SealedInv, SealedIsIssued, SealedIn
  <2>2. \A p \in DOMAIN projects' \ Fragile :
          \/ (Rewriting("rotate", p))'
          \/ SealedIn(secrets', projects'[p].ref, projects'[p].token)
    BY <1>1, <1>8 DEF SealedInv, SealedIsIssued, SealedIn
  <2>3. QED
    BY <2>1, <2>2 DEF SealedIsIssued, SealedIn
<1>11. QED
  BY <1>5, <1>6, <1>7, <1>10 DEF SealedInv

LEMMA SealedRegister ==
  ASSUME SealedInv, TypesInv, NEW c \in Calls, insertProject(c), UNCHANGED hostVars
  PROVE  SealedInv'
<1>0. PICK new : new = Len(projects) + 1
  OBVIOUS
<1>1. /\ Resumes(c) /\ UNCHANGED <<secrets, connections>>
      /\ calls[c].op = "register" /\ calls[c].step = "insert"
  BY ProjectInserted
<1>2. ~Updates(calls[c]) /\ ~MintsHost(calls[c])
  BY <1>1 DEF Updates, MintsHost
<1>3. CASE UNCHANGED projects /\ AwaitNetwork(c, Idle)
  <2>1. ~Updates(Idle) /\ ~MintsHost(Idle) /\ Idle.op = "idle"
    BY DEF Updates, MintsHost, Idle
  <2>2. QED
    BY <1>1, <1>2, <1>3, <2>1, SealedMoves
<1>4. ASSUME NEW run, run = RunConformance(new), Await(c, run),
             DOMAIN projects' = DOMAIN projects \cup {new}, new \notin DOMAIN projects,
             \A p \in DOMAIN projects : projects'[p] = projects[p],
             projects'[new].ref = calls[c].ref, projects'[new].token = calls[c].token
      PROVE  SealedInv'
  <2>1. calls'[c] = run /\ \A d \in Calls : d # c => calls'[d] = calls[d]
    BY <1>4, CallReplaced DEF Await
  <2>2. run.op = "conformance" /\ ~MintsHost(run)
    BY <1>4 DEF RunConformance, MintsHost
  <2>3. \A op \in {"refresh", "rotate"} : \A row : ~Updating(run, op, row)
    BY <2>2 DEF Updating
  <2>4. \A d \in Calls, op \in {"refresh", "rotate"} : \A row :
          Latest(waiting', calls', d, op, row) => d # c /\ Latest(waiting, calls, d, op, row)
    BY <1>1, <1>4, <2>3, LatestMoves
  <2>5. \A d \in Calls : ~Latest(waiting, calls, d, "rotate", new)
    BY <1>4 DEF Latest, Updating, TypesInv, Fits
  <2>6. \A d \in Calls : MintsHost(calls'[d]) /\ calls'[d].step # "access" =>
          SealedIn(secrets', calls'[d].accessRef, calls'[d].token)
    BY <1>1, <2>1, <2>2 DEF SealedInv
  <2>7. \A d \in Calls : calls'[d].op = "register" /\ calls'[d].step = "insert" =>
          SealedIn(secrets', calls'[d].ref, calls'[d].token)
    BY <1>1, <2>1, <2>2 DEF SealedInv
  <2>8. \A d \in Calls :
          /\ \A n \in DOMAIN connections' : Latest(waiting', calls', d, "refresh", n) =>
               SealedIn(secrets', connections'[n].accessRef, calls'[d].token)
          /\ \A p \in DOMAIN projects' : Latest(waiting', calls', d, "rotate", p) =>
               SealedIn(secrets', projects'[p].ref, calls'[d].token)
    BY <1>1, <1>4, <2>1, <2>4, <2>5 DEF SealedInv
  <2>9. ASSUME NEW op \in {"refresh", "rotate"}, NEW row, Rewriting(op, row)
        PROVE  (Rewriting(op, row))'
    <3>1. PICK d \in Calls : Updating(calls[d], op, row)
      BY <2>9, RewritingIsUpdating
    <3>2. d # c
      BY <1>1, <3>1 DEF Updating
    <3>3. QED
      BY <2>1, <3>1, <3>2, RewritingThen
  <2>10. SealedIn(secrets', projects'[new].ref, projects'[new].token)
    BY <1>1, <1>4 DEF SealedInv
  <2>11. SealedIsIssued'
    <3>1. \A n \in DOMAIN connections' \ Fragile :
            \/ connections'[n].status = "revoked"
            \/ (Rewriting("refresh", n))'
            \/ SealedIn(secrets', connections'[n].accessRef, connections'[n].token)
      BY <1>1, <2>9 DEF SealedInv, SealedIsIssued, SealedIn
    <3>2. \A p \in DOMAIN projects' \ Fragile :
            \/ (Rewriting("rotate", p))'
            \/ SealedIn(secrets', projects'[p].ref, projects'[p].token)
      BY <1>1, <1>4, <2>9, <2>10 DEF SealedInv, SealedIsIssued, SealedIn
    <3>3. QED
      BY <3>1, <3>2 DEF SealedIsIssued, SealedIn
  <2>12. QED
    BY <2>6, <2>7, <2>8, <2>11 DEF SealedInv
<1>5. QED
  BY <1>0, <1>3, <1>4, ProjectInserted

\* A row is written: it verifies what is sealed, or another call is to write it.
LEMMA SealedRewritten ==
  ASSUME SealedInv, TypesInv, NEW c \in Calls, Rewritten(c)
  PROVE  SealedInv'
<1>1. /\ SameRefs /\ Resumes(c) /\ AwaitNetwork(c, Idle) /\ UNCHANGED secrets
      /\ Updating(calls[c], calls[c].op, RowOf(calls[c]))
  BY RowsWritten DEF Rewritten
<1>2. calls'[c] = Idle /\ \A d \in Calls : d # c => calls'[d] = calls[d]
  BY <1>1, CallReplaced DEF AwaitNetwork
<1>3. \A d \in Calls, op \in {"refresh", "rotate"} : \A row :
        Latest(waiting', calls', d, op, row) => d # c /\ Latest(waiting, calls, d, op, row)
  BY <1>1, Ended, LatestMoves
<1>4. \A d \in Calls : MintsHost(calls'[d]) /\ calls'[d].step # "access" =>
        SealedIn(secrets', calls'[d].accessRef, calls'[d].token)
  BY <1>1, <1>2, Ended DEF SealedInv
<1>5. \A d \in Calls : calls'[d].op = "register" /\ calls'[d].step = "insert" =>
        SealedIn(secrets', calls'[d].ref, calls'[d].token)
  BY <1>1, <1>2, Ended DEF SealedInv
<1>6. \A d \in Calls :
        /\ \A n \in DOMAIN connections' : Latest(waiting', calls', d, "refresh", n) =>
             SealedIn(secrets', connections'[n].accessRef, calls'[d].token)
        /\ \A p \in DOMAIN projects' : Latest(waiting', calls', d, "rotate", p) =>
             SealedIn(secrets', projects'[p].ref, calls'[d].token)
  BY <1>1, <1>2, <1>3 DEF SealedInv, SameRefs
<1>7. ASSUME NEW op \in {"refresh", "rotate"}, NEW row, Rewriting(op, row), ~(Rewriting(op, row))'
      PROVE  Latest(waiting, calls, c, op, row)
  <2>1. \A d \in Calls : d # c => ~Updating(calls[d], op, row)
    BY <1>2, <1>7, RewritingThen
  <2>2. Updating(calls[c], op, row)
    BY <1>7, <2>1, RewritingIsUpdating
  <2>3. waiting \in Seq(Calls) /\ waiting # <<>> /\ waiting[1] = c
    BY <1>1 DEF TypesInv, QueueInv, Resumes
  <2>4. 1 \in DOMAIN waiting /\ \A j \in DOMAIN waiting : j > 1 => waiting[j] \in Calls
    BY <2>3
  <2>5. \A j \in DOMAIN waiting : j > 1 => waiting[j] # c
    BY <2>3, <2>4 DEF TypesInv, QueueInv
  <2>6. QED
    BY <2>1, <2>2, <2>3, <2>4, <2>5 DEF Latest
<1>8. SealedIsIssued'
  <2>1. ASSUME NEW n \in DOMAIN connections' \ Fragile, connections'[n].status # "revoked",
               ~(Rewriting("refresh", n))'
        PROVE  SealedIn(secrets', connections'[n].accessRef, connections'[n].token)
    <3>1. n \in DOMAIN connections \ Fragile /\ connections'[n].accessRef = connections[n].accessRef
      BY <1>1 DEF SameRefs
    <3>2. connections'[n].status = connections[n].status
      BY <3>1, RowsWritten DEF Rewritten
    <3>3. CASE Rewriting("refresh", n)
      <4>1. Latest(waiting, calls, c, "refresh", n)
        BY <1>7, <2>1, <3>3
      <4>2. SealedIn(secrets, connections[n].accessRef, calls[c].token)
        BY <3>1, <4>1 DEF SealedInv
      <4>3. connections'[n].token = calls[c].token
        BY <4>1, RowsWritten DEF Rewritten, Latest, Updating
      <4>4. QED
        BY <1>1, <3>1, <4>2, <4>3
    <3>4. CASE ~Rewriting("refresh", n)
      <4>1. SealedIn(secrets, connections[n].accessRef, connections[n].token)
        BY <2>1, <3>1, <3>2, <3>4 DEF SealedInv, SealedIsIssued, SealedIn
      <4>2. ~Updating(calls[c], "refresh", n)
        BY <3>4, RewritingIsUpdating
      <4>3. connections'[n].token = connections[n].token
        BY <1>1, <3>1, <4>2, RowsWritten DEF Rewritten, RowOf
      <4>4. QED
        BY <1>1, <3>1, <4>1, <4>3
    <3>5. QED
      BY <3>3, <3>4
  <2>2. ASSUME NEW p \in DOMAIN projects' \ Fragile, ~(Rewriting("rotate", p))'
        PROVE  SealedIn(secrets', projects'[p].ref, projects'[p].token)
    <3>1. p \in DOMAIN projects \ Fragile /\ projects'[p].ref = projects[p].ref
      BY <1>1 DEF SameRefs
    <3>2. CASE Rewriting("rotate", p)
      <4>1. Latest(waiting, calls, c, "rotate", p)
        BY <1>7, <2>2, <3>2
      <4>2. SealedIn(secrets, projects[p].ref, calls[c].token)
        BY <3>1, <4>1 DEF SealedInv
      <4>3. projects'[p].token = calls[c].token
        BY <4>1, RowsWritten DEF Rewritten, Latest, Updating
      <4>4. QED
        BY <1>1, <3>1, <4>2, <4>3
    <3>3. CASE ~Rewriting("rotate", p)
      <4>1. SealedIn(secrets, projects[p].ref, projects[p].token)
        BY <3>1, <3>3 DEF SealedInv, SealedIsIssued, SealedIn
      <4>2. ~Updating(calls[c], "rotate", p)
        BY <3>3, RewritingIsUpdating
      <4>3. projects'[p].token = projects[p].token
        BY <1>1, <3>1, <4>2, RowsWritten DEF Rewritten, RowOf
      <4>4. QED
        BY <1>1, <3>1, <4>1, <4>3
    <3>4. QED
      BY <3>2, <3>3
  <2>3. QED
    BY <2>1, <2>2 DEF SealedIsIssued, SealedIn
<1>9. QED
  BY <1>4, <1>5, <1>6, <1>8 DEF SealedInv

\* No row is about to be written: the calls were at no such step, or they died.
LEMMA SealedStill ==
  ASSUME SealedInv, OwnersInv, TypesInv, SameRefs,
         \A d \in Calls : ~Updates(calls'[d]),
         \A d \in Calls : calls'[d] = calls[d] \/ calls'[d] = Idle,
         \A d \in Calls : calls'[d] = calls[d] => \A r \in Held(calls[d]) : secrets'[r] = secrets[r],
         \A n \in DOMAIN connections \ Fragile :
           \/ connections'[n].status = "revoked"
           \/ /\ connections'[n].status = connections[n].status
              /\ connections'[n].token = connections[n].token
              /\ secrets'[connections[n].accessRef] = secrets[connections[n].accessRef]
              /\ ~Rewriting("refresh", n),
         \A p \in DOMAIN projects \ Fragile :
           /\ projects'[p].token = projects[p].token
           /\ secrets'[projects[p].ref] = secrets[projects[p].ref]
           /\ ~Rewriting("rotate", p)
  PROVE  SealedInv'
<1>1. \A d \in Calls : MintsHost(calls'[d]) /\ calls'[d].step # "access" =>
        SealedIn(secrets', calls'[d].accessRef, calls'[d].token)
  BY Ended, HeldRefs DEF SealedInv, SealedIn
<1>2. \A d \in Calls : calls'[d].op = "register" /\ calls'[d].step = "insert" =>
        SealedIn(secrets', calls'[d].ref, calls'[d].token)
  BY Ended, HeldRefs DEF SealedInv, SealedIn
<1>3. \A d \in Calls, op \in {"refresh", "rotate"} : \A row : ~Latest(waiting', calls', d, op, row)
  BY DEF Latest, Updating, Updates
<1>4. SealedIsIssued'
  <2>1. \A n \in DOMAIN connections' \ Fragile :
          \/ connections'[n].status = "revoked"
          \/ SealedIn(secrets', connections'[n].accessRef, connections'[n].token)
    BY DEF SealedInv, SealedIsIssued, SealedIn, SameRefs
  <2>2. \A p \in DOMAIN projects' \ Fragile :
          SealedIn(secrets', projects'[p].ref, projects'[p].token)
    BY DEF SealedInv, SealedIsIssued, SealedIn, SameRefs
  <2>3. QED
    BY <2>1, <2>2 DEF SealedIsIssued, SealedIn
<1>5. QED
  BY <1>1, <1>2, <1>3, <1>4 DEF SealedInv

LEMMA SealedMarks ==
  ASSUME SealedInv, OwnersInv, QueuedInv, TypesInv, NEW n \in DOMAIN connections, Marks(n)
  PROVE  SealedInv'
<1>1. /\ SameRefs /\ UNCHANGED projects
      /\ connections'[n].token = connections[n].token
      /\ \A m \in DOMAIN connections : m # n => connections'[m] = connections[m]
  BY RowsMarked DEF Marks
<1>2. CASE connections'[n].status = connections[n].status /\ UNCHANGED <<secrets, calls, waiting>>
  <2>1. \A m \in DOMAIN connections :
          connections'[m].token = connections[m].token /\ connections'[m].status = connections[m].status
    BY <1>1, <1>2
  <2>2. QED
    BY <1>1, <1>2, <2>1, SealedFrame
<1>3. CASE /\ Turn
           /\ connections'[n].status = "revoked"
           /\ \A r \in DOMAIN secrets : secrets'[r] = secrets[r] \/ r \in SecretsOf(n)
           /\ UNCHANGED calls \/ ProcessRestarts
  <2>1. \A d \in Calls : ~Updates(calls[d])
    BY <1>3, NoTurnBetween
  <2>2. \A op \in {"refresh", "rotate"} : \A row : ~Rewriting(op, row)
    BY <2>1, RewritingIsUpdating DEF Updating, Updates
  <2>3. \A d \in Calls : (calls'[d] = calls[d] \/ calls'[d] = Idle) /\ ~Updates(calls'[d])
    BY <1>3, <2>1 DEF ProcessRestarts, Updates, Idle
  <2>4. \A d \in Calls : \A r \in Held(calls[d]) : secrets'[r] = secrets[r]
    BY <1>3 DEF OwnersInv
  <2>5. \A m \in DOMAIN connections :
          m # n => secrets'[connections[m].accessRef] = secrets[connections[m].accessRef]
    BY <1>3, DistinctRefs DEF OwnersInv, TypesInv
  <2>6. \A p \in DOMAIN projects : secrets'[projects[p].ref] = secrets[projects[p].ref]
    BY <1>3 DEF OwnersInv, TypesInv
  <2>7. QED
    BY <1>1, <1>3, <2>2, <2>3, <2>4, <2>5, <2>6, SealedStill
<1>4. QED
  BY <1>2, <1>3, RowsMarked DEF Marks

LEMMA SealedRestart ==
  ASSUME SealedInv, OwnersInv, TypesInv, restart
  PROVE  SealedInv'
<1>1. /\ UNCHANGED <<secrets, connections, projects>>
      /\ \A c \in Calls : calls'[c] = Idle /\ Rewrites(c) \subseteq Fragile
  BY DEF restart, ProcessRestarts, hostVars, projectVars
<1>2. SameRefs /\ ~Updates(Idle)
  BY <1>1 DEF SameRefs, Updates, Idle
<1>3. \A op, row : row \notin Fragile => ~Rewriting(op, row)
  BY <1>1 DEF Rewriting
<1>4. QED
  BY <1>1, <1>2, <1>3, SealedStill

LEMMA SealedRead ==
  ASSUME SealedInv, TypesInv, NEW c \in Calls, readChecks(c), UNCHANGED hostVars
  PROVE  SealedInv'
<1>1. /\ SameRefs /\ UNCHANGED <<secrets, waiting, connections>>
      /\ \A p \in DOMAIN projects : projects'[p].token = projects[p].token
      /\ calls[c].op = "conformance" /\ calls'[c].op \in {"idle", "conformance"}
      /\ \A d \in Calls : d # c => calls'[d] = calls[d]
  BY ProjectRead
<1>2. \A op \in {"refresh", "rotate"} : \A row :
        ~Updating(calls[c], op, row) /\ ~Updating(calls'[c], op, row)
  BY <1>1 DEF Updating
<1>3. \A k \in DOMAIN waiting : waiting[k] \in Calls
  BY DEF TypesInv, QueueInv
<1>4. \A d \in Calls, op \in {"refresh", "rotate"} : \A row :
        Latest(waiting', calls', d, op, row) =>
          calls'[d] = calls[d] /\ Latest(waiting, calls, d, op, row)
  BY <1>1, <1>2, <1>3 DEF Latest
<1>5. ~Updates(calls[c]) /\ ~MintsHost(calls'[c]) /\ calls'[c].op # "register"
  BY <1>1 DEF Updates, MintsHost
<1>6. QED
  BY <1>1, <1>4, <1>5, SealedFrame

LEMMA SealedInvariance == AccessSpec => []SealedInv
<1>1. AccessInit => SealedInv
  <2> SUFFICES ASSUME AccessInit PROVE SealedInv
    OBVIOUS
  <2>1. calls = [c \in Calls |-> Idle] /\ DOMAIN connections = {} /\ DOMAIN projects = {}
    BY DEF AccessInit, CustodyInit, HostConnectionsInit, ConnectedProjectsInit
  <2>2. QED
    BY <2>1, Ended DEF SealedInv, SealedIsIssued
<1>2. TypesInv /\ OwnersInv /\ QueuedInv /\ SealedInv /\ [AccessNext]_accessVars => SealedInv'
  <2> SUFFICES ASSUME TypesInv, OwnersInv, QueuedInv, SealedInv, [AccessNext]_accessVars
               PROVE  SealedInv'
    OBVIOUS
  <2>1. CASE Quiet
    BY <2>1, SealedFrame DEF Quiet, SameRefs
  <2>2. ASSUME NEW c \in Calls, resolveToken(c), UNCHANGED hostVars PROVE SealedInv'
    <3>1. PICK call : AwaitNetwork(c, call) /\ (call = Idle \/ call.op = "conformance")
      BY <2>2, Resolves
    <3>2. ~Updates(call) /\ ~MintsHost(call) /\ call.op # "register"
      BY <3>1, Ended DEF Updates, MintsHost
    <3>3. Resumes(c) /\ ~Updates(calls[c]) /\ UNCHANGED <<secrets, connections, projects>>
      BY <2>2, Resolves DEF Updates, hostVars
    <3>4. QED
      BY <3>1, <3>2, <3>3, SealedMoves
  <2>3. QED
    BY <2>1, <2>2, StepCases, SealedRequests, SealedSeals, SealedReseals, SealedGrant,
       SealedRegister, SealedRewritten, SealedRead, SealedMarks, SealedRestart
<1>3. QED
  BY <1>1, <1>2, TypesInvariance, OwnersInvariance, QueuedInvariance, PTL DEF AccessSpec

\* Whatever overlaps, the token of a row that no call is about to write is the
\* token sealed for it (the rotation of the vault and the row on two sides of
\* an await, host-auth.ts:333 and projects.ts:179).
THEOREM SealedAsIssued == AccessSpec => []SealedIsIssued
<1>1. SealedInv => SealedIsIssued
  BY DEF SealedInv
<1>2. QED
  BY <1>1, SealedInvariance, PTL

-----------------------------------------------------------------------------
(* A host's token has one bearer *)

Carries(call) == MintsHost(call) \/ call.op = "refresh"

TokensInv ==
  /\ \A c \in Calls : Carries(calls[c]) => calls[c].token <= minted
  /\ \A n \in DOMAIN connections : connections[n].token <= minted
  /\ \A c, d \in Calls :
       Carries(calls[c]) /\ Carries(calls[d]) /\ calls[c].token = calls[d].token => c = d
  /\ \A c \in Calls, n \in DOMAIN connections :
       Carries(calls[c]) => calls[c].token # connections[n].token
  /\ \A m, n \in DOMAIN connections : connections[m].token = connections[n].token => m = n

\* Tokens that calls go on bearing, or drop.
LEMMA TokensFrame ==
  ASSUME TokensInv, UNCHANGED minted,
         DOMAIN connections' = DOMAIN connections,
         \A n \in DOMAIN connections : connections'[n].token = connections[n].token,
         \A d \in Calls : Carries(calls'[d]) =>
           Carries(calls[d]) /\ calls'[d].token = calls[d].token
  PROVE  TokensInv'
BY DEF TokensInv

LEMMA TokensRequests ==
  ASSUME TokensInv, TypesInv, NEW c \in Calls, Requests(c)
  PROVE  TokensInv'
<1>1. PICK call, k : /\ Begin(c, call, k) /\ k \in {0, 1, 2} /\ Opening(call)
                     /\ MintsHost(call) \/ call.op = "refresh" => k > 0
                     /\ UNCHANGED connections
  BY Begins
<1>2. calls'[c] = call /\ \A d \in Calls : d # c => calls'[d] = calls[d]
  BY <1>1, CallReplaced DEF Begin
<1>3. minted \in Nat /\ minted' = minted + k
  BY <1>1 DEF TypesInv, CustodyTypeOK, Begin
<1>4. Carries(call) => call.token = minted + 1 /\ k > 0
  BY <1>1 DEF Opening, Carries, MintsHost
<1>5. /\ \A d \in Calls : Carries(calls[d]) => calls[d].token \in Nat
      /\ \A n \in DOMAIN connections : connections[n].token \in Nat
  <2>1. \A n \in DOMAIN connections : connections[n] \in ConnectionRow
    BY DEF TypesInv, HostConnectionsTypeOK
  <2>2. ASSUME NEW d \in Calls, Carries(calls[d]) PROVE calls[d].token \in Nat
    <3>1. CASE MintsHost(calls[d])
      <4>1. calls[d] \in MintCall
        BY <3>1, HostCalls DEF MintsHost
      <4>2. QED
        BY <4>1 DEF MintCall, Tokens
    <3>2. CASE calls[d].op = "refresh"
      <4>1. calls[d] \in [op : {"refresh"}, step : {"rotate", "update"}, connection : Nat, token : Tokens]
        BY <3>2, HostCalls
      <4>2. QED
        BY <4>1 DEF Tokens
    <3>3. QED
      BY <2>2, <3>1, <3>2 DEF Carries
  <2>3. \A n \in DOMAIN connections : connections[n].token \in Tokens
    BY <2>1 DEF ConnectionRow
  <2>4. QED
    BY <2>2, <2>3 DEF Tokens
<1>6. /\ \A d \in Calls : d # c => calls'[d] = calls[d] /\ (Carries(calls'[d]) => calls'[d].token < minted + 1)
      /\ \A n \in DOMAIN connections : connections'[n].token < minted + 1
  BY <1>1, <1>2, <1>3, <1>5 DEF TokensInv
<1>7. \A d \in Calls : Carries(calls'[d]) => calls'[d].token <= minted'
  BY <1>1, <1>2, <1>3, <1>4, <1>5, <1>6
<1>8. \A n \in DOMAIN connections' : connections'[n].token <= minted'
  BY <1>1, <1>3, <1>5, <1>6
<1>9. \A d, e \in Calls : Carries(calls'[d]) /\ Carries(calls'[e]) /\ calls'[d].token = calls'[e].token => d = e
  BY <1>2, <1>3, <1>4, <1>6 DEF TokensInv
<1>10. \A d \in Calls, n \in DOMAIN connections' : Carries(calls'[d]) => calls'[d].token # connections'[n].token
  BY <1>1, <1>2, <1>3, <1>4, <1>6 DEF TokensInv
<1>11. QED
  BY <1>1, <1>7, <1>8, <1>9, <1>10 DEF TokensInv

LEMMA TokensGrant ==
  ASSUME TokensInv, TypesInv, NEW c \in Calls, insertConnection(c), UNCHANGED projectVars
  PROVE  TokensInv'
<1>0. PICK new : new = Len(connections) + 1
  OBVIOUS
<1>1. /\ AwaitNetwork(c, Idle) /\ UNCHANGED minted /\ Carries(calls[c])
      /\ DOMAIN connections' = DOMAIN connections \cup {new} /\ new \notin DOMAIN connections
      /\ \A n \in DOMAIN connections : connections'[n] = connections[n]
      /\ connections'[new].token = calls[c].token
  BY <1>0, ConnectionInserted DEF Carries
<1>2. calls'[c] = Idle /\ \A d \in Calls : d # c => calls'[d] = calls[d]
  BY <1>1, CallReplaced DEF AwaitNetwork
<1>3. ~Carries(Idle)
  BY Ended DEF Carries
<1>4. QED
  BY <1>1, <1>2, <1>3 DEF TokensInv

LEMMA TokensRewritten ==
  ASSUME TokensInv, TypesInv, NEW c \in Calls, Rewritten(c)
  PROVE  TokensInv'
<1>1. AwaitNetwork(c, Idle) /\ UNCHANGED minted /\ DOMAIN connections' = DOMAIN connections
  BY RowsWritten DEF Rewritten, SameRefs
<1>2. calls'[c] = Idle /\ \A d \in Calls : d # c => calls'[d] = calls[d]
  BY <1>1, CallReplaced DEF AwaitNetwork
<1>3. ~Carries(Idle)
  BY Ended DEF Carries
<1>4. CASE calls[c].op = "refresh"
  <2>1. PICK row \in DOMAIN connections :
          /\ connections'[row].token = calls[c].token
          /\ \A n \in DOMAIN connections : n # row => connections'[n] = connections[n]
    BY <1>4, RowsWritten DEF Rewritten
  <2>2. Carries(calls[c])
    BY <1>4 DEF Carries
  <2>3. \A n \in DOMAIN connections : connections'[n].token =
          IF n = row THEN calls[c].token ELSE connections[n].token
    BY <2>1
  <2>4. QED
    BY <1>1, <1>2, <1>3, <2>2, <2>3 DEF TokensInv
<1>5. CASE calls[c].op # "refresh"
  BY <1>1, <1>2, <1>3, <1>5, TokensFrame, RowsWritten DEF Rewritten
<1>6. QED
  BY <1>4, <1>5

LEMMA TokensInvariance == AccessSpec => []TokensInv
<1>1. AccessInit => TokensInv
  <2> SUFFICES ASSUME AccessInit PROVE TokensInv
    OBVIOUS
  <2>1. calls = [c \in Calls |-> Idle] /\ DOMAIN connections = {} /\ ~Carries(Idle)
    BY Ended DEF AccessInit, CustodyInit, HostConnectionsInit, Carries
  <2>2. QED
    BY <2>1 DEF TokensInv
<1>2. TypesInv /\ TokensInv /\ [AccessNext]_accessVars => TokensInv'
  <2> SUFFICES ASSUME TypesInv, TokensInv, [AccessNext]_accessVars PROVE TokensInv'
    OBVIOUS
  <2>1. ~Carries(Idle)
    BY Ended DEF Carries
  <2>2. CASE Quiet
    BY <2>2, TokensFrame DEF Quiet
  <2>3. ASSUME NEW c \in Calls, NEW call, AwaitNetwork(c, call) \/ Await(c, call),
               Carries(call) => Carries(calls[c]) /\ call.token = calls[c].token,
               UNCHANGED <<minted, connections>>
        PROVE  TokensInv'
    <3>1. calls'[c] = call /\ \A d \in Calls : d # c => calls'[d] = calls[d]
      BY <2>3, CallReplaced DEF AwaitNetwork, Await
    <3>2. QED
      BY <2>3, <3>1, TokensFrame
  <2>4. ASSUME NEW c \in Calls, Seals(c) PROVE TokensInv'
    <3>1. UNCHANGED <<minted, connections>>
      BY <2>4, Stores DEF Seals, hostVars
    <3>2. ASSUME NEW stored, NEW token, Await(c, stored), Stored(calls[c], stored, token, Len(secrets) + 1)
          PROVE  TokensInv'
      <4>1. Carries(stored) => Carries(calls[c]) /\ stored.token = calls[c].token
        BY <3>2 DEF Stored, Carries, MintsHost
      <4>2. QED
        BY <2>3, <3>1, <3>2, <4>1
    <3>3. QED
      BY <2>1, <2>3, <2>4, <3>1, <3>2, Stores DEF Seals
  <2>5. ASSUME NEW c \in Calls, Reseals(c) PROVE TokensInv'
    <3>1. UNCHANGED <<minted, connections>> /\ calls[c].op \in {"refresh", "rotate"}
      BY <2>5, Rotates DEF Reseals, hostVars
    <3>2. ASSUME NEW rotated, Await(c, rotated), rotated.op = calls[c].op, rotated.token = calls[c].token
          PROVE  TokensInv'
      <4>1. Carries(rotated) => Carries(calls[c])
        BY <3>2 DEF Carries, MintsHost
      <4>2. QED
        BY <2>3, <3>1, <3>2, <4>1
    <3>3. QED
      BY <2>1, <2>3, <2>5, <3>1, <3>2, Rotates DEF Reseals, Updating
  <2>6. ASSUME NEW c \in Calls, resolveToken(c), UNCHANGED hostVars PROVE TokensInv'
    <3>1. PICK call : AwaitNetwork(c, call) /\ (call = Idle \/ call.op = "conformance")
      BY <2>6, Resolves
    <3>2. ~Carries(call) /\ UNCHANGED <<minted, connections>>
      BY <2>1, <2>6, <3>1, Resolves DEF Carries, MintsHost, hostVars
    <3>3. QED
      BY <2>3, <3>1, <3>2
  <2>7. ASSUME NEW c \in Calls, insertProject(c), UNCHANGED hostVars PROVE TokensInv'
    <3>1. ~Carries(RunConformance(Len(projects) + 1))
      BY DEF RunConformance, Carries, MintsHost
    <3>2. UNCHANGED <<minted, connections>>
      BY <2>7, ProjectInserted
    <3>3. QED
      BY <2>1, <2>3, <2>7, <3>1, <3>2, ProjectInserted
  <2>8. ASSUME NEW c \in Calls, readChecks(c), UNCHANGED hostVars PROVE TokensInv'
    <3>1. UNCHANGED <<minted, connections>> /\ calls'[c].op \in {"idle", "conformance"}
          /\ \A d \in Calls : d # c => calls'[d] = calls[d]
      BY <2>8, ProjectRead
    <3>2. ~Carries(calls'[c])
      BY <3>1 DEF Carries, MintsHost
    <3>3. QED
      BY <3>1, <3>2, TokensFrame
  <2>9. ASSUME NEW n \in DOMAIN connections, Marks(n) PROVE TokensInv'
    <3>1. /\ DOMAIN connections' = DOMAIN connections /\ UNCHANGED minted
          /\ \A m \in DOMAIN connections : connections'[m].token = connections[m].token
          /\ UNCHANGED calls \/ ProcessRestarts
      BY <2>9, RowsMarked DEF Marks, SameRefs
    <3>2. QED
      BY <2>1, <3>1, TokensFrame DEF ProcessRestarts
  <2>10. CASE restart
    BY <2>1, <2>10, TokensFrame DEF restart, ProcessRestarts, hostVars
  <2>11. QED
    BY <2>2, <2>4, <2>5, <2>6, <2>7, <2>8, <2>9, <2>10, StepCases, TokensRequests, TokensGrant,
       TokensRewritten
<1>3. QED
  BY <1>1, <1>2, TypesInvariance, PTL DEF AccessSpec

-----------------------------------------------------------------------------
(* What is revoked is closed *)

Gone == [status |-> "revoked", token |-> Wiped]

\* A refresh that has yet to write the vault finds an active row or a wiped
\* secret, and one that has written it still finds an active row.
ClosedInv ==
  /\ \A c \in Calls : calls[c].op = "refresh" /\ calls[c].step = "rotate" =>
       \/ connections[calls[c].connection].status = "active"
       \/ secrets[connections[calls[c].connection].accessRef].status = "revoked"
  /\ \A c \in Calls : calls[c].op = "refresh" /\ calls[c].step = "update" =>
       connections[calls[c].connection].status = "active"
  /\ \A n \in DOMAIN connections \ Fragile :
       connections[n].status = "revoked" => \A r \in SecretsOf(n) : secrets[r] = Gone

LEMMA GoneIsRevoked == Gone.status = "revoked"
BY DEF Gone

\* Every reference is one of the vault.
LEMMA RefsExist ==
  ASSUME TypesInv, NEW n \in DOMAIN connections
  PROVE  SecretsOf(n) \subseteq DOMAIN secrets
BY DEF TypesInv, SecretsOf

\* No row of a connection changes its status, no revoked secret changes, and
\* what becomes of a call that refreshes is such a call.
LEMMA ClosedFrame ==
  ASSUME ClosedInv, TypesInv,
         DOMAIN connections \subseteq DOMAIN connections',
         \A n \in DOMAIN connections :
           /\ connections'[n].status = connections[n].status
           /\ connections'[n].accessRef = connections[n].accessRef
           /\ connections'[n].refreshRef = connections[n].refreshRef,
         \A n \in DOMAIN connections' : n \notin DOMAIN connections => connections'[n].status = "active",
         \A r \in DOMAIN secrets : secrets[r].status = "revoked" => secrets'[r] = secrets[r],
         \A d \in Calls : calls'[d].op = "refresh" =>
           \/ calls'[d] = calls[d]
           \/ connections[calls'[d].connection].status = "active" /\ calls'[d].connection \in DOMAIN connections
  PROVE  ClosedInv'
<1>1. \A d \in Calls : calls[d].op = "refresh" =>
        /\ calls[d].connection \in DOMAIN connections
        /\ connections[calls[d].connection].accessRef \in DOMAIN secrets
  BY DEF TypesInv, Fits
<1>2. \A d \in Calls : calls'[d].op = "refresh" /\ calls'[d].step = "rotate" =>
        \/ connections'[calls'[d].connection].status = "active"
        \/ secrets'[connections'[calls'[d].connection].accessRef].status = "revoked"
  BY <1>1 DEF ClosedInv
<1>3. \A d \in Calls : calls'[d].op = "refresh" /\ calls'[d].step = "update" =>
        connections'[calls'[d].connection].status = "active"
  BY <1>1 DEF ClosedInv
<1>4. ASSUME NEW n \in DOMAIN connections' \ Fragile, connections'[n].status = "revoked"
      PROVE  \A r \in (SecretsOf(n))' : secrets'[r] = Gone
  <2>1. n \in DOMAIN connections /\ connections[n].status = "revoked" /\ (SecretsOf(n))' = SecretsOf(n)
    BY <1>4 DEF SecretsOf
  <2>2. \A r \in SecretsOf(n) : secrets[r] = Gone /\ r \in DOMAIN secrets
    BY <1>4, <2>1, RefsExist DEF ClosedInv
  <2>3. QED
    BY <2>1, <2>2, GoneIsRevoked
<1>5. QED
  BY <1>2, <1>3, <1>4 DEF ClosedInv

LEMMA ClosedRequests ==
  ASSUME ClosedInv, TypesInv, TypesInv', NEW c \in Calls, Requests(c)
  PROVE  ClosedInv'
<1>1. PICK call, k : Begin(c, call, k) /\ Opening(call) /\ UNCHANGED <<secrets, connections, projects>>
  BY Begins
<1>2. calls'[c] = call /\ \A d \in Calls : d # c => calls'[d] = calls[d]
  BY <1>1, CallReplaced DEF Begin
<1>3. calls'[c].op = "refresh" => calls'[c].connection \in DOMAIN connections'
  BY DEF TypesInv, Fits
<1>4. call.op = "refresh" =>
        connections[call.connection].status = "active" /\ call.connection \in DOMAIN connections
  BY <1>1, <1>2, <1>3 DEF Opening, MintsHost
<1>5. QED
  BY <1>1, <1>2, <1>4, ClosedFrame

LEMMA ClosedReseals ==
  ASSUME ClosedInv, TypesInv, NEW c \in Calls, Reseals(c)
  PROVE  ClosedInv'
<1>1. UNCHANGED connections /\ calls[c].op \in {"refresh", "rotate"} /\ Resumes(c)
  BY Rotates DEF Reseals, hostVars
<1>2. CASE UNCHANGED secrets /\ AwaitNetwork(c, Idle)
  <2>1. calls'[c] = Idle /\ \A d \in Calls : d # c => calls'[d] = calls[d]
    BY <1>2, CallReplaced DEF AwaitNetwork
  <2>2. calls'[c].op # "refresh"
    BY <2>1, Ended
  <2>3. QED
    BY <1>1, <1>2, <2>1, <2>2, ClosedFrame
<1>3. ASSUME NEW rotated, Await(c, rotated),
             Updating(rotated, calls[c].op, RowOf(calls[c])),
             NEW ref, ref = RefOf(calls[c].op, RowOf(calls[c])), Usable(ref), ref \in DOMAIN secrets,
             secrets' = [secrets EXCEPT ![ref].token = calls[c].token]
      PROVE  ClosedInv'
  <2>1. calls'[c] = rotated /\ \A d \in Calls : d # c => calls'[d] = calls[d]
    BY <1>3, CallReplaced DEF Await
  <2>2. secrets[ref].status = "active"
    BY <1>3 DEF Usable
  <2>3. \A r \in DOMAIN secrets : secrets[r].status = "revoked" => secrets'[r] = secrets[r]
    BY <1>3, <2>2
  <2>4. calls[c].op = "refresh" =>
          /\ calls[c].connection \in DOMAIN connections
          /\ connections[calls[c].connection].status = "active"
    <3>1. SUFFICES ASSUME calls[c].op = "refresh"
                   PROVE  /\ calls[c].connection \in DOMAIN connections
                          /\ connections[calls[c].connection].status = "active"
      OBVIOUS
    <3>2. calls[c].step = "rotate" /\ calls[c].connection \in DOMAIN connections
      BY <3>1, Rotates DEF Reseals
    <3>3. ref = connections[calls[c].connection].accessRef
      BY <1>3, <3>1 DEF RefOf, RowOf
    <3>4. QED
      BY <2>2, <3>1, <3>2, <3>3 DEF ClosedInv
  <2>5. rotated.op = "refresh" => calls[c].op = "refresh" /\ rotated.connection = calls[c].connection
    BY <1>3 DEF Updating, RowOf
  <2>6. QED
    BY <1>1, <2>1, <2>3, <2>4, <2>5, ClosedFrame
<1>4. QED
  <2>1. PICK ref : ref = RefOf(calls[c].op, RowOf(calls[c]))
    OBVIOUS
  <2>2. ref \in DOMAIN secrets
    BY <2>1, Rotates DEF Reseals
  <2>3. QED
    BY <1>2, <1>3, <2>1, <2>2, Rotates DEF Reseals

\* A revocation comes when no refresh is about to write its row.
LEMMA ClosedMarks ==
  ASSUME ClosedInv, QueuedInv, TypesInv, NEW n \in DOMAIN connections, Marks(n)
  PROVE  ClosedInv'
<1>1. /\ SameRefs
      /\ \A m \in DOMAIN connections : m # n => connections'[m] = connections[m]
  BY RowsMarked DEF Marks
<1>2. CASE connections'[n].status = connections[n].status /\ UNCHANGED <<secrets, calls>>
  <2>1. \A m \in DOMAIN connections : connections'[m].status = connections[m].status
    BY <1>1, <1>2
  <2>2. QED
    BY <1>1, <1>2, <2>1, ClosedFrame DEF SameRefs
<1>3. CASE /\ Turn
           /\ connections'[n].status = "revoked"
           /\ \A r \in DOMAIN secrets : secrets'[r] = secrets[r] \/ (r \in SecretsOf(n) /\ secrets'[r] = Gone)
           /\ \/ UNCHANGED calls /\ \A r \in SecretsOf(n) : r \in DOMAIN secrets => secrets'[r] = Gone
              \/ n \in Fragile /\ ProcessRestarts
  <2>1. \A d \in Calls : ~Updates(calls'[d])
    BY <1>3, NoTurnBetween DEF ProcessRestarts, Updates, Idle
  <2>2. \A d \in Calls : ~(calls'[d].op = "refresh" /\ calls'[d].step = "update")
    BY <2>1 DEF Updates
  <2>3. ASSUME NEW d \in Calls, calls'[d].op = "refresh", calls'[d].step = "rotate"
        PROVE  \/ connections'[calls'[d].connection].status = "active"
               \/ secrets'[connections'[calls'[d].connection].accessRef].status = "revoked"
    <3>1. UNCHANGED calls /\ \A r \in SecretsOf(n) : r \in DOMAIN secrets => secrets'[r] = Gone
      BY <1>3, <2>3 DEF ProcessRestarts, Idle
    <3>2. /\ calls[d].connection \in DOMAIN connections
          /\ connections[calls[d].connection].accessRef \in DOMAIN secrets
      BY <2>3, <3>1 DEF TypesInv, Fits
    <3>3. CASE calls[d].connection = n
      <4>1. connections[n].accessRef \in SecretsOf(n)
        <5>1. \A r \in DOMAIN secrets : r # None
          BY DEF TypesInv, CustodyTypeOK, None
        <5>2. QED
          BY <3>2, <3>3, <5>1 DEF SecretsOf
      <4>2. QED
        BY <1>1, <3>1, <3>2, <3>3, <4>1, GoneIsRevoked DEF SameRefs
    <3>4. CASE calls[d].connection # n
      BY <1>1, <1>3, <2>3, <3>1, <3>2, <3>4, GoneIsRevoked DEF ClosedInv
    <3>5. QED
      BY <3>3, <3>4
  <2>4. ASSUME NEW m \in DOMAIN connections' \ Fragile, connections'[m].status = "revoked"
        PROVE  \A r \in (SecretsOf(m))' : secrets'[r] = Gone
    <3>1. m \in DOMAIN connections /\ (SecretsOf(m))' = SecretsOf(m) /\ SecretsOf(m) \subseteq DOMAIN secrets
      BY <1>1, RefsExist DEF SameRefs, SecretsOf
    <3>2. CASE m = n
      BY <1>3, <2>4, <3>1, <3>2
    <3>3. CASE m # n
      <4>1. \A r \in SecretsOf(m) : secrets[r] = Gone
        BY <1>1, <2>4, <3>1, <3>3 DEF ClosedInv
      <4>2. QED
        BY <1>3, <3>1, <4>1
    <3>4. QED
      BY <3>2, <3>3
  <2>5. QED
    BY <2>2, <2>3, <2>4 DEF ClosedInv
<1>4. QED
  BY <1>2, <1>3, RowsMarked DEF Marks, Gone

LEMMA ClosedInvariance == AccessSpec => []ClosedInv
<1>1. AccessInit => ClosedInv
  <2> SUFFICES ASSUME AccessInit PROVE ClosedInv
    OBVIOUS
  <2>1. calls = [c \in Calls |-> Idle] /\ DOMAIN connections = {}
    BY DEF AccessInit, CustodyInit, HostConnectionsInit
  <2>2. QED
    BY <2>1, Ended DEF ClosedInv
<1>2. TypesInv /\ TypesInv' /\ QueuedInv /\ ClosedInv /\ [AccessNext]_accessVars => ClosedInv'
  <2> SUFFICES ASSUME TypesInv, TypesInv', QueuedInv, ClosedInv, [AccessNext]_accessVars
               PROVE  ClosedInv'
    OBVIOUS
  <2>1. CASE Quiet
    BY <2>1, ClosedFrame DEF Quiet
  <2>2. ASSUME NEW c \in Calls, NEW call, AwaitNetwork(c, call) \/ Await(c, call), call.op # "refresh",
               UNCHANGED connections,
               \A r \in DOMAIN secrets : secrets'[r] = secrets[r]
        PROVE  ClosedInv'
    <3>1. calls'[c] = call /\ \A d \in Calls : d # c => calls'[d] = calls[d]
      BY <2>2, CallReplaced DEF AwaitNetwork, Await
    <3>2. QED
      BY <2>2, <3>1, ClosedFrame
  <2>3. ASSUME NEW c \in Calls, Seals(c) PROVE ClosedInv'
    <3>1. UNCHANGED connections /\ secrets \in Seq(SecretRow)
      BY <2>3 DEF Seals, hostVars, TypesInv, CustodyTypeOK
    <3>2. ASSUME NEW stored, NEW token \in Tokens, Await(c, stored),
                 Stored(calls[c], stored, token, Len(secrets) + 1),
                 secrets' = Append(secrets, [status |-> "active", token |-> token])
          PROVE  ClosedInv'
      <4>1. \A r \in DOMAIN secrets : secrets'[r] = secrets[r]
        BY <3>1, <3>2
      <4>2. stored.op # "refresh"
        BY <3>2 DEF Stored, MintsHost
      <4>3. QED
        BY <2>2, <3>1, <3>2, <4>1, <4>2
    <3>3. QED
      BY <2>2, <2>3, <3>1, <3>2, Ended, Stores DEF Seals
  <2>4. ASSUME NEW c \in Calls, resolveToken(c), UNCHANGED hostVars PROVE ClosedInv'
    <3>1. PICK call : AwaitNetwork(c, call) /\ (call = Idle \/ call.op = "conformance")
      BY <2>4, Resolves
    <3>2. call.op # "refresh" /\ UNCHANGED <<secrets, connections>>
      BY <2>4, <3>1, Ended, Resolves DEF hostVars
    <3>3. QED
      BY <2>2, <3>1, <3>2
  <2>5. ASSUME NEW c \in Calls, insertConnection(c), UNCHANGED projectVars PROVE ClosedInv'
    <3>1. PICK new : new = Len(connections) + 1
      OBVIOUS
    <3>2. /\ AwaitNetwork(c, Idle) /\ UNCHANGED secrets
          /\ DOMAIN connections' = DOMAIN connections \cup {new}
          /\ \A n \in DOMAIN connections : connections'[n] = connections[n]
          /\ connections'[new].status = "active"
      BY <2>5, <3>1, ConnectionInserted
    <3>3. calls'[c] = Idle /\ \A d \in Calls : d # c => calls'[d] = calls[d]
      BY <3>2, CallReplaced DEF AwaitNetwork
    <3>4. QED
      BY <3>2, <3>3, Ended, ClosedFrame
  <2>6. ASSUME NEW c \in Calls, insertProject(c), UNCHANGED hostVars PROVE ClosedInv'
    <3>1. RunConformance(Len(projects) + 1).op # "refresh"
      BY DEF RunConformance
    <3>2. UNCHANGED <<secrets, connections>>
      BY <2>6, ProjectInserted
    <3>3. QED
      BY <2>2, <2>6, <3>1, <3>2, Ended, ProjectInserted
  <2>7. ASSUME NEW c \in Calls, Rewritten(c) PROVE ClosedInv'
    <3>1. SameRefs /\ AwaitNetwork(c, Idle) /\ UNCHANGED secrets
          /\ \A n \in DOMAIN connections : connections'[n].status = connections[n].status
      BY <2>7, RowsWritten DEF Rewritten
    <3>2. calls'[c] = Idle /\ \A d \in Calls : d # c => calls'[d] = calls[d]
      BY <3>1, CallReplaced DEF AwaitNetwork
    <3>3. QED
      BY <3>1, <3>2, Ended, ClosedFrame DEF SameRefs
  <2>8. ASSUME NEW c \in Calls, readChecks(c), UNCHANGED hostVars PROVE ClosedInv'
    <3>1. UNCHANGED <<secrets, connections>> /\ calls'[c].op \in {"idle", "conformance"}
          /\ \A d \in Calls : d # c => calls'[d] = calls[d]
      BY <2>8, ProjectRead
    <3>2. QED
      BY <3>1, ClosedFrame
  <2>9. CASE restart
    <3>1. UNCHANGED <<secrets, connections>> /\ \A d \in Calls : calls'[d] = Idle
      BY <2>9 DEF restart, ProcessRestarts, hostVars
    <3>2. QED
      BY <3>1, Ended, ClosedFrame
  <2>10. QED
    BY <2>1, <2>3, <2>4, <2>5, <2>6, <2>7, <2>8, <2>9, StepCases, ClosedRequests, ClosedReseals, ClosedMarks
<1>3. QED
  BY <1>1, <1>2, TypesInvariance, QueuedInvariance, PTL DEF AccessSpec

LEMMA RevokedRowStays ==
  ASSUME ClosedInv, TypesInv, [AccessNext]_accessVars,
         NEW n \in DOMAIN connections, connections[n].status = "revoked"
  PROVE  /\ n \in DOMAIN connections'
         /\ connections'[n].status = "revoked"
         /\ connections'[n].token = connections[n].token
         /\ connections'[n].accessRef = connections[n].accessRef
         /\ connections'[n].refreshRef = connections[n].refreshRef
<1> DEFINE Stays == /\ n \in DOMAIN connections'
                    /\ connections'[n].status = "revoked"
                    /\ connections'[n].token = connections[n].token
                    /\ connections'[n].accessRef = connections[n].accessRef
                    /\ connections'[n].refreshRef = connections[n].refreshRef
<1>1. UNCHANGED connections => Stays
  OBVIOUS
<1>2. CASE Quiet \/ restart
  BY <1>1, <1>2 DEF Quiet, restart, hostVars
<1>3. ASSUME NEW c \in Calls, Requests(c) \/ Seals(c) \/ Reseals(c) PROVE Stays
  BY <1>1, <1>3, Begins DEF Seals, Reseals, hostVars
<1>4. ASSUME NEW c \in Calls, UNCHANGED hostVars PROVE Stays
  BY <1>1, <1>4 DEF hostVars
<1>5. ASSUME NEW c \in Calls, insertConnection(c), UNCHANGED projectVars PROVE Stays
  <2>1. n \in DOMAIN connections' /\ connections'[n] = connections[n]
    BY <1>5, ConnectionInserted
  <2>2. QED
    BY <2>1
<1>6. ASSUME NEW c \in Calls, Rewritten(c) PROVE Stays
  <2>1. CASE calls[c].op = "refresh"
    <3>1. calls[c].step = "update"
      BY <1>6, RowsWritten DEF Rewritten, Updating
    <3>2. connections[calls[c].connection].status = "active"
      BY <2>1, <3>1 DEF ClosedInv
    <3>3. connections'[n] = connections[n] /\ n \in DOMAIN connections'
      BY <1>6, <2>1, <3>2, RowsWritten DEF Rewritten, SameRefs
    <3>4. QED
      BY <3>3
  <2>2. CASE calls[c].op # "refresh"
    BY <1>1, <1>6, <2>2, RowsWritten DEF Rewritten
  <2>3. QED
    BY <2>1, <2>2
<1>7. ASSUME NEW m \in DOMAIN connections, Marks(m) PROVE Stays
  <2>1. /\ SameRefs /\ connections'[m].token = connections[m].token
        /\ connections'[m].status \in {connections[m].status, "revoked"}
        /\ m # n => connections'[n] = connections[n]
    BY <1>7, RowsMarked DEF Marks
  <2>2. QED
    BY <2>1 DEF SameRefs
<1>8. QED
  BY <1>2, <1>3, <1>4, <1>5, <1>6, <1>7, StepCases

\* A connection that was revoked is given no token, verifies none, and has its
\* secrets wiped, whichever refreshes were under way (the UPDATE of a refresh
\* looks at no status, host-auth.ts:338).
THEOREM RevokedStaysClosed == AccessSpec => RevokedIsClosed
<1> DEFINE Closes ==
      \A n \in DOMAIN connections : connections[n].status = "revoked" =>
        /\ connections'[n].status = "revoked"
        /\ connections'[n].token = connections[n].token
        /\ ~Verifies(connections[n].token)
        /\ n \notin Fragile =>
             \A r \in SecretsOf(n) : secrets'[r] = [status |-> "revoked", token |-> Wiped]
<1>1. TypesInv /\ TokensInv /\ ClosedInv /\ ClosedInv' /\ [AccessNext]_accessVars => Closes
  <2> SUFFICES ASSUME TypesInv, TokensInv, ClosedInv, ClosedInv', [AccessNext]_accessVars,
                      NEW n \in DOMAIN connections, connections[n].status = "revoked"
               PROVE  /\ connections'[n].status = "revoked"
                      /\ connections'[n].token = connections[n].token
                      /\ ~Verifies(connections[n].token)
                      /\ n \notin Fragile =>
                           \A r \in SecretsOf(n) : secrets'[r] = [status |-> "revoked", token |-> Wiped]
    OBVIOUS
  <2>1. ~Verifies(connections[n].token)
    BY DEF Verifies, TokensInv
  <2>2. n \notin Fragile => \A r \in (SecretsOf(n))' : secrets'[r] = Gone
    BY RevokedRowStays DEF ClosedInv
  <2>3. (SecretsOf(n))' = SecretsOf(n)
    BY RevokedRowStays DEF SecretsOf
  <2>4. QED
    BY <2>1, <2>2, <2>3, RevokedRowStays DEF Gone
<1>2. QED
  BY <1>1, TypesInvariance, TokensInvariance, ClosedInvariance, PTL DEF AccessSpec, RevokedIsClosed
=============================================================================
