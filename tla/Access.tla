------------------------------- MODULE Access -------------------------------
(***************************************************************************)
(* Who may use the system and what it may use: the Operator's sessions,    *)
(* the Host Connections consented to in one, and the Connected Projects    *)
(* registered in one, over one vault and one event loop.                   *)
(*                                                                         *)
(* The operator routes (host-auth-routes.ts, project-routes.ts) serve a    *)
(* request only in a live session; a host's requests need none.            *)
(***************************************************************************)
EXTENDS OperatorAuth, HostConnections, ConnectedProjects

CONSTANT MaxDrawn \* bound on the product of challenges and tokens drawn

ASSUME AccessAssumption == MaxDrawn \in Nat

accessVars == <<authVars, custodyVars, hostVars, projectVars>>

-----------------------------------------------------------------------------
AccessTypeOK ==
  /\ OperatorAuthTypeOK
  /\ CustodyTypeOK
  /\ HostConnectionsTypeOK
  /\ ConnectedProjectsTypeOK
  /\ calls \in [Calls -> {Idle} \cup HostCall \cup ProjectCall]

AccessInit ==
  /\ OperatorAuthInit
  /\ CustodyInit
  /\ HostConnectionsInit
  /\ ConnectedProjectsInit

\* The requests of the Operator.
OperatorRequests ==
  /\ Authenticated
  /\ UNCHANGED authVars
  /\ \/ /\ \/ \E client \in Clients : authorize(client)
           \/ \E n \in DOMAIN connections : revokeHostConnection(n)
           \/ \E c \in Calls : mintStaticHostToken(c)
        /\ UNCHANGED projectVars
     \/ /\ \E c \in Calls :
             \/ \E d \in Domains : registerProject(c, d)
             \/ \E p \in DOMAIN projects : runConformanceFor(c, p) \/ rotateProjectToken(c, p)
        /\ UNCHANGED hostVars

\* The requests of hosts, which hold codes and tokens.
HostRequests ==
  /\ UNCHANGED <<authVars, projectVars>>
  /\ \/ \E c \in Calls, m \in DOMAIN codes, client \in Clients :
          exchangeAuthorizationCode(c, m, client)
     \/ \E c \in Calls, n \in DOMAIN connections : exchangeRefreshToken(c, n)
     \/ \E n \in DOMAIN connections : revokeToken(n)

Elapses ==
  /\ UNCHANGED <<authVars, projectVars>>
  /\ \/ \E m \in DOMAIN codes : codeExpires(m)
     \/ \E n \in DOMAIN connections : accessExpires(n)

Steps(c) ==
  /\ UNCHANGED authVars
  /\ \/ HostSteps(c) /\ UNCHANGED projectVars
     \/ ProjectSteps(c) /\ UNCHANGED hostVars

DomainSteps ==
  /\ UNCHANGED <<authVars, hostVars>>
  /\ \E d \in Domains : domainChanges(d) \/ installToken(d)

\* The row a refresh or a rotation is about to write, the vault being written.
Rewrites(c) ==
  CASE calls[c].op = "refresh" /\ calls[c].step = "update" -> {calls[c].connection}
    [] calls[c].op = "rotate" /\ calls[c].step = "update"  -> {calls[c].project}
    [] OTHER -> {}

\* A new process.  It loses half a refresh or rotation of Fragile rows only.
restart ==
  /\ \A c \in Calls : Rewrites(c) \subseteq Fragile
  /\ ProcessRestarts
  /\ AuthRestarts
  /\ UNCHANGED <<secrets, hostVars, projectVars>>

diesInRevocation ==
  /\ AuthRestarts
  /\ \E n \in DOMAIN connections : revocationCutShort(n)
  /\ UNCHANGED projectVars

AccessNext ==
  /\ \/ Turn /\ OperatorAuthNext /\ UNCHANGED <<custodyVars, hostVars, projectVars>>
     \/ libsodiumLoads /\ UNCHANGED <<authVars, hostVars, projectVars>>
     \/ OperatorRequests
     \/ HostRequests
     \/ Elapses
     \/ \E c \in Calls : Steps(c)
     \/ DomainSteps
     \/ restart
     \/ diesInRevocation
  /\ issued' * minted' <= MaxDrawn

AccessSpec == AccessInit /\ [][AccessNext]_accessVars

-----------------------------------------------------------------------------
(* Properties *)

Rewriting(op, row) == \E c \in Calls : calls[c].op = op /\ row \in Rewrites(c)

\* The token a row verifies is the token the vault holds for it, though each
\* is written on its own side of an await and refreshes and rotations overlap:
\* an active connection's (host-auth.ts:333) and a project's (projects.ts:179).
SealedIsIssued ==
  /\ \A n \in DOMAIN connections \ Fragile :
       \/ connections[n].status = "revoked"
       \/ Rewriting("refresh", n)
       \/ secrets[connections[n].accessRef] = [status |-> "active", token |-> connections[n].token]
  /\ \A p \in DOMAIN projects \ Fragile :
       \/ Rewriting("rotate", p)
       \/ secrets[projects[p].ref] = [status |-> "active", token |-> projects[p].token]
=============================================================================
