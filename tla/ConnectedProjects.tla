-------------------------- MODULE ConnectedProjects --------------------------
(***************************************************************************)
(* Connected Projects (server/projects.ts): registration, the conformance  *)
(* run that decides a project's health and the rotation of its service     *)
(* token.  The token is sealed in the vault and its hash is in the row, in *)
(* writes the vault's await separates; a conformance run reads the domain  *)
(* check by check, and the domain may change between any two of them.      *)
(***************************************************************************)
EXTENDS Custody, ProjectDomain, SequencesExt

CONSTANTS
  Domains,        \* base URLs
  InProcess,      \* those the dev stub serves, which know every row's token
  Behaviours,     \* domain -> what it may answer
  Order           \* the checks of Suite in the order they run, in groups
                  \* within which a domain is taken not to change

ASSUME ConnectedProjectsAssumption ==
  /\ InProcess \subseteq Domains
  /\ Order \in Seq(SUBSET Suite) \ {<<>>}
  /\ UNION ToSet(Order) = Suite

VARIABLES
  projects,       \* the projects table
  behaviour,      \* external: what a domain answers now
  installed       \* external: the token a domain verifies, set by hand

domainVars == <<behaviour, installed>>
projectVars == <<projects, domainVars>>

-----------------------------------------------------------------------------
ProjectRow == [domain : Domains, token : Tokens, ref : References, healthy : BOOLEAN]

ProjectCall ==
  [op : {"register"}, step : {"store", "insert"}, domain : Domains, token : Tokens, ref : Nat]
  \cup [op : {"conformance"}, step : {"resolve"}, project : Nat]
  \cup [op : {"conformance"}, step : {"check"}, project : Nat, token : Tokens,
        todo : Seq(SUBSET Suite) \ {<<>>}, passed : BOOLEAN]
  \cup [op : {"rotate"}, step : {"rotate", "update"}, project : Nat, token : Tokens]

\* What the domains may answer.
Meanings ==
  {b \in [Domains -> UNION {Behaviours[d] : d \in Domains}] :
     \A d \in Domains : b[d] \in Behaviours[d]}

ConnectedProjectsTypeOK ==
  /\ projects \in Seq(ProjectRow)
  /\ behaviour \in Meanings
  /\ installed \in [Domains -> 0 .. MaxTokens]

ConnectedProjectsInit ==
  /\ projects = <<>>
  /\ behaviour \in Meanings
  /\ installed = [d \in Domains |-> 0]

Serving(c, op, step) == calls[c].op = op /\ calls[c].step = step

-----------------------------------------------------------------------------
(* External: the domains *)

domainChanges(d) ==
  /\ \E b \in Behaviours[d] \ {behaviour[d]} : behaviour' = [behaviour EXCEPT ![d] = b]
  /\ UNCHANGED <<custodyVars, projects, installed>>

\* The Operator installs the token registration or rotation showed.
installToken(d) ==
  /\ d \notin InProcess
  /\ \E p \in DOMAIN projects :
       /\ projects[p].domain = d
       /\ installed[d] # projects[p].token
       /\ installed' = [installed EXCEPT ![d] = projects[p].token]
  /\ UNCHANGED <<custodyVars, projects, behaviour>>

\* isActiveProjectTokenHash answers for the stub, by the hash in any row.
KnowsToken(d, token) ==
  IF d \in InProcess THEN \E p \in DOMAIN projects : projects[p].token = token
    ELSE installed[d] = token

\* The domain as a caller with this token meets it.
Facing(d, token) ==
  IF KnowsToken(d, token) \/ behaviour[d].verifies # "its own" THEN behaviour[d]
    ELSE [behaviour[d] EXCEPT !.verifies = "none"]

-----------------------------------------------------------------------------
(* Registration *)

Registered(d) == \E p \in DOMAIN projects : projects[p].domain = d

registerProject(c, d) ==
  /\ ~Registered(d)
  /\ Begin(c, [op |-> "register", step |-> "store", domain |-> d,
               token |-> minted + 1, ref |-> 0], 1)
  /\ UNCHANGED <<vaultVars, projectVars>>

storeProjectToken(c) ==
  /\ Serving(c, "register", "store")
  /\ storeSecret(c, calls[c].token, [calls[c] EXCEPT !.ref = Len(secrets) + 1, !.step = "insert"])
  /\ UNCHANGED projectVars

RunConformance(p) == [op |-> "conformance", step |-> "resolve", project |-> p]

\* Faulty variant of DomainIsFree: the table has no UNIQUE base_url.
DomainAssumedFree(d) == TRUE

DomainIsFree(d) == ~Registered(d)

\* The row is inserted and its conformance run begins; the UNIQUE base_url
\* refuses the second of two registrations under way at once.
insertProject(c) ==
  /\ Resumes(c)
  /\ Serving(c, "register", "insert")
  /\ \/ /\ DomainIsFree(calls[c].domain)
        /\ projects' = Append(projects,
             [domain |-> calls[c].domain, token |-> calls[c].token, ref |-> calls[c].ref,
              healthy |-> FALSE])
        /\ Await(c, RunConformance(Len(projects) + 1))
     \/ /\ ~DomainIsFree(calls[c].domain)
        /\ EndCall(c)
        /\ UNCHANGED projects
  /\ UNCHANGED <<vaultVars, minted, domainVars>>

-----------------------------------------------------------------------------
(* Conformance *)

runConformanceFor(c, p) ==
  /\ Begin(c, RunConformance(p), 0)
  /\ UNCHANGED <<vaultVars, projectVars>>

resolveToken(c) ==
  /\ Serving(c, "conformance", "resolve")
  /\ resolveSecret(c, projects[calls[c].project].ref,
       [op |-> "conformance", step |-> "check", project |-> calls[c].project,
        token |-> Wiped, todo |-> Order, passed |-> TRUE])
  /\ UNCHANGED projectVars

\* Faulty variant of passedAfter: the report is that of the last checks.
passedLast(call, impl) == \A check \in Head(call.todo) : CheckPasses(impl, check)

passedAfter(call, impl) ==
  call.passed /\ \A check \in Head(call.todo) : CheckPasses(impl, check)

setHealth(p, passed) == projects' = [projects EXCEPT ![p].healthy = passed]

\* The answers to some checks arrive; the last are followed by the row.  A
\* request that fails is caught and ends the run.
readChecks(c) ==
  /\ Turn
  /\ Serving(c, "conformance", "check")
  /\ LET call == calls[c]
         impl == Facing(projects[call.project].domain, call.token)
     IN \/ /\ impl.up
           /\ Len(call.todo) > 1
           /\ calls' = [calls EXCEPT ![c].todo = Tail(@), ![c].passed = passedAfter(call, impl)]
           /\ UNCHANGED projects
        \/ /\ impl.up
           /\ Len(call.todo) = 1
           /\ setHealth(call.project, passedAfter(call, impl))
           /\ calls' = [calls EXCEPT ![c] = Idle]
        \/ /\ ~impl.up
           /\ setHealth(call.project, FALSE)
           /\ calls' = [calls EXCEPT ![c] = Idle]
  /\ UNCHANGED <<vaultVars, minted, waiting, domainVars>>

-----------------------------------------------------------------------------
(* Rotation *)

rotateProjectToken(c, p) ==
  /\ Begin(c, [op |-> "rotate", step |-> "rotate", project |-> p, token |-> minted + 1], 1)
  /\ UNCHANGED <<vaultVars, projectVars>>

rotateSealed(c) ==
  /\ Serving(c, "rotate", "rotate")
  /\ rotateSecret(c, projects[calls[c].project].ref, calls[c].token,
       [calls[c] EXCEPT !.step = "update"])
  /\ UNCHANGED projectVars

\* Health stays what the last run said of the token before.
updateProject(c) ==
  /\ Resumes(c)
  /\ Serving(c, "rotate", "update")
  /\ projects' = [projects EXCEPT ![calls[c].project].token = calls[c].token]
  /\ EndCall(c)
  /\ UNCHANGED <<vaultVars, minted, domainVars>>

ProjectSteps(c) ==
  \/ storeProjectToken(c)
  \/ insertProject(c)
  \/ resolveToken(c)
  \/ readChecks(c)
  \/ rotateSealed(c)
  \/ updateProject(c)

-----------------------------------------------------------------------------
(* Properties *)

\* A domain is registered once, also by two registrations that overlap
\* ("A project is already registered for this domain", projects.ts:118).
OneProjectPerDomain ==
  \A p, q \in DOMAIN projects : projects[p].domain = projects[q].domain => p = q

\* Every check the run of c waits for is answered, and answered well.
AnsweredWell(c) ==
  LET impl == Facing(projects[calls[c].project].domain, calls[c].token)
  IN impl.up /\ \A check \in Head(calls[c].todo) : CheckPasses(impl, check)

\* "marks the project healthy only on pass" (projects.ts:5): a project that
\* was unhealthy is healthy because a run of it ends that met no failed check,
\* the last ones included, and that the domain did not cut short; and a run
\* goes on clean only from checks that were answered, and passed, under the
\* token it resolved, however the domain changed and other runs overlapped.
HealthyOnPass ==
  [][/\ \A p \in DOMAIN projects : projects'[p].healthy /\ ~projects[p].healthy =>
          \E c \in Calls :
            /\ Serving(c, "conformance", "check")
            /\ calls[c].project = p
            /\ calls[c].passed /\ Len(calls[c].todo) = 1 /\ AnsweredWell(c)
            /\ calls'[c] = Idle
     /\ \A c \in Calls :
          (/\ Serving(c, "conformance", "check")
           /\ calls'[c] \notin {calls[c], Idle}
           /\ calls'[c].passed) => calls[c].passed /\ AnsweredWell(c)]_<<projects, calls>>
=============================================================================
