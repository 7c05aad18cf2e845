---------------------------- MODULE AccessProofs ----------------------------
(***************************************************************************)
(* Theorems about Access, for any browsers, clients, domains, projects and *)
(* number of calls under way, with restarts anywhere and any rows fragile: *)
(* sign-in, consent, registration and conformance.                         *)
(*                                                                         *)
(* A challenge in memory or being verified has led to no sign-in yet       *)
(* (AuthInv). The queue of continuations holds each ready call once        *)
(* (QueueInv); the tables and the records of the awaiting calls are        *)
(* well-formed, and a call's rows exist (TypesInv). On these rests the     *)
(* last: a code that is being exchanged or was exchanged is gone, and one  *)
(* call or connection has it (ConsentInv).                                 *)
(***************************************************************************)
EXTENDS Access, TLAPS, SequenceTheorems

-----------------------------------------------------------------------------
(* Sign-in *)

\* A challenge is in one place: in memory, in a ceremony, or spent.
AuthInv ==
  /\ OperatorAuthTypeOK
  /\ \A k \in Kinds : challenge[k] # NoChallenge =>
       /\ challenge[k] <= issued
       /\ accepted[challenge[k]] = 0
       /\ \A v \in ceremonies : v.expected # challenge[k]
  /\ \A j, k \in Kinds : challenge[j] = challenge[k] /\ challenge[j] # NoChallenge => j = k
  /\ \A v \in ceremonies : v.expected <= issued /\ accepted[v.expected] = 0
  /\ \A v, w \in ceremonies : v.expected = w.expected => v = w
  /\ \A n \in Challenges : n > issued => accepted[n] = 0
  /\ OneSignInPerChallenge
  /\ OneOperator

LEMMA AuthStep ==
  ASSUME AuthInv, OperatorAuthNext
  PROVE  AuthInv'
<1> USE OperatorAuthAssumption DEF Challenges, NoChallenge, Kinds
<1>0. OperatorAuthTypeOK
  BY DEF AuthInv
<1>1. ASSUME NEW kind \in Kinds, putChallenge(kind)
      PROVE  AuthInv'
  <2>1. issued + 1 \in Challenges /\ \A n \in Challenges : n > issued => accepted[n] = 0
    BY <1>0, <1>1 DEF putChallenge, OperatorAuthTypeOK, AuthInv
  <2>2. challenge' \in [Kinds -> {NoChallenge} \cup Challenges]
        /\ challenge'[kind] = issued + 1 /\ \A k \in Kinds \ {kind} : challenge'[k] = challenge[k]
    BY <1>0, <1>1, <2>1 DEF putChallenge, OperatorAuthTypeOK
  <2>3. issued' = issued + 1 /\ UNCHANGED <<operators, ceremonies, accepted, sessions>>
    BY <1>1 DEF putChallenge
  <2>4. \A v \in ceremonies : v.expected \in Challenges
    BY <1>0 DEF OperatorAuthTypeOK, Ceremony
  <2>5. OperatorAuthTypeOK'
    BY <1>0, <1>1, <2>2, <2>3 DEF OperatorAuthTypeOK, putChallenge
  <2>6. \A k \in Kinds : challenge'[k] # NoChallenge =>
          /\ challenge'[k] <= issued'
          /\ accepted'[challenge'[k]] = 0
          /\ \A v \in ceremonies' : v.expected # challenge'[k]
    BY <1>0, <2>1, <2>2, <2>3, <2>4 DEF AuthInv, OperatorAuthTypeOK
  <2>7. \A j, k \in Kinds : challenge'[j] = challenge'[k] /\ challenge'[j] # NoChallenge => j = k
    BY <1>0, <2>1, <2>2, <2>3 DEF AuthInv, OperatorAuthTypeOK
  <2>8. QED
    BY <1>0, <2>3, <2>4, <2>5, <2>6, <2>7
    DEF AuthInv, OperatorAuthTypeOK, OneSignInPerChallenge, OneOperator
<1>2. CASE registrationOptions \/ authenticationOptions
  BY <1>1, <1>2 DEF registrationOptions, authenticationOptions
<1>3. ASSUME NEW kind \in Kinds, challengeExpires(kind)
      PROVE  AuthInv'
  BY <1>0, <1>3
  DEF challengeExpires, AuthInv, OperatorAuthTypeOK, OneSignInPerChallenge, OneOperator
<1>4. ASSUME NEW kind \in Kinds, NEW b \in Browsers, awaitVerification(kind, b)
      PROVE  AuthInv'
  <2> DEFINE v == [kind |-> kind, browser |-> b, expected |-> challenge[kind]]
  <2>1. v \in Ceremony /\ v.expected = challenge[kind] /\ challenge[kind] # NoChallenge
    BY <1>0, <1>4 DEF awaitVerification, Ceremony, OperatorAuthTypeOK
  <2>2. /\ ceremonies' = ceremonies \cup {v}
        /\ challenge' = [challenge EXCEPT ![kind] = NoChallenge]
        /\ UNCHANGED <<operators, issued, accepted, sessions>>
    BY <1>4 DEF awaitVerification, takeChallenge
  <2> HIDE DEF v
  <2>3. OperatorAuthTypeOK'
    BY <1>0, <2>1, <2>2 DEF OperatorAuthTypeOK
  <2>4. \A k \in Kinds : challenge'[k] # NoChallenge => k # kind /\ challenge'[k] = challenge[k]
    BY <1>0, <2>2 DEF OperatorAuthTypeOK
  <2>5. /\ v.expected <= issued /\ accepted[v.expected] = 0
        /\ \A w \in ceremonies : w.expected # v.expected
        /\ \A k \in Kinds \ {kind} : challenge[k] # NoChallenge => challenge[k] # v.expected
    BY <1>0, <2>1 DEF AuthInv
  <2>6. QED
    BY <1>0, <2>2, <2>3, <2>4, <2>5 DEF AuthInv, OneSignInPerChallenge, OneOperator
<1>5. ASSUME NEW v \in ceremonies, verificationFails(v)
      PROVE  AuthInv'
  BY <1>0, <1>5
  DEF verificationFails, AuthInv, OperatorAuthTypeOK, OneSignInPerChallenge, OneOperator
<1>6. ASSUME NEW v \in ceremonies, SignIn(v), operators' \in {0, 1}
      PROVE  AuthInv'
  <2>1. v \in Ceremony /\ v.expected \in Challenges /\ v.browser \in Browsers
    BY <1>0 DEF OperatorAuthTypeOK, Ceremony
  <2>2. /\ accepted' \in [Challenges -> Nat] /\ accepted'[v.expected] = 1
        /\ \A n \in Challenges : n # v.expected => accepted'[n] = accepted[n]
    BY <1>0, <1>6, <2>1 DEF SignIn, OperatorAuthTypeOK, AuthInv
  <2>3. ceremonies' = ceremonies \ {v} /\ UNCHANGED <<challenge, issued>>
        /\ sessions' \subseteq Browsers
    BY <1>0, <1>6, <2>1 DEF SignIn, createSession, OperatorAuthTypeOK
  <2>4. OperatorAuthTypeOK'
    BY <1>0, <1>6, <2>2, <2>3 DEF OperatorAuthTypeOK
  <2>5. \A w \in ceremonies' : w.expected \in Challenges /\ w.expected # v.expected /\ w \in ceremonies
    BY <1>0, <2>3 DEF AuthInv, OperatorAuthTypeOK, Ceremony
  <2>6. \A k \in Kinds : challenge[k] # NoChallenge =>
          challenge[k] \in Challenges /\ challenge[k] # v.expected
    BY <1>0 DEF AuthInv, OperatorAuthTypeOK
  <2>7. v.expected <= issued
    BY DEF AuthInv
  <2>8. OneSignInPerChallenge' /\ OneOperator'
    BY <1>6, <2>1, <2>2 DEF AuthInv, OneSignInPerChallenge, OneOperator
  <2>9. QED
    BY <2>1, <2>2, <2>3, <2>4, <2>5, <2>6, <2>7, <2>8, <1>0 DEF AuthInv, OperatorAuthTypeOK
<1>7. operators \in {0, 1}
  BY <1>0 DEF AuthInv, OneOperator, OperatorAuthTypeOK
<1>8. ASSUME NEW v \in ceremonies, insertOperator(v) \/ finishSignIn(v)
      PROVE  AuthInv'
  BY <1>6, <1>7, <1>8 DEF insertOperator, finishSignIn, HandleIsFree, operatorExists
<1>9. ASSUME NEW b \in Browsers, recover(b) \/ destroySession(b)
      PROVE  AuthInv'
  BY <1>0, <1>9
  DEF recover, createSession, destroySession, AuthInv, OperatorAuthTypeOK, OneSignInPerChallenge, OneOperator
<1>10. QED
  BY <1>2, <1>3, <1>4, <1>5, <1>8, <1>9 DEF OperatorAuthNext, verifyRegistration, verifyAuthentication

LEMMA AuthForgets ==
  ASSUME AuthInv, AuthRestarts \/ UNCHANGED authVars
  PROVE  AuthInv'
<1> USE OperatorAuthAssumption DEF Challenges, NoChallenge, Kinds
<1>1. CASE AuthRestarts
  BY <1>1 DEF AuthRestarts, AuthInv, OperatorAuthTypeOK, OneSignInPerChallenge, OneOperator
<1>2. CASE UNCHANGED authVars
  BY <1>2 DEF authVars, AuthInv, OperatorAuthTypeOK, OneSignInPerChallenge, OneOperator
<1>3. QED
  BY <1>1, <1>2

LEMMA AuthInvariance == AccessSpec => []AuthInv
<1>1. AccessInit => AuthInv
  BY OperatorAuthAssumption
  DEF AccessInit, OperatorAuthInit, AuthInv, OperatorAuthTypeOK, OneSignInPerChallenge, OneOperator,
      Challenges, NoChallenge, Kinds
<1>2. AuthInv /\ [AccessNext]_accessVars => AuthInv'
  <2>1. AccessNext => OperatorAuthNext \/ AuthRestarts \/ UNCHANGED authVars
    BY DEF AccessNext, OperatorRequests, HostRequests, Elapses, Steps, DomainSteps, restart,
           diesInRevocation
  <2>2. UNCHANGED accessVars => UNCHANGED authVars
    BY DEF accessVars
  <2>3. QED
    BY <2>1, <2>2, AuthStep, AuthForgets
<1>3. QED
  BY <1>1, <1>2, PTL DEF AccessSpec

\* A challenge leads to one sign-in, however many browsers answer it while the
\* first answer is verified (auth.ts, takeChallenge).
THEOREM ChallengesAreSpentOnce == AccessSpec => []OneSignInPerChallenge
<1>1. AuthInv => OneSignInPerChallenge
  BY DEF AuthInv
<1>2. QED
  BY <1>1, AuthInvariance, PTL

\* There is one Operator, though registrations are verified at once.
THEOREM RegistrationHappensOnce == AccessSpec => []OneOperator
<1>1. AuthInv => OneOperator
  BY DEF AuthInv
<1>2. QED
  BY <1>1, AuthInvariance, PTL

-----------------------------------------------------------------------------
(* The queue of continuations *)

\* A call whose continuation can be queued: under way, and not at the network.
Queueable(call) == call.op # "idle" /\ ~(call.op = "conformance" /\ call.step = "check")

QueueInv ==
  /\ calls = [c \in Calls |-> calls[c]]
  /\ waiting \in Seq(Calls)
  /\ \A m, n \in DOMAIN waiting : waiting[m] = waiting[n] => m = n
  /\ \A n \in DOMAIN waiting : Queueable(calls[waiting[n]])

LEMMA QueueAppend ==
  ASSUME NEW S, NEW q \in Seq(S), NEW c \in S,
         \A m, n \in DOMAIN q : q[m] = q[n] => m = n,
         \A n \in DOMAIN q : q[n] # c
  PROVE  /\ Append(q, c) \in Seq(S)
         /\ DOMAIN Append(q, c) = DOMAIN q \cup {Len(q) + 1}
         /\ \A n \in DOMAIN q : Append(q, c)[n] = q[n]
         /\ Append(q, c)[Len(q) + 1] = c
         /\ \A m, n \in DOMAIN Append(q, c) : Append(q, c)[m] = Append(q, c)[n] => m = n
<1>1. /\ Append(q, c) \in Seq(S)
      /\ DOMAIN Append(q, c) = DOMAIN q \cup {Len(q) + 1}
      /\ \A n \in DOMAIN q : Append(q, c)[n] = q[n]
      /\ Append(q, c)[Len(q) + 1] = c
  OBVIOUS
<1>2. QED
  BY <1>1

LEMMA QueueTail ==
  ASSUME NEW S, NEW q \in Seq(S), q # <<>>,
         \A m, n \in DOMAIN q : q[m] = q[n] => m = n
  PROVE  /\ Tail(q) \in Seq(S)
         /\ Head(q) \in S
         /\ \A n \in DOMAIN Tail(q) : n + 1 \in DOMAIN q /\ Tail(q)[n] = q[n + 1] /\ q[n + 1] # Head(q)
         /\ \A m, n \in DOMAIN Tail(q) : Tail(q)[m] = Tail(q)[n] => m = n
<1>1. /\ Tail(q) \in Seq(S)
      /\ Head(q) = q[1] /\ 1 \in DOMAIN q
      /\ \A n \in DOMAIN Tail(q) : n \in Nat /\ n + 1 \in DOMAIN q /\ Tail(q)[n] = q[n + 1] /\ n + 1 # 1
  OBVIOUS
<1>2. QED
  BY <1>1

LEMMA RestOfQueue ==
  ASSUME NEW S, NEW q \in Seq(S), Len(q) > 1
  PROVE  Tail(q) \in Seq(S) /\ Tail(q) # <<>>
<1>1. q # <<>> /\ Len(q) \in Nat
  OBVIOUS
<1>2. Tail(q) \in Seq(S) /\ Len(Tail(q)) = Len(q) - 1
  BY <1>1
<1> DEFINE r == Tail(q)
<1>3. r \in Seq(S) /\ Len(r) > 0
  BY <1>1, <1>2
<1> HIDE DEF r
<1>4. r # <<>>
  BY <1>3
<1>5. QED
  BY <1>2, <1>4 DEF r

LEMMA QueueBegins ==
  ASSUME QueueInv, NEW c \in Calls, NEW call, NEW k, Begin(c, call, k), Queueable(call)
  PROVE  QueueInv'
<1>1. \A n \in DOMAIN waiting : waiting[n] # c
  <2>1. calls[c].op = "idle"
    BY DEF Begin, Idle
  <2>2. QED
    BY <2>1 DEF QueueInv, Queueable
<1>2. calls' = [calls EXCEPT ![c] = call] /\ waiting' = Append(waiting, c)
  BY DEF Begin
<1>3. \A n \in DOMAIN waiting' : waiting'[n] = c \/ (n \in DOMAIN waiting /\ waiting'[n] = waiting[n])
  BY <1>1, <1>2, QueueAppend DEF QueueInv
<1>4. calls' = [d \in Calls |-> IF d = c THEN call ELSE calls[d]]
  BY <1>2 DEF QueueInv
<1>5. \A n \in DOMAIN waiting' : Queueable(calls'[waiting'[n]])
  <2>1. SUFFICES ASSUME NEW n \in DOMAIN waiting'
                 PROVE  Queueable(calls'[waiting'[n]])
    OBVIOUS
  <2>2. CASE waiting'[n] = c
    BY <1>4, <2>2
  <2>3. CASE n \in DOMAIN waiting /\ waiting'[n] = waiting[n]
    <3>1. waiting[n] \in Calls /\ waiting[n] # c
      BY <1>1, <2>3 DEF QueueInv
    <3>2. calls'[waiting'[n]] = calls[waiting[n]]
      BY <1>4, <2>3, <3>1
    <3>3. QED
      BY <2>3, <3>2 DEF QueueInv
  <2>4. QED
    BY <1>3, <2>2, <2>3
<1>6. /\ waiting' \in Seq(Calls)
      /\ \A m, n \in DOMAIN waiting' : waiting'[m] = waiting'[n] => m = n
  <2>1. /\ waiting \in Seq(Calls)
        /\ \A m, n \in DOMAIN waiting : waiting[m] = waiting[n] => m = n
    BY DEF QueueInv
  <2>2. /\ Append(waiting, c) \in Seq(Calls)
        /\ \A m, n \in DOMAIN Append(waiting, c) :
             Append(waiting, c)[m] = Append(waiting, c)[n] => m = n
    BY <1>1, <2>1, QueueAppend
  <2>3. QED
    BY <1>2, <2>2
<1>7. calls' = [d \in Calls |-> calls'[d]]
  BY <1>4
<1>8. QED
  BY <1>5, <1>6, <1>7 DEF QueueInv

LEMMA QueueMoves ==
  ASSUME QueueInv, NEW c \in Calls, NEW call, Resumes(c),
         \/ Await(c, call) /\ Queueable(call)
         \/ AwaitNetwork(c, call)
  PROVE  QueueInv'
<1>1. waiting # <<>> /\ Head(waiting) = c
  BY DEF Resumes
<1>2. /\ Tail(waiting) \in Seq(Calls)
      /\ \A n \in DOMAIN Tail(waiting) :
           n + 1 \in DOMAIN waiting /\ Tail(waiting)[n] = waiting[n + 1] /\ waiting[n + 1] # c
      /\ \A m, n \in DOMAIN Tail(waiting) : Tail(waiting)[m] = Tail(waiting)[n] => m = n
  BY <1>1, QueueTail DEF QueueInv
<1>3. calls' = [d \in Calls |-> IF d = c THEN call ELSE calls[d]]
  BY DEF Await, AwaitNetwork, QueueInv
<1>4. \A n \in DOMAIN Tail(waiting) : Tail(waiting)[n] # c /\ Queueable(calls'[Tail(waiting)[n]])
  <2>1. TAKE n \in DOMAIN Tail(waiting)
  <2>2. Tail(waiting)[n] \in Calls /\ Tail(waiting)[n] # c
    BY <1>2
  <2>3. calls'[Tail(waiting)[n]] = calls[waiting[n + 1]]
    BY <1>2, <1>3, <2>2
  <2>4. QED
    BY <1>2, <2>2, <2>3 DEF QueueInv
<1>5. CASE AwaitNetwork(c, call)
  BY <1>2, <1>3, <1>4, <1>5 DEF AwaitNetwork, QueueInv
<1>6. CASE Await(c, call) /\ Queueable(call)
  <2>1. waiting' = Append(Tail(waiting), c)
    BY <1>6 DEF Await
  <2>2. \A n \in DOMAIN waiting' :
          waiting'[n] = c \/ (n \in DOMAIN Tail(waiting) /\ waiting'[n] = Tail(waiting)[n])
    BY <1>2, <1>4, <2>1, QueueAppend
  <2>3. \A n \in DOMAIN waiting' : Queueable(calls'[waiting'[n]])
    BY <1>3, <1>4, <1>6, <2>2
  <2>4. /\ waiting' \in Seq(Calls)
        /\ \A m, n \in DOMAIN waiting' : waiting'[m] = waiting'[n] => m = n
    <3>1. /\ Append(Tail(waiting), c) \in Seq(Calls)
          /\ \A m, n \in DOMAIN Append(Tail(waiting), c) :
               Append(Tail(waiting), c)[m] = Append(Tail(waiting), c)[n] => m = n
      BY <1>2, <1>4, QueueAppend
    <3>2. QED
      BY <2>1, <3>1
  <2>5. calls' = [d \in Calls |-> calls'[d]]
    BY <1>3
  <2>6. QED
    BY <2>3, <2>4, <2>5 DEF QueueInv
<1>7. QED
  BY <1>5, <1>6

-----------------------------------------------------------------------------
(* Types, and the rows a call is about *)

CallType == {Idle} \cup HostCall \cup ProjectCall

\* A well-formed call, its references among S, its connection among H and its
\* project among P.
Fits(call, S, H, P) ==
  /\ call \in CallType
  /\ call.op = "issue" => call.token + 1 \in Tokens
  /\ call.op \in {"mint", "issue"} => call.refreshRef \in S \cup {None}
  /\ call.op \in {"mint", "issue"} /\ call.step # "access" => call.accessRef \in S
  /\ call.op = "refresh" => call.connection \in H
  /\ call.op = "register" /\ call.step = "insert" => call.ref \in S
  /\ call.op \in {"conformance", "rotate"} => call.project \in P

TypesInv ==
  /\ CustodyTypeOK
  /\ HostConnectionsTypeOK
  /\ ConnectedProjectsTypeOK
  /\ QueueInv
  /\ \A n \in DOMAIN connections :
       /\ connections[n].accessRef \in DOMAIN secrets
       /\ connections[n].refreshRef \in DOMAIN secrets \cup {None}
  /\ \A p \in DOMAIN projects : projects[p].ref \in DOMAIN secrets
  /\ \A c \in Calls : Fits(calls[c], DOMAIN secrets, DOMAIN connections, DOMAIN projects)

\* What a call was about exists in tables that have grown.
LEMMA FitsMore ==
  ASSUME NEW call, NEW S, NEW H, NEW P, NEW S2, NEW H2, NEW P2,
         Fits(call, S, H, P), S \subseteq S2, H \subseteq H2, P \subseteq P2
  PROVE  Fits(call, S2, H2, P2)
BY DEF Fits

\* A step that rewrites the record of one call and lets the tables grow.
LEMMA TypesKept ==
  ASSUME TypesInv, QueueInv', CustodyTypeOK', ConnectedProjectsTypeOK', HostConnectionsTypeOK',
         DOMAIN secrets \subseteq DOMAIN secrets',
         DOMAIN connections \subseteq DOMAIN connections',
         DOMAIN projects \subseteq DOMAIN projects',
         \A n \in DOMAIN connections' :
           /\ connections'[n].accessRef \in DOMAIN secrets'
           /\ connections'[n].refreshRef \in DOMAIN secrets' \cup {None},
         \A p \in DOMAIN projects' : projects'[p].ref \in DOMAIN secrets',
         NEW c \in Calls, \A d \in Calls : d # c => calls'[d] = calls[d],
         Fits(calls'[c], DOMAIN secrets', DOMAIN connections', DOMAIN projects')
  PROVE  TypesInv'
<1>1. \A d \in Calls : Fits(calls'[d], DOMAIN secrets', DOMAIN connections', DOMAIN projects')
  BY FitsMore DEF TypesInv
<1>2. QED
  BY <1>1 DEF TypesInv

\* The rows of a step that leaves both tables alone, the vault having grown.
LEMMA RowsKept ==
  ASSUME TypesInv, UNCHANGED <<hostVars, projectVars>>,
         DOMAIN secrets \subseteq DOMAIN secrets'
  PROVE  /\ HostConnectionsTypeOK' /\ ConnectedProjectsTypeOK'
         /\ \A n \in DOMAIN connections' :
              /\ connections'[n].accessRef \in DOMAIN secrets'
              /\ connections'[n].refreshRef \in DOMAIN secrets' \cup {None}
         /\ \A p \in DOMAIN projects' : projects'[p].ref \in DOMAIN secrets'
BY DEF TypesInv, HostConnectionsTypeOK, ConnectedProjectsTypeOK, hostVars, projectVars, domainVars

\* A request that awaits the vault.
LEMMA TypesBegin ==
  ASSUME TypesInv, NEW c \in Calls, NEW call, NEW k \in Nat, Begin(c, call, k),
         Queueable(call), Fits(call, DOMAIN secrets, DOMAIN connections, DOMAIN projects),
         UNCHANGED <<vaultVars, connections, projectVars>>, HostConnectionsTypeOK'
  PROVE  TypesInv'
<1>1. QueueInv'
  BY QueueBegins DEF TypesInv
<1>2. CustodyTypeOK'
  BY <1>1, CustodyAssumption DEF TypesInv, CustodyTypeOK, QueueInv, Begin, vaultVars
<1>3. calls'[c] = call /\ \A d \in Calls : d # c => calls'[d] = calls[d]
  BY DEF Begin, TypesInv, QueueInv
<1>4. ConnectedProjectsTypeOK'
  BY DEF TypesInv, ConnectedProjectsTypeOK, projectVars, domainVars
<1>5. QED
  BY <1>1, <1>2, <1>3, <1>4, TypesKept DEF TypesInv, vaultVars, projectVars

\* A continuation that ends its call, awaits the vault or goes to the network.
LEMMA TypesResume ==
  ASSUME TypesInv, NEW c \in Calls, NEW call, Resumes(c),
         \/ Await(c, call) /\ Queueable(call)
         \/ AwaitNetwork(c, call),
         secrets' \in Seq(SecretRow), DOMAIN secrets \subseteq DOMAIN secrets',
         UNCHANGED <<keyed, vaultReady, minted>>,
         HostConnectionsTypeOK', ConnectedProjectsTypeOK',
         DOMAIN connections \subseteq DOMAIN connections',
         DOMAIN projects \subseteq DOMAIN projects',
         \A n \in DOMAIN connections' :
           /\ connections'[n].accessRef \in DOMAIN secrets'
           /\ connections'[n].refreshRef \in DOMAIN secrets' \cup {None},
         \A p \in DOMAIN projects' : projects'[p].ref \in DOMAIN secrets',
         Fits(call, DOMAIN secrets', DOMAIN connections', DOMAIN projects')
  PROVE  TypesInv'
<1>1. QueueInv'
  BY QueueMoves DEF TypesInv
<1>2. CustodyTypeOK'
  BY <1>1 DEF TypesInv, CustodyTypeOK, QueueInv
<1>3. calls'[c] = call /\ \A d \in Calls : d # c => calls'[d] = calls[d]
  BY DEF Await, AwaitNetwork, TypesInv, QueueInv
<1>4. QED
  BY <1>1, <1>2, <1>3, TypesKept

\* A row is inserted into a table, or written in place.
LEMMA RowAppended ==
  ASSUME NEW S, NEW q \in Seq(S), NEW row \in S
  PROVE  /\ Append(q, row) \in Seq(S)
         /\ Len(Append(q, row)) = Len(q) + 1
         /\ DOMAIN Append(q, row) = DOMAIN q \cup {Len(q) + 1}
         /\ Append(q, row)[Len(q) + 1] = row
         /\ \A n \in DOMAIN q : Append(q, row)[n] = q[n]
OBVIOUS

LEMMA RowReplaced ==
  ASSUME NEW S, NEW q \in Seq(S), NEW row \in S, NEW m \in DOMAIN q
  PROVE  /\ [q EXCEPT ![m] = row] \in Seq(S)
         /\ Len([q EXCEPT ![m] = row]) = Len(q)
         /\ DOMAIN [q EXCEPT ![m] = row] = DOMAIN q
         /\ [q EXCEPT ![m] = row][m] = row
         /\ \A n \in DOMAIN q : n # m => [q EXCEPT ![m] = row][n] = q[n]
OBVIOUS

LEMMA SecretsAppended ==
  ASSUME secrets \in Seq(SecretRow), NEW token \in Tokens,
         secrets' = Append(secrets, [status |-> "active", token |-> token])
  PROVE  /\ secrets' \in Seq(SecretRow)
         /\ DOMAIN secrets' = DOMAIN secrets \cup {Len(secrets) + 1}
<1>1. [status |-> "active", token |-> token] \in SecretRow
  BY DEF SecretRow
<1>2. QED
  BY <1>1

LEMMA SecretsRotated ==
  ASSUME secrets \in Seq(SecretRow), NEW token \in Tokens, NEW ref \in DOMAIN secrets,
         Usable(ref), secrets' = [secrets EXCEPT ![ref].token = token]
  PROVE  /\ secrets' \in Seq(SecretRow)
         /\ DOMAIN secrets' = DOMAIN secrets
         /\ secrets'[ref] = [status |-> "active", token |-> token]
         /\ \A r \in DOMAIN secrets : r # ref => secrets'[r] = secrets[r]
<1>1. secrets[ref] \in [status : {"active"}, token : Tokens]
  BY DEF Usable, SecretRow
<1>2. [secrets[ref] EXCEPT !.token = token] = [status |-> "active", token |-> token]
  BY <1>1
<1>3. [status |-> "active", token |-> token] \in SecretRow
  BY DEF SecretRow
<1> DEFINE row == [status |-> "active", token |-> token]
<1>4. secrets' = [secrets EXCEPT ![ref] = row] /\ row \in SecretRow
  BY <1>2, <1>3
<1> HIDE DEF row
<1>5. /\ secrets' \in Seq(SecretRow)
      /\ DOMAIN secrets' = DOMAIN secrets
      /\ secrets'[ref] = row
      /\ \A r \in DOMAIN secrets : r # ref => secrets'[r] = secrets[r]
  BY <1>4
<1>6. QED
  BY <1>5 DEF row

LEMMA SecretsRevoked ==
  ASSUME secrets \in Seq(SecretRow), NEW refs, revokeSecret(refs)
  PROVE  /\ secrets' \in Seq(SecretRow)
         /\ DOMAIN secrets' = DOMAIN secrets
         /\ \A r \in DOMAIN secrets : secrets'[r] =
              IF r \in refs THEN [status |-> "revoked", token |-> Wiped] ELSE secrets[r]
<1>1. [status |-> "revoked", token |-> Wiped] \in SecretRow
  BY DEF SecretRow
<1>2. \A r \in 1 .. Len(secrets) :
        (IF r \in refs THEN [status |-> "revoked", token |-> Wiped] ELSE secrets[r]) \in SecretRow
  BY <1>1
<1>3. secrets' = [r \in 1 .. Len(secrets) |->
        IF r \in refs THEN [status |-> "revoked", token |-> Wiped] ELSE secrets[r]]
  BY DEF revokeSecret
<1>4. Len(secrets) \in Nat
  OBVIOUS
<1>5. QED
  BY <1>2, <1>3, <1>4

\* The await of storeSecret.
LEMMA TypesStore ==
  ASSUME TypesInv, NEW c \in Calls, NEW token \in Tokens, NEW stored,
         storeSecret(c, token, stored), Queueable(stored),
         UNCHANGED <<hostVars, projectVars>>,
         \A S : DOMAIN secrets \cup {Len(secrets) + 1} \subseteq S =>
                 Fits(stored, S, DOMAIN connections, DOMAIN projects)
  PROVE  TypesInv'
<1>1. Fits(Idle, DOMAIN secrets, DOMAIN connections, DOMAIN projects)
  BY DEF Fits, Idle, CallType
<1>2. DOMAIN connections' = DOMAIN connections /\ DOMAIN projects' = DOMAIN projects
  BY DEF hostVars, projectVars
<1>3. Resumes(c) /\ UNCHANGED <<keyed, vaultReady, minted>>
  BY DEF storeSecret
<1>4. CASE secrets' = Append(secrets, [status |-> "active", token |-> token]) /\ Await(c, stored)
  <2>1. secrets' \in Seq(SecretRow) /\ DOMAIN secrets' = DOMAIN secrets \cup {Len(secrets) + 1}
    BY <1>4, SecretsAppended DEF TypesInv, CustodyTypeOK
  <2>2. Fits(stored, DOMAIN secrets', DOMAIN connections', DOMAIN projects')
    BY <1>2, <2>1
  <2>3. QED
    BY <1>2, <1>3, <1>4, <2>1, <2>2, RowsKept, TypesResume
<1>5. CASE UNCHANGED secrets /\ EndCall(c)
  <2>1. secrets' \in Seq(SecretRow) /\ AwaitNetwork(c, Idle)
    BY <1>5 DEF TypesInv, CustodyTypeOK, EndCall
  <2>2. QED
    BY <1>1, <1>2, <1>3, <1>5, <2>1, RowsKept, TypesResume
<1>6. QED
  BY <1>4, <1>5 DEF storeSecret

\* The await of rotateSecret.
LEMMA TypesRotate ==
  ASSUME TypesInv, NEW c \in Calls, NEW ref \in DOMAIN secrets, NEW token \in Tokens,
         NEW rotated, rotateSecret(c, ref, token, rotated), Queueable(rotated),
         UNCHANGED <<hostVars, projectVars>>,
         Fits(rotated, DOMAIN secrets, DOMAIN connections, DOMAIN projects)
  PROVE  TypesInv'
<1>1. Fits(Idle, DOMAIN secrets, DOMAIN connections, DOMAIN projects)
  BY DEF Fits, Idle, CallType
<1>2. DOMAIN connections' = DOMAIN connections /\ DOMAIN projects' = DOMAIN projects
  BY DEF hostVars, projectVars
<1>3. Resumes(c) /\ UNCHANGED <<keyed, vaultReady, minted>>
  BY DEF rotateSecret
<1>4. CASE Usable(ref) /\ secrets' = [secrets EXCEPT ![ref].token = token] /\ Await(c, rotated)
  <2>1. secrets' \in Seq(SecretRow) /\ DOMAIN secrets' = DOMAIN secrets
    BY <1>4, SecretsRotated DEF TypesInv, CustodyTypeOK
  <2>2. QED
    BY <1>2, <1>3, <1>4, <2>1, RowsKept, TypesResume
<1>5. CASE UNCHANGED secrets /\ EndCall(c)
  <2>1. secrets' \in Seq(SecretRow) /\ AwaitNetwork(c, Idle)
    BY <1>5 DEF TypesInv, CustodyTypeOK, EndCall
  <2>2. QED
    BY <1>1, <1>2, <1>3, <1>5, <2>1, RowsKept, TypesResume
<1>6. QED
  BY <1>4, <1>5 DEF rotateSecret

-----------------------------------------------------------------------------
(* What a call of each kind is *)

MintCall ==
  [op : {"mint", "issue"}, step : {"access", "refresh", "insert"}, code : 0 .. MaxCodes,
   token : Tokens, accessRef : References \cup {None}, refreshRef : References \cup {None}]

LEMMA HostCalls ==
  ASSUME TypesInv, NEW c \in Calls
  PROVE  /\ calls[c].op \in {"mint", "issue"} =>
              calls[c] \in MintCall
         /\ calls[c].op = "refresh" =>
              calls[c] \in [op : {"refresh"}, step : {"rotate", "update"}, connection : Nat, token : Tokens]
BY DEF TypesInv, Fits, CallType, HostCall, MintCall, ProjectCall, Idle

LEMMA ProjectCalls ==
  ASSUME TypesInv, NEW c \in Calls
  PROVE  /\ calls[c].op = "register" =>
              calls[c] \in [op : {"register"}, step : {"store", "insert"}, domain : Domains,
                            token : Tokens, ref : Nat]
         /\ calls[c].op = "conformance" /\ calls[c].step = "resolve" =>
              calls[c] \in [op : {"conformance"}, step : {"resolve"}, project : Nat]
         /\ calls[c].op = "conformance" /\ calls[c].step = "check" =>
              calls[c] \in [op : {"conformance"}, step : {"check"}, project : Nat, token : Tokens,
                            todo : Seq(SUBSET Suite) \ {<<>>}, passed : BOOLEAN]
         /\ calls[c].op = "rotate" =>
              calls[c] \in [op : {"rotate"}, step : {"rotate", "update"}, project : Nat, token : Tokens]
BY DEF TypesInv, Fits, CallType, HostCall, ProjectCall, Idle

-----------------------------------------------------------------------------
(* Host Connections keep the types *)

LEMMA MintingFits ==
  ASSUME TypesInv, NEW op \in {"mint", "issue"}, NEW code \in 0 .. MaxCodes,
         minted + (IF op = "issue" THEN 2 ELSE 1) <= MaxTokens
  PROVE  /\ Queueable(Minting(op, "access", code))
         /\ Fits(Minting(op, "access", code), DOMAIN secrets, DOMAIN connections, DOMAIN projects)
<1>1. minted + 1 \in Tokens /\ (op = "issue" => minted + 2 \in Tokens)
  BY CustodyAssumption DEF TypesInv, CustodyTypeOK, Tokens
<1>2. Minting(op, "access", code) \in HostCall
  BY <1>1 DEF Minting, HostCall
<1>3. minted \in Nat
  BY CustodyAssumption DEF TypesInv, CustodyTypeOK
<1>4. QED
  BY <1>1, <1>2, <1>3 DEF Minting, Fits, CallType, Queueable

LEMMA HostBegins ==
  ASSUME TypesInv, UNCHANGED projectVars, NEW c \in Calls,
         \/ mintStaticHostToken(c)
         \/ \E m \in DOMAIN codes, client \in Clients : exchangeAuthorizationCode(c, m, client)
         \/ \E n \in DOMAIN connections : exchangeRefreshToken(c, n)
  PROVE  TypesInv'
<1> USE HostConnectionsAssumption, CustodyAssumption
<1>1. CASE mintStaticHostToken(c)
  <2>1. Begin(c, Minting("mint", "access", None), 1)
    BY <1>1 DEF mintStaticHostToken
  <2>2. /\ Queueable(Minting("mint", "access", None))
        /\ Fits(Minting("mint", "access", None), DOMAIN secrets, DOMAIN connections, DOMAIN projects)
    BY <2>1, MintingFits DEF Begin, None
  <2>3. HostConnectionsTypeOK'
    BY <1>1 DEF mintStaticHostToken, hostVars, TypesInv, HostConnectionsTypeOK
  <2>4. QED
    BY <1>1, <2>1, <2>2, <2>3, TypesBegin DEF mintStaticHostToken, hostVars
<1>2. ASSUME NEW m \in DOMAIN codes, NEW client \in Clients, exchangeAuthorizationCode(c, m, client)
      PROVE  TypesInv'
  <2>1. Begin(c, Minting("issue", "access", m), 2)
    BY <1>2 DEF exchangeAuthorizationCode
  <2>2. m \in 0 .. MaxCodes
    BY DEF TypesInv, HostConnectionsTypeOK
  <2>3. /\ Queueable(Minting("issue", "access", m))
        /\ Fits(Minting("issue", "access", m), DOMAIN secrets, DOMAIN connections, DOMAIN projects)
    BY <2>1, <2>2, MintingFits DEF Begin
  <2>4. HostConnectionsTypeOK'
    <3> DEFINE row == [codes[m] EXCEPT !.live = FALSE]
    <3>1. codes \in Seq(CodeRow) /\ Len(codes) <= MaxCodes /\ connections \in Seq(ConnectionRow)
      BY DEF TypesInv, HostConnectionsTypeOK
    <3>2. codes[m] \in CodeRow
      BY <3>1
    <3>3. row \in CodeRow
      BY <3>2 DEF CodeRow
    <3>4. codes' = [codes EXCEPT ![m] = row] /\ connections' = connections
      BY <1>2 DEF exchangeAuthorizationCode, deleteCode
    <3> HIDE DEF row
    <3>5. codes' \in Seq(CodeRow) /\ Len(codes') = Len(codes)
      BY <3>1, <3>3, <3>4, RowReplaced
    <3>6. QED
      BY <3>1, <3>4, <3>5 DEF HostConnectionsTypeOK
  <2>5. QED
    BY <1>2, <2>1, <2>3, <2>4, TypesBegin DEF exchangeAuthorizationCode
<1>3. ASSUME NEW n \in DOMAIN connections, exchangeRefreshToken(c, n)
      PROVE  TypesInv'
  <2> DEFINE call == [op |-> "refresh", step |-> "rotate", connection |-> n, token |-> minted + 1]
  <2>1. Begin(c, call, 1)
    BY <1>3 DEF exchangeRefreshToken
  <2>2. minted + 1 \in Tokens /\ n \in Nat
    BY <2>1 DEF Begin, TypesInv, CustodyTypeOK, Tokens, HostConnectionsTypeOK
  <2>3. Queueable(call) /\ Fits(call, DOMAIN secrets, DOMAIN connections, DOMAIN projects)
    BY <2>2 DEF Queueable, Fits, CallType, HostCall
  <2>4. HostConnectionsTypeOK'
    BY <1>3 DEF exchangeRefreshToken, hostVars, TypesInv, HostConnectionsTypeOK
  <2>5. QED
    BY <1>3, <2>1, <2>3, <2>4, TypesBegin DEF exchangeRefreshToken, hostVars
<1>4. QED
  BY <1>1, <1>2, <1>3

LEMMA HostSeals ==
  ASSUME TypesInv, UNCHANGED projectVars, NEW c \in Calls,
         storeAccess(c) \/ storeRefresh(c) \/ rotateAccess(c)
  PROVE  TypesInv'
<1>1. CASE storeAccess(c)
  <2> DEFINE stored == [calls[c] EXCEPT !.accessRef = Len(secrets) + 1,
                          !.step = IF calls[c].op = "issue" THEN "refresh" ELSE "insert"]
  <2>1. calls[c].op \in {"mint", "issue"} /\ storeSecret(c, calls[c].token, stored)
    BY <1>1 DEF storeAccess, IsAt
  <2>2. calls[c].token \in Tokens /\ stored \in HostCall /\ stored.op = calls[c].op
        /\ stored.token = calls[c].token /\ stored.refreshRef = calls[c].refreshRef
        /\ stored.accessRef = Len(secrets) + 1
    <3>1. calls[c] \in MintCall
      BY <2>1, HostCalls DEF MintCall
    <3>2. Len(secrets) + 1 \in References
      BY DEF References, TypesInv, CustodyTypeOK
    <3>3. stored \in MintCall
      BY <3>1, <3>2 DEF MintCall
    <3>4. QED
      BY <3>1, <3>3 DEF MintCall, HostCall
  <2>3. Queueable(stored)
    BY <2>1, <2>2 DEF Queueable
  <2>4. \A S : DOMAIN secrets \cup {Len(secrets) + 1} \subseteq S =>
                Fits(stored, S, DOMAIN connections, DOMAIN projects)
    <3>1. Fits(calls[c], DOMAIN secrets, DOMAIN connections, DOMAIN projects)
      BY DEF TypesInv
    <3> HIDE DEF stored
    <3>2. QED
      BY <2>1, <2>2, <3>1 DEF Fits, CallType
  <2> HIDE DEF stored
  <2>5. QED
    BY <1>1, <2>1, <2>2, <2>3, <2>4, TypesStore DEF storeAccess
<1>2. CASE storeRefresh(c)
  <2> DEFINE stored == [calls[c] EXCEPT !.refreshRef = Len(secrets) + 1, !.step = "insert"]
  <2>1. calls[c].op = "issue" /\ calls[c].step = "refresh" /\ storeSecret(c, calls[c].token + 1, stored)
    BY <1>2 DEF storeRefresh, IsAt
  <2>2. stored \in HostCall /\ stored.op = calls[c].op
        /\ stored.token = calls[c].token /\ stored.accessRef = calls[c].accessRef
        /\ stored.refreshRef = Len(secrets) + 1
    <3>1. calls[c] \in MintCall
      BY <2>1, HostCalls DEF MintCall
    <3>2. Len(secrets) + 1 \in References
      BY DEF References, TypesInv, CustodyTypeOK
    <3>3. stored \in MintCall
      BY <3>1, <3>2 DEF MintCall
    <3>4. QED
      BY <3>1, <3>3 DEF MintCall, HostCall
  <2>3. Queueable(stored)
    BY <2>1, <2>2 DEF Queueable
  <2>4. calls[c].token + 1 \in Tokens
        /\ \A S : DOMAIN secrets \cup {Len(secrets) + 1} \subseteq S =>
                Fits(stored, S, DOMAIN connections, DOMAIN projects)
    <3>1. Fits(calls[c], DOMAIN secrets, DOMAIN connections, DOMAIN projects)
      BY DEF TypesInv
    <3> HIDE DEF stored
    <3>2. QED
      BY <2>1, <2>2, <3>1 DEF Fits, CallType
  <2> HIDE DEF stored
  <2>5. QED
    BY <1>2, <2>1, <2>3, <2>4, TypesStore DEF storeRefresh
<1>3. CASE rotateAccess(c)
  <2> DEFINE rotated == [calls[c] EXCEPT !.step = "update"]
             ref == connections[calls[c].connection].accessRef
  <2>1. calls[c].op = "refresh" /\ rotateSecret(c, ref, calls[c].token, rotated)
    BY <1>3 DEF rotateAccess, IsAt
  <2>2. Fits(calls[c], DOMAIN secrets, DOMAIN connections, DOMAIN projects)
    BY DEF TypesInv
  <2>3. calls[c].token \in Tokens /\ ref \in DOMAIN secrets
    BY <2>1, <2>2, HostCalls DEF TypesInv, Fits
  <2>4. rotated \in HostCall /\ rotated.op = "refresh" /\ rotated.connection = calls[c].connection
    BY <2>1, HostCalls DEF HostCall
  <2> HIDE DEF rotated, ref
  <2>5. Queueable(rotated) /\ Fits(rotated, DOMAIN secrets, DOMAIN connections, DOMAIN projects)
    BY <2>1, <2>2, <2>4 DEF Queueable, Fits, CallType
  <2>6. QED
    BY <1>3, <2>1, <2>3, <2>5, TypesRotate DEF rotateAccess
<1>4. QED
  BY <1>1, <1>2, <1>3

LEMMA HostWrites ==
  ASSUME TypesInv, UNCHANGED projectVars, NEW c \in Calls,
         insertConnection(c) \/ updateGrant(c)
  PROVE  TypesInv'
<1>1. Fits(Idle, DOMAIN secrets, DOMAIN connections', DOMAIN projects)
  BY DEF Fits, Idle, CallType
<1>2. Fits(calls[c], DOMAIN secrets, DOMAIN connections, DOMAIN projects)
  BY DEF TypesInv
<1>3. /\ ConnectedProjectsTypeOK' /\ DOMAIN projects' = DOMAIN projects
      /\ UNCHANGED projects
  BY DEF TypesInv, ConnectedProjectsTypeOK, projectVars, domainVars
<1>4. /\ Resumes(c) /\ AwaitNetwork(c, Idle) /\ UNCHANGED <<keyed, vaultReady, secrets, minted, codes>>
      /\ secrets' \in Seq(SecretRow)
  BY DEF insertConnection, updateGrant, EndCall, vaultVars, TypesInv, CustodyTypeOK
<1>5. ASSUME NEW row \in ConnectionRow, row.accessRef \in DOMAIN secrets,
             row.refreshRef \in DOMAIN secrets \cup {None},
             \/ connections' = Append(connections, row)
             \/ \E n \in DOMAIN connections : connections' = [connections EXCEPT ![n] = row]
      PROVE  TypesInv'
  <2>1. /\ connections' \in Seq(ConnectionRow)
        /\ DOMAIN connections \subseteq DOMAIN connections'
        /\ \A n \in DOMAIN connections' :
             connections'[n] = row \/ (n \in DOMAIN connections /\ connections'[n] = connections[n])
    <3>1. connections \in Seq(ConnectionRow)
      BY DEF TypesInv, HostConnectionsTypeOK
    <3>2. CASE connections' = Append(connections, row)
      BY <1>5, <3>1, <3>2, RowAppended
    <3>3. CASE \E n \in DOMAIN connections : connections' = [connections EXCEPT ![n] = row]
      BY <1>5, <3>1, <3>3, RowReplaced
    <3>4. QED
      BY <1>5, <3>2, <3>3
  <2>2. HostConnectionsTypeOK'
    BY <1>4, <2>1 DEF TypesInv, HostConnectionsTypeOK
  <2>3. \A n \in DOMAIN connections' :
          /\ connections'[n].accessRef \in DOMAIN secrets
          /\ connections'[n].refreshRef \in DOMAIN secrets \cup {None}
    BY <1>5, <2>1 DEF TypesInv
  <2>4. \A p \in DOMAIN projects' : projects'[p].ref \in DOMAIN secrets
    BY <1>3 DEF TypesInv
  <2>5. QED
    BY <1>1, <1>3, <1>4, <2>1, <2>2, <2>3, <2>4, TypesResume
<1>6. CASE insertConnection(c)
  <2> DEFINE row == [kind |-> IF calls[c].op = "mint" THEN "static" ELSE "oauth",
                     code |-> calls[c].code, status |-> "active", token |-> calls[c].token,
                     fresh |-> TRUE, accessRef |-> calls[c].accessRef,
                     refreshRef |-> calls[c].refreshRef]
  <2>1. /\ calls[c].op \in {"mint", "issue"} /\ calls[c].step = "insert"
        /\ connections' = Append(connections, row)
    BY <1>6 DEF insertConnection, IsAt
  <2>2. calls[c].accessRef \in DOMAIN secrets /\ calls[c].refreshRef \in DOMAIN secrets \cup {None}
    BY <1>2, <2>1 DEF Fits
  <2>3. DOMAIN secrets \subseteq References
    BY DEF TypesInv, CustodyTypeOK, References
  <2>4. row \in ConnectionRow
    BY <2>1, <2>2, <2>3, HostCalls DEF MintCall, ConnectionRow
  <2>5. row.accessRef = calls[c].accessRef /\ row.refreshRef = calls[c].refreshRef
    OBVIOUS
  <2> HIDE DEF row
  <2>6. QED
    BY <1>5, <2>1, <2>2, <2>4, <2>5
<1>7. CASE updateGrant(c)
  <2> DEFINE n == calls[c].connection
             row == [connections[n] EXCEPT !.token = calls[c].token, !.fresh = TRUE]
  <2>1. calls[c].op = "refresh" /\ calls[c].step = "update"
    BY <1>7 DEF updateGrant, IsAt
  <2>2. n \in DOMAIN connections /\ calls[c].token \in Tokens
    BY <1>2, <2>1, HostCalls DEF Fits
  <2>3. connections[n] \in ConnectionRow
    BY <2>2 DEF TypesInv, HostConnectionsTypeOK
  <2>4. row \in ConnectionRow /\ row.accessRef = connections[n].accessRef
        /\ row.refreshRef = connections[n].refreshRef
    BY <2>2, <2>3 DEF ConnectionRow
  <2>5. connections' = [connections EXCEPT ![n].token = calls[c].token, ![n].fresh = TRUE]
    BY <1>7 DEF updateGrant
  <2>6. connections' = [connections EXCEPT ![n] = row]
    BY <2>2, <2>3, <2>5 DEF TypesInv, HostConnectionsTypeOK, ConnectionRow
  <2>7. connections[n].accessRef \in DOMAIN secrets
        /\ connections[n].refreshRef \in DOMAIN secrets \cup {None}
    BY <2>2 DEF TypesInv
  <2> HIDE DEF n, row
  <2>8. QED
    BY <1>5, <2>2, <2>4, <2>6, <2>7
<1>8. QED
  BY <1>6, <1>7

\* A grant is revoked, or its access token runs out.
LEMMA HostMarks ==
  ASSUME TypesInv, UNCHANGED <<projectVars, codes>>, UNCHANGED minted,
         NEW n \in DOMAIN connections, NEW row \in ConnectionRow,
         row.accessRef = connections[n].accessRef, row.refreshRef = connections[n].refreshRef,
         connections' = [connections EXCEPT ![n] = row],
         UNCHANGED secrets \/ (\E refs : revokeSecret(refs)),
         UNCHANGED <<keyed, vaultReady, calls, waiting>> \/ ProcessRestarts
  PROVE  TypesInv'
<1>1. /\ connections' \in Seq(ConnectionRow) /\ DOMAIN connections' = DOMAIN connections
      /\ connections'[n] = row
      /\ \A m \in DOMAIN connections : m # n => connections'[m] = connections[m]
  BY RowReplaced DEF TypesInv, HostConnectionsTypeOK
<1>2. secrets' \in Seq(SecretRow) /\ DOMAIN secrets' = DOMAIN secrets
  BY SecretsRevoked DEF TypesInv, CustodyTypeOK
<1>3. \A m \in DOMAIN connections' :
        /\ connections'[m].accessRef \in DOMAIN secrets'
        /\ connections'[m].refreshRef \in DOMAIN secrets' \cup {None}
  BY <1>1, <1>2 DEF TypesInv
<1>4. HostConnectionsTypeOK' /\ ConnectedProjectsTypeOK' /\ DOMAIN projects' = DOMAIN projects
      /\ \A p \in DOMAIN projects' : projects'[p].ref \in DOMAIN secrets'
  BY <1>1, <1>2 DEF TypesInv, HostConnectionsTypeOK, ConnectedProjectsTypeOK, projectVars, domainVars
<1>5. Fits(Idle, DOMAIN secrets', DOMAIN connections', DOMAIN projects')
  BY DEF Fits, Idle, CallType
<1>6. CASE UNCHANGED <<keyed, vaultReady, calls, waiting>>
  <2>1. QueueInv'
    BY <1>6 DEF TypesInv, QueueInv
  <2>2. CustodyTypeOK'
    BY <1>2, <1>6 DEF TypesInv, CustodyTypeOK
  <2>3. \A c \in Calls : Fits(calls'[c], DOMAIN secrets', DOMAIN connections', DOMAIN projects')
    BY <1>1, <1>2, <1>4, <1>6 DEF TypesInv
  <2>4. QED
    BY <1>3, <1>4, <2>1, <2>2, <2>3 DEF TypesInv
<1>7. CASE ProcessRestarts
  <2>1. /\ waiting' = <<>> /\ calls' = [c \in Calls |-> Idle]
        /\ keyed' \in BOOLEAN /\ vaultReady' \in BOOLEAN /\ minted' = minted
    BY <1>7 DEF ProcessRestarts
  <2>2. QueueInv'
    <3>1. waiting' \in Seq(Calls) /\ DOMAIN waiting' = {}
      BY <2>1
    <3>2. calls' = [c \in Calls |-> calls'[c]]
      BY <2>1
    <3>3. QED
      BY <3>1, <3>2 DEF QueueInv
  <2>3. CustodyTypeOK'
    BY <1>2, <2>1, <2>2 DEF TypesInv, QueueInv, CustodyTypeOK
  <2>4. \A c \in Calls : Fits(calls'[c], DOMAIN secrets', DOMAIN connections', DOMAIN projects')
    BY <1>5, <2>1
  <2>5. QED
    BY <1>3, <1>4, <2>2, <2>3, <2>4 DEF TypesInv
<1>8. QED
  BY <1>6, <1>7

LEMMA HostEnds ==
  ASSUME TypesInv, UNCHANGED projectVars, NEW n \in DOMAIN connections,
         \/ revokeHostConnection(n) \/ revokeToken(n)
         \/ revocationCutShort(n) \/ accessExpires(n)
  PROVE  TypesInv'
<1>1. connections[n] \in ConnectionRow
  BY DEF TypesInv, HostConnectionsTypeOK
<1>2. CASE accessExpires(n)
  <2> DEFINE row == [connections[n] EXCEPT !.fresh = FALSE]
  <2>1. row \in ConnectionRow /\ row.accessRef = connections[n].accessRef
        /\ row.refreshRef = connections[n].refreshRef
    BY <1>1 DEF ConnectionRow
  <2>2. connections' = [connections EXCEPT ![n] = row] /\ UNCHANGED <<custodyVars, codes>>
    BY <1>2 DEF accessExpires
  <2> HIDE DEF row
  <2>3. QED
    BY <2>1, <2>2, HostMarks DEF custodyVars, vaultVars
<1>3. CASE revokeHostConnection(n) \/ revokeToken(n) \/ revocationCutShort(n)
  <2> DEFINE row == [connections[n] EXCEPT !.status = "revoked"]
  <2>1. row \in ConnectionRow /\ row.accessRef = connections[n].accessRef
        /\ row.refreshRef = connections[n].refreshRef
    BY <1>1 DEF ConnectionRow
  <2>2. connections' = [connections EXCEPT ![n] = row] /\ UNCHANGED <<minted, codes>>
    BY <1>3 DEF revokeToken, revokeHostConnection, revocationCutShort, markRevoked, ProcessRestarts
  <2>3. /\ \E refs : revokeSecret(refs)
        /\ UNCHANGED <<keyed, vaultReady, calls, waiting>> \/ ProcessRestarts
    BY <1>3 DEF revokeToken, revokeHostConnection, revocationCutShort
  <2> HIDE DEF row
  <2>4. QED
    BY <2>1, <2>2, <2>3, HostMarks
<1>4. QED
  BY <1>2, <1>3

-----------------------------------------------------------------------------
(* Connected Projects keep the types *)

LEMMA ProjectBegins ==
  ASSUME TypesInv, UNCHANGED hostVars, NEW c \in Calls,
         \/ \E d \in Domains : registerProject(c, d)
         \/ \E p \in DOMAIN projects : runConformanceFor(c, p) \/ rotateProjectToken(c, p)
  PROVE  TypesInv'
<1>1. HostConnectionsTypeOK' /\ UNCHANGED connections
  BY DEF hostVars, TypesInv, HostConnectionsTypeOK
<1>2. ASSUME NEW d \in Domains, registerProject(c, d)
      PROVE  TypesInv'
  <2> DEFINE call == [op |-> "register", step |-> "store", domain |-> d, token |-> minted + 1, ref |-> 0]
  <2>1. Begin(c, call, 1)
    BY <1>2 DEF registerProject
  <2>2. minted + 1 \in Tokens
    BY <2>1 DEF Begin, TypesInv, CustodyTypeOK, Tokens
  <2>3. Queueable(call) /\ Fits(call, DOMAIN secrets, DOMAIN connections, DOMAIN projects)
    BY <2>2 DEF Queueable, Fits, CallType, ProjectCall
  <2>4. QED
    BY <1>1, <1>2, <2>1, <2>3, TypesBegin DEF registerProject
<1>3. ASSUME NEW p \in DOMAIN projects, runConformanceFor(c, p)
      PROVE  TypesInv'
  <2>1. Begin(c, RunConformance(p), 0)
    BY <1>3 DEF runConformanceFor
  <2>2. p \in Nat
    BY DEF TypesInv, ConnectedProjectsTypeOK
  <2>3. Queueable(RunConformance(p))
        /\ Fits(RunConformance(p), DOMAIN secrets, DOMAIN connections, DOMAIN projects)
    BY <2>2 DEF RunConformance, Queueable, Fits, CallType, ProjectCall
  <2>4. QED
    BY <1>1, <1>3, <2>1, <2>3, TypesBegin DEF runConformanceFor
<1>4. ASSUME NEW p \in DOMAIN projects, rotateProjectToken(c, p)
      PROVE  TypesInv'
  <2> DEFINE call == [op |-> "rotate", step |-> "rotate", project |-> p, token |-> minted + 1]
  <2>1. Begin(c, call, 1)
    BY <1>4 DEF rotateProjectToken
  <2>2. minted + 1 \in Tokens /\ p \in Nat
    BY <2>1 DEF Begin, TypesInv, CustodyTypeOK, Tokens, ConnectedProjectsTypeOK
  <2>3. Queueable(call) /\ Fits(call, DOMAIN secrets, DOMAIN connections, DOMAIN projects)
    BY <2>2 DEF Queueable, Fits, CallType, ProjectCall
  <2>4. QED
    BY <1>1, <1>4, <2>1, <2>3, TypesBegin DEF rotateProjectToken
<1>5. QED
  BY <1>2, <1>3, <1>4

LEMMA ProjectSeals ==
  ASSUME TypesInv, UNCHANGED hostVars, NEW c \in Calls,
         storeProjectToken(c) \/ rotateSealed(c) \/ resolveToken(c)
  PROVE  TypesInv'
<1>1. Fits(calls[c], DOMAIN secrets, DOMAIN connections, DOMAIN projects)
  BY DEF TypesInv
<1>2. CASE storeProjectToken(c)
  <2> DEFINE stored == [calls[c] EXCEPT !.ref = Len(secrets) + 1, !.step = "insert"]
  <2>1. calls[c].op = "register" /\ storeSecret(c, calls[c].token, stored)
    BY <1>2 DEF storeProjectToken, Serving
  <2>2. calls[c].token \in Tokens /\ stored \in ProjectCall /\ stored.op = "register"
        /\ stored.ref = Len(secrets) + 1
    <3>1. calls[c] \in [op : {"register"}, step : {"store", "insert"}, domain : Domains,
                        token : Tokens, ref : Nat]
      BY <2>1, ProjectCalls
    <3>2. Len(secrets) + 1 \in Nat
      BY DEF TypesInv, CustodyTypeOK
    <3>3. stored \in [op : {"register"}, step : {"store", "insert"}, domain : Domains,
                     token : Tokens, ref : Nat]
      BY <3>1, <3>2
    <3>4. QED
      BY <3>1, <3>3 DEF ProjectCall
  <2> HIDE DEF stored
  <2>3. /\ Queueable(stored)
        /\ \A S : DOMAIN secrets \cup {Len(secrets) + 1} \subseteq S =>
                Fits(stored, S, DOMAIN connections, DOMAIN projects)
    BY <2>2 DEF Fits, CallType, Queueable
  <2>4. QED
    BY <1>2, <2>1, <2>2, <2>3, TypesStore DEF storeProjectToken
<1>3. CASE rotateSealed(c)
  <2> DEFINE rotated == [calls[c] EXCEPT !.step = "update"]
             ref == projects[calls[c].project].ref
  <2>1. calls[c].op = "rotate" /\ rotateSecret(c, ref, calls[c].token, rotated)
    BY <1>3 DEF rotateSealed, Serving
  <2>2. calls[c].token \in Tokens /\ ref \in DOMAIN secrets
    BY <1>1, <2>1, ProjectCalls DEF TypesInv, Fits
  <2>3. rotated \in ProjectCall /\ rotated.op = "rotate" /\ rotated.project = calls[c].project
    BY <2>1, ProjectCalls DEF ProjectCall
  <2> HIDE DEF rotated, ref
  <2>4. Queueable(rotated) /\ Fits(rotated, DOMAIN secrets, DOMAIN connections, DOMAIN projects)
    BY <1>1, <2>1, <2>3 DEF Queueable, Fits, CallType
  <2>5. QED
    BY <1>3, <2>1, <2>2, <2>4, TypesRotate DEF rotateSealed
<1>4. CASE resolveToken(c)
  <2> DEFINE ref == projects[calls[c].project].ref
             blank == [op |-> "conformance", step |-> "check", project |-> calls[c].project,
                       token |-> Wiped, todo |-> Order, passed |-> TRUE]
             call == IF Usable(ref) THEN [blank EXCEPT !.token = secrets[ref].token] ELSE Idle
  <2>1. calls[c].op = "conformance" /\ calls[c].step = "resolve" /\ Resumes(c)
        /\ UNCHANGED <<vaultVars, minted, projectVars>>
        /\ AwaitNetwork(c, call)
    BY <1>4 DEF resolveToken, resolveSecret, Serving, EndCall
  <2>2. ref \in DOMAIN secrets /\ calls[c].project \in DOMAIN projects /\ calls[c].project \in Nat
    BY <1>1, <2>1, ProjectCalls DEF TypesInv, Fits
  <2>3. Usable(ref) => secrets[ref].token \in Tokens
    BY <2>2 DEF Usable, TypesInv, CustodyTypeOK, SecretRow
  <2>4. Usable(ref) => call \in ProjectCall /\ call.op = "conformance" /\ call.project = calls[c].project
    BY <2>2, <2>3, ConnectedProjectsAssumption DEF ProjectCall
  <2>5. ~Usable(ref) => call = Idle
    OBVIOUS
  <2> HIDE DEF call, ref, blank
  <2>6. Fits(call, DOMAIN secrets, DOMAIN connections, DOMAIN projects)
    BY <2>2, <2>4, <2>5 DEF Fits, CallType, Idle
  <2>7. QED
    BY <2>1, <2>6, RowsKept, TypesResume DEF vaultVars, hostVars, projectVars, TypesInv, CustodyTypeOK
<1>5. QED
  BY <1>2, <1>3, <1>4

\* The project table of a step that inserts a row or writes one in place.
LEMMA ProjectRows ==
  ASSUME TypesInv, NEW row \in ProjectRow, row.ref \in DOMAIN secrets, UNCHANGED domainVars,
         \/ projects' = Append(projects, row)
         \/ \E p \in DOMAIN projects : projects' = [projects EXCEPT ![p] = row]
  PROVE  /\ ConnectedProjectsTypeOK'
         /\ DOMAIN projects \subseteq DOMAIN projects'
         /\ \A p \in DOMAIN projects' : projects'[p].ref \in DOMAIN secrets
<1>1. projects \in Seq(ProjectRow)
  BY DEF TypesInv, ConnectedProjectsTypeOK
<1>2. /\ projects' \in Seq(ProjectRow)
      /\ DOMAIN projects \subseteq DOMAIN projects'
      /\ \A p \in DOMAIN projects' :
           projects'[p] = row \/ (p \in DOMAIN projects /\ projects'[p] = projects[p])
  <2>1. CASE projects' = Append(projects, row)
    BY <1>1, <2>1, RowAppended
  <2>2. CASE \E p \in DOMAIN projects : projects' = [projects EXCEPT ![p] = row]
    BY <1>1, <2>2, RowReplaced
  <2>3. QED
    BY <2>1, <2>2
<1>3. QED
  BY <1>2 DEF TypesInv, ConnectedProjectsTypeOK, domainVars

LEMMA ProjectWrites ==
  ASSUME TypesInv, UNCHANGED hostVars, NEW c \in Calls,
         insertProject(c) \/ updateProject(c)
  PROVE  TypesInv'
<1>1. /\ Fits(calls[c], DOMAIN secrets, DOMAIN connections, DOMAIN projects)
      /\ \A P : Fits(Idle, DOMAIN secrets, DOMAIN connections, P)
  BY DEF TypesInv, Fits, Idle, CallType
<1>2. /\ HostConnectionsTypeOK' /\ UNCHANGED connections
      /\ \A n \in DOMAIN connections :
           /\ connections[n].accessRef \in DOMAIN secrets
           /\ connections[n].refreshRef \in DOMAIN secrets \cup {None}
  BY DEF hostVars, TypesInv, HostConnectionsTypeOK
<1>3. /\ Resumes(c) /\ UNCHANGED <<keyed, vaultReady, secrets, minted, domainVars>>
      /\ secrets' \in Seq(SecretRow)
  BY DEF insertProject, updateProject, vaultVars, TypesInv, CustodyTypeOK
<1>4. CASE insertProject(c) /\ UNCHANGED projects /\ EndCall(c)
  BY <1>1, <1>2, <1>3, <1>4, RowsKept, TypesResume DEF EndCall, projectVars
<1>5. CASE insertProject(c) /\ ~(UNCHANGED projects /\ EndCall(c))
  <2> DEFINE row == [domain |-> calls[c].domain, token |-> calls[c].token, ref |-> calls[c].ref,
                     healthy |-> FALSE]
             call == RunConformance(Len(projects) + 1)
  <2>1. /\ calls[c].op = "register" /\ calls[c].step = "insert"
        /\ projects' = Append(projects, row) /\ Await(c, call)
    BY <1>5 DEF insertProject, Serving
  <2>2. row \in ProjectRow /\ row.ref \in DOMAIN secrets
    <3>1. calls[c].ref \in DOMAIN secrets
      BY <1>1, <2>1 DEF Fits
    <3>2. DOMAIN secrets \subseteq References
      BY DEF TypesInv, CustodyTypeOK, References
    <3>3. QED
      BY <2>1, <3>1, <3>2, ProjectCalls DEF ProjectRow
  <2> HIDE DEF row
  <2>3. /\ ConnectedProjectsTypeOK' /\ DOMAIN projects \subseteq DOMAIN projects'
        /\ \A p \in DOMAIN projects' : projects'[p].ref \in DOMAIN secrets
    BY <1>3, <2>1, <2>2, ProjectRows
  <2>4. Len(projects) + 1 \in DOMAIN projects' /\ Len(projects) + 1 \in Nat
    BY <2>1, <2>2 DEF TypesInv, ConnectedProjectsTypeOK
  <2>5. Queueable(call) /\ Fits(call, DOMAIN secrets, DOMAIN connections, DOMAIN projects')
    BY <2>4 DEF RunConformance, Queueable, Fits, CallType, ProjectCall
  <2> HIDE DEF call
  <2>6. QED
    BY <1>2, <1>3, <2>1, <2>3, <2>5, TypesResume
<1>6. CASE updateProject(c)
  <2> DEFINE p == calls[c].project
             row == [projects[p] EXCEPT !.token = calls[c].token]
  <2>1. calls[c].op = "rotate" /\ EndCall(c) /\ projects' = [projects EXCEPT ![p].token = calls[c].token]
    BY <1>6 DEF updateProject, Serving
  <2>2. p \in DOMAIN projects /\ calls[c].token \in Tokens
    BY <1>1, <2>1, ProjectCalls DEF Fits
  <2>3. projects[p] \in ProjectRow /\ projects[p].ref \in DOMAIN secrets
    BY <2>2 DEF TypesInv, ConnectedProjectsTypeOK
  <2>4. row \in ProjectRow /\ row.ref = projects[p].ref /\ projects' = [projects EXCEPT ![p] = row]
    BY <2>1, <2>2, <2>3 DEF ProjectRow
  <2> HIDE DEF p, row
  <2>5. /\ ConnectedProjectsTypeOK' /\ DOMAIN projects \subseteq DOMAIN projects'
        /\ \A q \in DOMAIN projects' : projects'[q].ref \in DOMAIN secrets
    BY <1>3, <2>2, <2>3, <2>4, ProjectRows
  <2>6. QED
    BY <1>1, <1>2, <1>3, <2>1, <2>5, TypesResume DEF EndCall
<1>7. QED
  BY <1>4, <1>5, <1>6

LEMMA CallReplaced ==
  ASSUME TypesInv, NEW c \in Calls, NEW call, calls' = [calls EXCEPT ![c] = call]
  PROVE  calls'[c] = call /\ \A d \in Calls : d # c => calls'[d] = calls[d]
<1>1. calls = [d \in Calls |-> calls[d]]
  BY DEF TypesInv, QueueInv
<1> HIDE DEF TypesInv
<1>2. QED
  BY <1>1

\* What the answers of a domain make of a run.
LEMMA ChecksRead ==
  ASSUME TypesInv, NEW c \in Calls, readChecks(c)
  PROVE  /\ calls[c].op = "conformance" /\ calls[c].step = "check"
         /\ calls[c].project \in DOMAIN projects
         /\ UNCHANGED <<keyed, vaultReady, secrets, minted, waiting, domainVars>>
         /\ \A d \in Calls : d # c => calls'[d] = calls[d]
         /\ \/ /\ calls' = [calls EXCEPT ![c] = Idle]
               /\ \E passed \in BOOLEAN :
                    /\ passed => calls[c].passed /\ Len(calls[c].todo) = 1 /\ AnsweredWell(c)
                    /\ projects' = [projects EXCEPT ![calls[c].project].healthy = passed]
            \/ /\ \E passed \in BOOLEAN :
                    /\ passed => calls[c].passed /\ AnsweredWell(c)
                    /\ calls' = [calls EXCEPT ![c].todo = Tail(@), ![c].passed = passed]
               /\ Len(calls[c].todo) > 1
               /\ UNCHANGED projects
<1>1. /\ calls[c].op = "conformance" /\ calls[c].step = "check"
      /\ UNCHANGED <<keyed, vaultReady, secrets, minted, waiting, domainVars>>
  BY DEF readChecks, Serving, vaultVars
<1>2. calls[c].project \in DOMAIN projects
  BY <1>1 DEF TypesInv, Fits
<1> DEFINE impl == Facing(projects[calls[c].project].domain, calls[c].token)
<1>3. /\ passedAfter(calls[c], impl) \in BOOLEAN
      /\ passedAfter(calls[c], impl) /\ impl.up => calls[c].passed /\ AnsweredWell(c)
  BY DEF passedAfter, AnsweredWell
<1>4. \/ /\ impl.up
         /\ Len(calls[c].todo) > 1
         /\ calls' = [calls EXCEPT ![c].todo = Tail(@), ![c].passed = passedAfter(calls[c], impl)]
         /\ UNCHANGED projects
      \/ /\ impl.up
         /\ Len(calls[c].todo) = 1
         /\ setHealth(calls[c].project, passedAfter(calls[c], impl))
         /\ calls' = [calls EXCEPT ![c] = Idle]
      \/ /\ setHealth(calls[c].project, FALSE)
         /\ calls' = [calls EXCEPT ![c] = Idle]
  BY DEF readChecks
<1> HIDE DEF impl
<1>5. calls = [d \in Calls |-> calls[d]]
  BY DEF TypesInv, QueueInv
<1>6. \A d \in Calls : d # c => calls'[d] = calls[d]
  BY <1>4, <1>5
<1>7. QED
  BY <1>1, <1>2, <1>3, <1>4, <1>6 DEF setHealth

LEMMA ProjectReads ==
  ASSUME TypesInv, UNCHANGED hostVars, NEW c \in Calls, readChecks(c)
  PROVE  TypesInv'
<1>1. /\ calls[c].op = "conformance" /\ calls[c].step = "check"
      /\ calls[c].project \in DOMAIN projects
      /\ UNCHANGED <<keyed, vaultReady, secrets, minted, waiting, domainVars>>
      /\ \A d \in Calls : d # c => calls'[d] = calls[d]
  BY ChecksRead
<1>2. \A n \in DOMAIN waiting : waiting[n] # c
  BY <1>1 DEF TypesInv, QueueInv, Queueable
<1>3. calls = [d \in Calls |-> calls[d]]
  BY DEF TypesInv, QueueInv
<1>4. DOMAIN calls' = Calls /\ calls' = [d \in Calls |-> calls'[d]]
  BY <1>3, ChecksRead
<1>5. QueueInv'
  <2>1. \A n \in DOMAIN waiting : waiting[n] \in Calls /\ calls'[waiting[n]] = calls[waiting[n]]
    BY <1>1, <1>2 DEF TypesInv, QueueInv
  <2>2. QED
    BY <1>1, <1>4, <2>1 DEF TypesInv, QueueInv
<1>6. CustodyTypeOK'
  BY <1>1 DEF TypesInv, CustodyTypeOK
<1>7. /\ HostConnectionsTypeOK' /\ UNCHANGED connections
      /\ \A n \in DOMAIN connections :
           /\ connections[n].accessRef \in DOMAIN secrets
           /\ connections[n].refreshRef \in DOMAIN secrets \cup {None}
  BY DEF hostVars, TypesInv, HostConnectionsTypeOK
<1>8. ASSUME calls' = [calls EXCEPT ![c] = Idle], NEW passed \in BOOLEAN,
             projects' = [projects EXCEPT ![calls[c].project].healthy = passed]
      PROVE  TypesInv'
  <2> DEFINE p == calls[c].project
             row == [projects[p] EXCEPT !.healthy = passed]
  <2>1. projects[p] \in ProjectRow /\ projects[p].ref \in DOMAIN secrets
    BY <1>1 DEF TypesInv, ConnectedProjectsTypeOK
  <2>2. row \in ProjectRow /\ row.ref = projects[p].ref /\ projects' = [projects EXCEPT ![p] = row]
    BY <1>8, <2>1 DEF ProjectRow
  <2> HIDE DEF p, row
  <2>3. p \in DOMAIN projects
    BY <1>1 DEF p
  <2>4. /\ ConnectedProjectsTypeOK' /\ DOMAIN projects \subseteq DOMAIN projects'
        /\ \A q \in DOMAIN projects' : projects'[q].ref \in DOMAIN secrets
    BY <1>1, <2>1, <2>2, <2>3, ProjectRows
  <2>5. calls'[c] = Idle
    BY <1>3, <1>8
  <2>6. Fits(Idle, DOMAIN secrets, DOMAIN connections, DOMAIN projects')
    BY DEF Fits, Idle, CallType
  <2>7. QED
    BY <1>1, <1>5, <1>6, <1>7, <2>4, <2>5, <2>6, TypesKept
<1>9. ASSUME NEW passed \in BOOLEAN, Len(calls[c].todo) > 1, UNCHANGED projects,
             calls' = [calls EXCEPT ![c].todo = Tail(@), ![c].passed = passed]
      PROVE  TypesInv'
  <2> DEFINE type == [op : {"conformance"}, step : {"check"}, project : Nat, token : Tokens,
                      todo : Seq(SUBSET Suite) \ {<<>>}, passed : BOOLEAN]
             rest == Tail(calls[c].todo)
  <2>1. calls[c] \in type
    BY <1>1, ProjectCalls
  <2>2. rest \in Seq(SUBSET Suite) \ {<<>>}
    <3>1. calls[c].todo \in Seq(SUBSET Suite)
      BY <2>1
    <3>2. QED
      BY <1>9, <3>1, RestOfQueue
  <2>3. calls'[c] = [calls[c] EXCEPT !.todo = rest, !.passed = passed]
    BY <1>3, <1>9
  <2> HIDE DEF rest
  <2>4. calls'[c] \in type /\ calls'[c].project = calls[c].project
    BY <2>1, <2>2, <2>3
  <2>5. calls'[c] \in CallType /\ calls'[c].op = "conformance"
    BY <2>4 DEF CallType, ProjectCall
  <2>6. Fits(calls'[c], DOMAIN secrets, DOMAIN connections, DOMAIN projects)
    BY <1>1, <2>4, <2>5 DEF Fits
  <2>7. ConnectedProjectsTypeOK' /\ \A q \in DOMAIN projects : projects[q].ref \in DOMAIN secrets
    BY <1>1, <1>9 DEF TypesInv, ConnectedProjectsTypeOK, domainVars
  <2>8. QED
    BY <1>1, <1>5, <1>6, <1>7, <1>9, <2>6, <2>7, TypesKept
<1>10. QED
  BY <1>8, <1>9, ChecksRead

\* Steps after which the calls, the vault and the rows of both tables are as before.
LEMMA QuietSteps ==
  ASSUME TypesInv, UNCHANGED <<keyed, secrets, minted, calls, waiting, connections, projects>>,
         vaultReady' \in BOOLEAN, HostConnectionsTypeOK', ConnectedProjectsTypeOK'
  PROVE  TypesInv'
<1>1. QueueInv' /\ CustodyTypeOK'
  BY DEF TypesInv, QueueInv, CustodyTypeOK
<1>2. QED
  BY <1>1 DEF TypesInv

LEMMA CodeSteps ==
  ASSUME TypesInv, UNCHANGED projectVars,
         \/ \E client \in Clients : authorize(client)
         \/ \E m \in DOMAIN codes : codeExpires(m)
  PROVE  TypesInv'
<1>1. codes \in Seq(CodeRow) /\ Len(codes) <= MaxCodes /\ connections \in Seq(ConnectionRow)
  BY DEF TypesInv, HostConnectionsTypeOK
<1>2. UNCHANGED <<custodyVars, connections>>
  BY DEF authorize, codeExpires
<1>3. codes' \in Seq(CodeRow) /\ Len(codes') <= MaxCodes
  <2>1. ASSUME NEW client \in Clients, authorize(client)
        PROVE  codes' \in Seq(CodeRow) /\ Len(codes') <= MaxCodes
    <3>1. [client |-> client, live |-> TRUE] \in CodeRow
      BY DEF CodeRow
    <3>2. Len(codes) < MaxCodes /\ codes' = Append(codes, [client |-> client, live |-> TRUE])
      BY <2>1 DEF authorize
    <3> HIDE <2>1
    <3> DEFINE row == [client |-> client, live |-> TRUE]
    <3> HIDE DEF row
    <3>3. row \in CodeRow /\ codes' = Append(codes, row)
      BY <3>1, <3>2 DEF row
    <3>4. codes' \in Seq(CodeRow) /\ Len(codes') = Len(codes) + 1
      BY <1>1, <3>3, RowAppended
    <3>5. Len(codes) \in Nat
      BY <1>1
    <3>6. QED
      BY <3>2, <3>4, <3>5, HostConnectionsAssumption
  <2>2. ASSUME NEW m \in DOMAIN codes, codeExpires(m)
        PROVE  codes' \in Seq(CodeRow) /\ Len(codes') <= MaxCodes
    <3> DEFINE row == [codes[m] EXCEPT !.live = FALSE]
    <3>1. codes[m] \in CodeRow
      BY <1>1
    <3>2. row \in CodeRow
      BY <3>1 DEF CodeRow
    <3>3. codes' = [codes EXCEPT ![m] = row]
      BY <2>2 DEF codeExpires
    <3> HIDE DEF row
    <3>4. QED
      BY <1>1, <3>2, <3>3, RowReplaced
  <2>3. QED
    BY <2>1, <2>2
<1>4. HostConnectionsTypeOK' /\ ConnectedProjectsTypeOK'
  BY <1>1, <1>2, <1>3
  DEF HostConnectionsTypeOK, ConnectedProjectsTypeOK, TypesInv, projectVars, domainVars
<1>5. vaultReady' \in BOOLEAN
  BY <1>2 DEF custodyVars, vaultVars, TypesInv, CustodyTypeOK
<1>6. QED
  BY <1>2, <1>4, <1>5, QuietSteps DEF custodyVars, vaultVars, projectVars

LEMMA DomainsChange ==
  ASSUME TypesInv, DomainSteps
  PROVE  TypesInv'
<1>1. UNCHANGED <<custodyVars, hostVars, projects>>
  BY DEF DomainSteps, domainChanges, installToken
<1>2. projects \in Seq(ProjectRow) /\ behaviour \in Meanings /\ installed \in [Domains -> 0 .. MaxTokens]
  BY DEF TypesInv, ConnectedProjectsTypeOK
<1>3. ASSUME NEW d \in Domains, domainChanges(d)
      PROVE  ConnectedProjectsTypeOK'
  <2>1. PICK b \in Behaviours[d] : behaviour' = [behaviour EXCEPT ![d] = b]
    BY <1>3 DEF domainChanges
  <2>2. behaviour' \in Meanings
    BY <1>2, <2>1 DEF Meanings
  <2>3. QED
    BY <1>2, <1>3, <2>2 DEF domainChanges, ConnectedProjectsTypeOK
<1>4. ASSUME NEW d \in Domains, installToken(d)
      PROVE  ConnectedProjectsTypeOK'
  <2>1. PICK p \in DOMAIN projects : installed' = [installed EXCEPT ![d] = projects[p].token]
    BY <1>4 DEF installToken
  <2>2. projects[p].token \in 0 .. MaxTokens
    <3>1. projects[p] \in ProjectRow
      BY <1>2
    <3>2. QED
      BY <3>1 DEF ProjectRow, Tokens
  <2>3. QED
    BY <1>2, <1>4, <2>1, <2>2 DEF installToken, ConnectedProjectsTypeOK
<1>5. HostConnectionsTypeOK' /\ vaultReady' \in BOOLEAN
  BY <1>1 DEF TypesInv, HostConnectionsTypeOK, hostVars, custodyVars, vaultVars, CustodyTypeOK
<1>6. QED
  BY <1>1, <1>3, <1>4, <1>5, QuietSteps DEF DomainSteps, custodyVars, vaultVars, hostVars

LEMMA Restarts ==
  ASSUME TypesInv, restart
  PROVE  TypesInv'
<1>1. /\ waiting' = <<>> /\ calls' = [c \in Calls |-> Idle]
      /\ keyed' \in BOOLEAN /\ vaultReady' \in BOOLEAN
      /\ UNCHANGED <<minted, secrets, hostVars, projectVars>>
  BY DEF restart, ProcessRestarts
<1>2. QueueInv'
  <2>1. waiting' \in Seq(Calls) /\ DOMAIN waiting' = {} /\ calls' = [c \in Calls |-> calls'[c]]
    BY <1>1
  <2>2. QED
    BY <2>1 DEF QueueInv
<1>3. CustodyTypeOK'
  BY <1>1, <1>2 DEF TypesInv, QueueInv, CustodyTypeOK
<1>4. \A c \in Calls : Fits(calls'[c], DOMAIN secrets', DOMAIN connections', DOMAIN projects')
  BY <1>1 DEF Fits, Idle, CallType
<1>5. QED
  BY <1>1, <1>2, <1>3, <1>4, RowsKept DEF TypesInv, hostVars, projectVars

LEMMA TypesInvariance == AccessSpec => []TypesInv
<1>1. AccessInit => TypesInv
  <2> SUFFICES ASSUME AccessInit PROVE TypesInv
    OBVIOUS
  <2>1. /\ keyed \in BOOLEAN /\ vaultReady = FALSE /\ secrets = <<>> /\ minted = 0
        /\ calls = [c \in Calls |-> Idle] /\ waiting = <<>>
        /\ codes = <<>> /\ connections = <<>>
        /\ projects = <<>> /\ behaviour \in Meanings /\ installed = [d \in Domains |-> 0]
    BY DEF AccessInit, CustodyInit, HostConnectionsInit, ConnectedProjectsInit
  <2>2. QueueInv
    <3>1. waiting \in Seq(Calls) /\ DOMAIN waiting = {} /\ calls = [c \in Calls |-> calls[c]]
      BY <2>1
    <3>2. QED
      BY <3>1 DEF QueueInv
  <2>3. CustodyTypeOK
    <3>1. <<>> \in Seq(SecretRow) /\ 0 \in 0 .. MaxTokens
      BY CustodyAssumption
    <3>2. QED
      BY <2>1, <2>2, <3>1 DEF CustodyTypeOK, QueueInv
  <2>4. HostConnectionsTypeOK /\ ConnectedProjectsTypeOK
    BY <2>1, CustodyAssumption, HostConnectionsAssumption
    DEF HostConnectionsTypeOK, ConnectedProjectsTypeOK
  <2>5. \A c \in Calls : Fits(calls[c], DOMAIN secrets, DOMAIN connections, DOMAIN projects)
    BY <2>1 DEF Fits, Idle, CallType
  <2>6. DOMAIN connections = {} /\ DOMAIN projects = {}
    BY <2>1
  <2>7. QED
    BY <2>2, <2>3, <2>4, <2>5, <2>6 DEF TypesInv
<1>2. TypesInv /\ [AccessNext]_accessVars => TypesInv'
  <2> SUFFICES ASSUME TypesInv, [AccessNext]_accessVars PROVE TypesInv'
    OBVIOUS
  <2>1. ASSUME UNCHANGED <<keyed, secrets, minted, calls, waiting, hostVars, projectVars>>,
               vaultReady' \in BOOLEAN
        PROVE  TypesInv'
    BY <2>1, QuietSteps
    DEF TypesInv, HostConnectionsTypeOK, ConnectedProjectsTypeOK, hostVars, projectVars, domainVars
  <2>2. CASE UNCHANGED accessVars
    BY <2>1, <2>2 DEF accessVars, custodyVars, vaultVars, TypesInv, CustodyTypeOK
  <2>3. CASE OperatorAuthNext /\ UNCHANGED <<custodyVars, hostVars, projectVars>>
    BY <2>1, <2>3 DEF custodyVars, vaultVars, TypesInv, CustodyTypeOK
  <2>4. CASE libsodiumLoads /\ UNCHANGED <<authVars, hostVars, projectVars>>
    BY <2>1, <2>4 DEF libsodiumLoads
  <2>5. CASE OperatorRequests
    BY <2>5, CodeSteps, HostEnds, HostBegins, ProjectBegins DEF OperatorRequests
  <2>6. CASE HostRequests
    BY <2>6, HostEnds, HostBegins DEF HostRequests
  <2>7. CASE Elapses
    BY <2>7, CodeSteps, HostEnds DEF Elapses
  <2>8. ASSUME NEW c \in Calls, Steps(c)
        PROVE  TypesInv'
    BY <2>8, HostSeals, HostWrites, ProjectSeals, ProjectWrites, ProjectReads
    DEF Steps, HostSteps, ProjectSteps
  <2>9. CASE DomainSteps
    BY <2>9, DomainsChange
  <2>10. CASE restart
    BY <2>10, Restarts
  <2>11. CASE diesInRevocation
    BY <2>11, HostEnds DEF diesInRevocation
  <2>12. QED
    BY <2>2, <2>3, <2>4, <2>5, <2>6, <2>7, <2>8, <2>9, <2>10, <2>11 DEF AccessNext
<1>3. QED
  BY <1>1, <1>2, PTL DEF AccessSpec

\* The tables, the vault and the records of the awaiting calls are well-formed,
\* and every reference, connection and project a row or a call names exists.
THEOREM AccessTypeCorrect == AccessSpec => []AccessTypeOK
<1>1. AuthInv /\ TypesInv => AccessTypeOK
  <2> SUFFICES ASSUME AuthInv, TypesInv PROVE AccessTypeOK
    OBVIOUS
  <2>1. \A c \in Calls : calls[c] \in {Idle} \cup HostCall \cup ProjectCall
    BY DEF TypesInv, Fits, CallType
  <2>2. calls = [c \in Calls |-> calls[c]]
    BY DEF TypesInv, QueueInv
  <2>3. calls \in [Calls -> {Idle} \cup HostCall \cup ProjectCall]
    BY <2>1, <2>2
  <2>4. QED
    BY <2>3 DEF AuthInv, TypesInv, AccessTypeOK
<1>2. QED
  BY <1>1, AuthInvariance, TypesInvariance, PTL

-----------------------------------------------------------------------------
(* Consent *)

Exchanging(c) == calls[c].op = "issue"

\* A code in the hands of a call, or of a connection, is gone from the table
\* and is in no other hands.
ConsentInv ==
  /\ \A c \in Calls : Exchanging(c) => calls[c].code \in DOMAIN codes /\ ~codes[calls[c].code].live
  /\ \A c \in Calls : calls[c].op = "mint" => calls[c].code = None
  /\ \A n \in DOMAIN connections : connections[n].code # None =>
       connections[n].code \in DOMAIN codes /\ ~codes[connections[n].code].live
  /\ \A c, d \in Calls : Exchanging(c) /\ Exchanging(d) /\ calls[c].code = calls[d].code => c = d
  /\ \A c \in Calls : Exchanging(c) =>
       \A n \in DOMAIN connections : connections[n].code # calls[c].code
  /\ GrantPerConsent

\* The calls that are exchanging a code do not become more, and keep theirs.
CodesHeld ==
  \A c \in Calls :
    /\ (Exchanging(c))' => Exchanging(c) /\ calls'[c].code = calls[c].code
    /\ calls'[c].op = "mint" => calls'[c].code = None

LEMMA ConsentKept ==
  ASSUME ConsentInv, TypesInv, CodesHeld,
         DOMAIN codes \subseteq DOMAIN codes',
         \A m \in DOMAIN codes : ~codes[m].live => ~codes'[m].live,
         DOMAIN connections' = DOMAIN connections,
         \A n \in DOMAIN connections : connections'[n].code = connections[n].code
  PROVE  ConsentInv'
BY DEF ConsentInv, CodesHeld, Exchanging, GrantPerConsent

LEMMA ConsentBegins ==
  ASSUME ConsentInv, TypesInv, NEW c \in Calls,
         \E m \in DOMAIN codes, client \in Clients : exchangeAuthorizationCode(c, m, client)
  PROVE  ConsentInv'
<1>1. PICK m \in DOMAIN codes : \E client \in Clients : exchangeAuthorizationCode(c, m, client)
  OBVIOUS
<1>2. /\ codes[m].live /\ UNCHANGED connections
      /\ codes' = [codes EXCEPT ![m].live = FALSE]
      /\ calls' = [calls EXCEPT ![c] = Minting("issue", "access", m)]
      /\ calls[c] = Idle
  BY <1>1 DEF exchangeAuthorizationCode, deleteCode, Begin
<1>3. /\ calls'[c].op = "issue" /\ calls'[c].code = m
      /\ \A d \in Calls : d # c => calls'[d] = calls[d]
  BY <1>2 DEF TypesInv, QueueInv, Minting
<1>4. codes \in Seq(CodeRow) /\ m # None
  BY DEF TypesInv, HostConnectionsTypeOK, None
<1>5. DOMAIN codes' = DOMAIN codes /\ \A k \in DOMAIN codes : ~codes[k].live \/ k = m => ~codes'[k].live
  <2> DEFINE row == [codes[m] EXCEPT !.live = FALSE]
  <2>1. codes[m] \in CodeRow
    BY <1>4
  <2>2. row \in CodeRow /\ ~row.live
    BY <2>1 DEF CodeRow
  <2>3. codes' = [codes EXCEPT ![m] = row]
    BY <1>2
  <2> HIDE DEF row
  <2>4. QED
    BY <1>4, <2>2, <2>3, RowReplaced
<1>6. \A d \in Calls : Exchanging(d) => calls[d].code # m
  BY <1>2 DEF ConsentInv
<1>7. \A n \in DOMAIN connections : connections[n].code # m
  BY <1>2, <1>4 DEF ConsentInv
<1>8. QED
  BY <1>2, <1>3, <1>5, <1>6, <1>7 DEF ConsentInv, Exchanging, GrantPerConsent

LEMMA ConsentGrants ==
  ASSUME ConsentInv, TypesInv, NEW c \in Calls, insertConnection(c)
  PROVE  ConsentInv'
<1> DEFINE row == [kind |-> IF calls[c].op = "mint" THEN "static" ELSE "oauth",
                   code |-> calls[c].code, status |-> "active", token |-> calls[c].token,
                   fresh |-> TRUE, accessRef |-> calls[c].accessRef,
                   refreshRef |-> calls[c].refreshRef]
<1>1. /\ calls[c].op \in {"mint", "issue"} /\ UNCHANGED codes
      /\ connections' = Append(connections, row) /\ row.code = calls[c].code
      /\ calls' = [calls EXCEPT ![c] = Idle]
  BY DEF insertConnection, IsAt, EndCall, AwaitNetwork
<1> HIDE DEF row
<1>2. connections \in Seq(ConnectionRow) /\ calls = [d \in Calls |-> calls[d]]
  BY DEF TypesInv, HostConnectionsTypeOK, QueueInv
<1>3. /\ DOMAIN connections' = DOMAIN connections \cup {Len(connections) + 1}
      /\ connections'[Len(connections) + 1] = row
      /\ \A n \in DOMAIN connections : connections'[n] = connections[n]
  BY <1>1, <1>2
<1>4. calls'[c].op = "idle" /\ \A d \in Calls : d # c => calls'[d] = calls[d]
  BY <1>1, <1>2 DEF Idle
<1>5. CASE calls[c].op = "mint"
  <2>1. row.code = None
    BY <1>1, <1>5 DEF ConsentInv
  <2>2. GrantPerConsent'
    BY <1>3, <2>1 DEF ConsentInv, GrantPerConsent
  <2>3. \A d \in Calls : Exchanging(d) => calls[d].code # None
    BY <1>2 DEF ConsentInv, TypesInv, HostConnectionsTypeOK, None
  <2>4. QED
    BY <1>1, <1>3, <1>4, <2>1, <2>2, <2>3 DEF ConsentInv, Exchanging
<1>6. CASE calls[c].op = "issue"
  <2>1. /\ row.code \in DOMAIN codes /\ ~codes[row.code].live
        /\ \A n \in DOMAIN connections : connections[n].code # row.code
        /\ \A d \in Calls : d # c /\ Exchanging(d) => calls[d].code # row.code
    BY <1>1, <1>6 DEF ConsentInv, Exchanging
  <2>2. GrantPerConsent'
    BY <1>3, <2>1 DEF ConsentInv, GrantPerConsent
  <2>3. QED
    BY <1>1, <1>3, <1>4, <2>1, <2>2 DEF ConsentInv, Exchanging
<1>7. QED
  BY <1>1, <1>5, <1>6

\* A new call other than an exchange, or a call that goes on or ends.
LEMMA CallsHold ==
  ASSUME ConsentInv, TypesInv, NEW c \in Calls, NEW call,
         calls' = [calls EXCEPT ![c] = call],
         call.op = "issue" => Exchanging(c) /\ call.code = calls[c].code,
         call.op = "mint" => call.code = None
  PROVE  CodesHeld
<1>1. calls'[c] = call /\ \A d \in Calls : d # c => calls'[d] = calls[d]
  BY DEF TypesInv, QueueInv
<1>2. QED
  BY <1>1 DEF CodesHeld, Exchanging, ConsentInv

LEMMA ConsentStays ==
  ASSUME ConsentInv, TypesInv, UNCHANGED <<codes, connections>>, CodesHeld
  PROVE  ConsentInv'
BY ConsentKept

LEMMA ConsentSeals ==
  ASSUME ConsentInv, TypesInv, NEW c \in Calls,
         \/ storeAccess(c) \/ storeRefresh(c) \/ rotateAccess(c)
         \/ storeProjectToken(c) \/ rotateSealed(c) \/ resolveToken(c)
  PROVE  CodesHeld
<1>1. PICK call : calls' = [calls EXCEPT ![c] = call] /\ (call = Idle \/ (call.op = calls[c].op
                    /\ (call.op \in {"issue", "mint"} => call.code = calls[c].code)))
  <2>1. CASE storeAccess(c)
    <3> DEFINE stored == [calls[c] EXCEPT !.accessRef = Len(secrets) + 1,
                            !.step = IF calls[c].op = "issue" THEN "refresh" ELSE "insert"]
    <3>1. calls' = [calls EXCEPT ![c] = stored] \/ calls' = [calls EXCEPT ![c] = Idle]
      BY <2>1 DEF storeAccess, storeSecret, Await, EndCall, AwaitNetwork
    <3>2. calls[c] \in MintCall
      BY <2>1, HostCalls DEF storeAccess, IsAt
    <3>3. stored.op = calls[c].op /\ stored.code = calls[c].code
      BY <3>2 DEF MintCall
    <3> HIDE DEF stored
    <3>4. QED
      BY <3>1, <3>3
  <2>2. CASE storeRefresh(c)
    <3> DEFINE stored == [calls[c] EXCEPT !.refreshRef = Len(secrets) + 1, !.step = "insert"]
    <3>1. calls' = [calls EXCEPT ![c] = stored] \/ calls' = [calls EXCEPT ![c] = Idle]
      BY <2>2 DEF storeRefresh, storeSecret, Await, EndCall, AwaitNetwork
    <3>2. calls[c] \in MintCall
      BY <2>2, HostCalls DEF storeRefresh, IsAt
    <3>3. stored.op = calls[c].op /\ stored.code = calls[c].code
      BY <3>2 DEF MintCall
    <3> HIDE DEF stored
    <3>4. QED
      BY <3>1, <3>3
  <2>3. CASE rotateAccess(c) \/ rotateSealed(c)
    <3> DEFINE rotated == [calls[c] EXCEPT !.step = "update"]
    <3>1. calls' = [calls EXCEPT ![c] = rotated] \/ calls' = [calls EXCEPT ![c] = Idle]
      BY <2>3 DEF rotateAccess, rotateSealed, rotateSecret, Await, EndCall, AwaitNetwork
    <3>2. calls[c].op \in {"refresh", "rotate"}
      BY <2>3 DEF rotateAccess, rotateSealed, IsAt, Serving
    <3>3. rotated.op = calls[c].op
      BY <3>2, HostCalls, ProjectCalls
    <3> HIDE DEF rotated
    <3>4. QED
      BY <3>1, <3>2, <3>3
  <2>4. CASE storeProjectToken(c)
    <3> DEFINE stored == [calls[c] EXCEPT !.ref = Len(secrets) + 1, !.step = "insert"]
    <3>1. calls' = [calls EXCEPT ![c] = stored] \/ calls' = [calls EXCEPT ![c] = Idle]
      BY <2>4 DEF storeProjectToken, storeSecret, Await, EndCall, AwaitNetwork
    <3>2. calls[c].op = "register"
      BY <2>4 DEF storeProjectToken, Serving
    <3>3. stored.op = calls[c].op
      BY <3>2, ProjectCalls
    <3> HIDE DEF stored
    <3>4. QED
      BY <3>1, <3>2, <3>3
  <2>5. CASE resolveToken(c)
    <3> DEFINE blank == [op |-> "conformance", step |-> "check", project |-> calls[c].project,
                         token |-> Wiped, todo |-> Order, passed |-> TRUE]
               resolved == [blank EXCEPT !.token = secrets[projects[calls[c].project].ref].token]
    <3>1. calls' = [calls EXCEPT ![c] = resolved] \/ calls' = [calls EXCEPT ![c] = Idle]
      BY <2>5 DEF resolveToken, resolveSecret, EndCall, AwaitNetwork
    <3>2. calls[c].op = "conformance" /\ resolved.op = "conformance"
      BY <2>5 DEF resolveToken, Serving
    <3> HIDE DEF resolved
    <3>3. QED
      BY <3>1, <3>2
  <2>6. QED
    BY <2>1, <2>2, <2>3, <2>4, <2>5
<1>2. calls[c].op = "mint" => calls[c].code = None
  BY DEF ConsentInv
<1>3. call.op = "issue" => Exchanging(c) /\ call.code = calls[c].code
  BY <1>1 DEF Idle, Exchanging
<1>4. call.op = "mint" => call.code = None
  BY <1>1, <1>2 DEF Idle
<1>5. QED
  BY <1>1, <1>3, <1>4, CallsHold

LEMMA ConsentBegun ==
  ASSUME ConsentInv, TypesInv, NEW c \in Calls,
         \/ mintStaticHostToken(c)
         \/ \E n \in DOMAIN connections : exchangeRefreshToken(c, n)
         \/ \E d \in Domains : registerProject(c, d)
         \/ \E p \in DOMAIN projects : runConformanceFor(c, p) \/ rotateProjectToken(c, p)
  PROVE  CodesHeld
<1>1. CASE mintStaticHostToken(c)
  <2> DEFINE call == Minting("mint", "access", None)
  <2>1. call.op = "mint" /\ call.code = None
    BY DEF Minting
  <2>2. calls' = [calls EXCEPT ![c] = call]
    BY <1>1 DEF mintStaticHostToken, Begin
  <2> HIDE DEF call
  <2>3. QED
    BY <2>1, <2>2, CallsHold
<1>2. ASSUME NEW n \in DOMAIN connections, exchangeRefreshToken(c, n)
      PROVE  CodesHeld
  BY <1>2, CallsHold DEF exchangeRefreshToken, Begin
<1>3. ASSUME NEW d \in Domains, registerProject(c, d)
      PROVE  CodesHeld
  BY <1>3, CallsHold DEF registerProject, Begin
<1>4. ASSUME NEW p \in DOMAIN projects, runConformanceFor(c, p) \/ rotateProjectToken(c, p)
      PROVE  CodesHeld
  BY <1>4, CallsHold DEF runConformanceFor, rotateProjectToken, RunConformance, Begin
<1>5. QED
  BY <1>1, <1>2, <1>3, <1>4

LEMMA ConsentWrites ==
  ASSUME ConsentInv, TypesInv, NEW c \in Calls,
         updateGrant(c) \/ insertProject(c) \/ updateProject(c) \/ readChecks(c)
  PROVE  CodesHeld
<1>1. CASE readChecks(c)
  <2>1. calls[c].op = "conformance" /\ calls[c].step = "check"
        /\ \A d \in Calls : d # c => calls'[d] = calls[d]
    BY <1>1, ChecksRead
  <2>2. calls[c] \in [op : {"conformance"}, step : {"check"}, project : Nat, token : Tokens,
                      todo : Seq(SUBSET Suite) \ {<<>>}, passed : BOOLEAN]
    BY <2>1, ProjectCalls
  <2>3. ASSUME NEW passed, calls' = [calls EXCEPT ![c].todo = Tail(@), ![c].passed = passed]
        PROVE  calls'[c].op = "conformance"
    <3> DEFINE call == [calls[c] EXCEPT !.todo = Tail(@), !.passed = passed]
    <3>1. call.op = "conformance"
      BY <2>2
    <3>2. calls' = [calls EXCEPT ![c] = call]
      BY <2>2, <2>3
    <3> HIDE DEF call
    <3>3. QED
      BY <3>1, <3>2, CallReplaced
  <2>4. ASSUME calls' = [calls EXCEPT ![c] = Idle]
        PROVE  calls'[c].op = "idle"
    <3>1. calls'[c] = Idle
      BY <2>4, CallReplaced
    <3>2. QED
      BY <3>1 DEF Idle
  <2>5. calls'[c].op \in {"idle", "conformance"}
    BY <1>1, <2>3, <2>4, ChecksRead
  <2>6. QED
    BY <2>1, <2>5 DEF CodesHeld, Exchanging, ConsentInv
<1>2. CASE updateGrant(c) \/ insertProject(c) \/ updateProject(c)
  <2>1. \/ calls' = [calls EXCEPT ![c] = Idle]
        \/ calls' = [calls EXCEPT ![c] = RunConformance(Len(projects) + 1)]
    BY <1>2 DEF updateGrant, insertProject, updateProject, EndCall, Await, AwaitNetwork
  <2>2. RunConformance(Len(projects) + 1).op = "conformance" /\ Idle.op = "idle"
    BY DEF RunConformance, Idle
  <2>3. QED
    BY <2>1, <2>2, CallsHold
<1>3. QED
  BY <1>1, <1>2

\* A row of the connections is written in place: its code stays.
LEMMA ConsentMarks ==
  ASSUME TypesInv, NEW n \in DOMAIN connections,
         \/ accessExpires(n) \/ revokeHostConnection(n) \/ revokeToken(n) \/ revocationCutShort(n)
         \/ \E c \in Calls : updateGrant(c) /\ calls[c].connection = n
  PROVE  /\ DOMAIN connections' = DOMAIN connections
         /\ \A m \in DOMAIN connections : connections'[m].code = connections[m].code
         /\ UNCHANGED codes
<1>1. connections \in Seq(ConnectionRow) /\ connections[n] \in ConnectionRow
  BY DEF TypesInv, HostConnectionsTypeOK
<1>2. UNCHANGED codes
  BY DEF accessExpires, revokeHostConnection, revokeToken, revocationCutShort, updateGrant, markRevoked
<1>3. \E row : row.code = connections[n].code /\ connections' = [connections EXCEPT ![n] = row]
  <2>1. CASE accessExpires(n)
    <3> DEFINE row == [connections[n] EXCEPT !.fresh = FALSE]
    <3>1. row.code = connections[n].code /\ connections' = [connections EXCEPT ![n] = row]
      BY <1>1, <2>1 DEF accessExpires, ConnectionRow
    <3>2. QED
      BY <3>1
  <2>2. CASE revokeHostConnection(n) \/ revokeToken(n) \/ revocationCutShort(n)
    <3> DEFINE row == [connections[n] EXCEPT !.status = "revoked"]
    <3>1. row.code = connections[n].code
      BY <1>1 DEF ConnectionRow
    <3>2. connections' = [connections EXCEPT ![n] = row]
      BY <2>2 DEF revokeHostConnection, revokeToken, revocationCutShort, markRevoked
    <3> HIDE DEF row
    <3>3. QED
      BY <3>1, <3>2
  <2>3. ASSUME NEW c \in Calls, updateGrant(c), calls[c].connection = n
        PROVE  \E row : row.code = connections[n].code /\ connections' = [connections EXCEPT ![n] = row]
    <3> DEFINE row == [connections[n] EXCEPT !.token = calls[c].token, !.fresh = TRUE]
    <3>1. row.code = connections[n].code
      BY <1>1 DEF ConnectionRow
    <3>2. connections' = [connections EXCEPT ![n].token = calls[c].token, ![n].fresh = TRUE]
      BY <2>3 DEF updateGrant
    <3>3. connections' = [connections EXCEPT ![n] = row]
      BY <1>1, <3>2 DEF ConnectionRow
    <3> HIDE DEF row
    <3>4. QED
      BY <3>1, <3>3
  <2>4. QED
    BY <2>1, <2>2, <2>3
<1>4. PICK row : row.code = connections[n].code /\ connections' = [connections EXCEPT ![n] = row]
  BY <1>3
<1>5. QED
  BY <1>1, <1>2, <1>4

LEMMA ConsentCodes ==
  ASSUME ConsentInv, TypesInv, UNCHANGED <<calls, connections>>,
         \/ \E client \in Clients : authorize(client)
         \/ \E m \in DOMAIN codes : codeExpires(m)
  PROVE  ConsentInv'
<1>1. codes \in Seq(CodeRow)
  BY DEF TypesInv, HostConnectionsTypeOK
<1>2. /\ DOMAIN codes \subseteq DOMAIN codes'
      /\ \A m \in DOMAIN codes : ~codes[m].live => ~codes'[m].live
  <2>1. ASSUME NEW client \in Clients, codes' = Append(codes, [client |-> client, live |-> TRUE])
        PROVE  <1>2!1 /\ <1>2!2
    BY <1>1, <2>1
  <2>2. ASSUME NEW m \in DOMAIN codes, codes' = [codes EXCEPT ![m].live = FALSE]
        PROVE  <1>2!1 /\ <1>2!2
    <3>1. \A k \in DOMAIN codes : codes[k] \in CodeRow
      BY <1>1
    <3>2. DOMAIN codes' = DOMAIN codes /\ codes'[m] = [codes[m] EXCEPT !.live = FALSE]
          /\ \A k \in DOMAIN codes : k # m => codes'[k] = codes[k]
      BY <2>2
    <3>3. ~codes'[m].live
      BY <3>1, <3>2 DEF CodeRow
    <3>4. QED
      BY <3>2, <3>3
  <2>3. QED
    BY <2>1, <2>2 DEF authorize, codeExpires
<1>3. CodesHeld
  BY DEF CodesHeld, Exchanging, ConsentInv
<1>4. QED
  BY <1>2, <1>3, ConsentKept

LEMMA ConsentRestarts ==
  ASSUME ProcessRestarts
  PROVE  CodesHeld
BY DEF ProcessRestarts, CodesHeld, Exchanging, Idle

LEMMA ConsentInvariance == AccessSpec => []ConsentInv
<1>1. AccessInit => ConsentInv
  <2> SUFFICES ASSUME AccessInit PROVE ConsentInv
    OBVIOUS
  <2>1. calls = [c \in Calls |-> Idle] /\ DOMAIN connections = {}
    BY DEF AccessInit, CustodyInit, HostConnectionsInit
  <2>2. QED
    BY <2>1 DEF ConsentInv, Exchanging, GrantPerConsent, Idle
<1>2. TypesInv /\ ConsentInv /\ [AccessNext]_accessVars => ConsentInv'
  <2> SUFFICES ASSUME TypesInv, ConsentInv, [AccessNext]_accessVars PROVE ConsentInv'
    OBVIOUS
  <2>1. ASSUME UNCHANGED <<calls, codes, connections>>
        PROVE  ConsentInv'
    BY <2>1 DEF ConsentInv, Exchanging, GrantPerConsent
  <2>2. CASE UNCHANGED accessVars \/ (OperatorAuthNext /\ UNCHANGED <<custodyVars, hostVars, projectVars>>)
    BY <2>1, <2>2 DEF accessVars, custodyVars, hostVars
  <2>3. CASE libsodiumLoads /\ UNCHANGED <<authVars, hostVars, projectVars>>
    BY <2>1, <2>3 DEF libsodiumLoads, hostVars
  <2>4. ASSUME NEW n \in DOMAIN connections, UNCHANGED calls \/ ProcessRestarts,
               \/ accessExpires(n) \/ revokeHostConnection(n)
               \/ revokeToken(n) \/ revocationCutShort(n)
        PROVE  ConsentInv'
    <3>1. CodesHeld
      BY <2>4, ConsentRestarts DEF CodesHeld, Exchanging, ConsentInv
    <3>2. QED
      BY <2>4, <3>1, ConsentMarks, ConsentKept
  <2>5. CASE OperatorRequests
    <3>1. ASSUME NEW client \in Clients, authorize(client) PROVE ConsentInv'
      BY <3>1, ConsentCodes DEF authorize, custodyVars
    <3>2. ASSUME NEW n \in DOMAIN connections, revokeHostConnection(n) PROVE ConsentInv'
      BY <2>4, <3>2 DEF revokeHostConnection
    <3>3. ASSUME NEW c \in Calls, mintStaticHostToken(c) PROVE ConsentInv'
      BY <3>3, ConsentBegun, ConsentStays DEF mintStaticHostToken, hostVars
    <3>4. ASSUME NEW c \in Calls, UNCHANGED hostVars,
                 \/ \E d \in Domains : registerProject(c, d)
                 \/ \E p \in DOMAIN projects : runConformanceFor(c, p) \/ rotateProjectToken(c, p)
          PROVE  ConsentInv'
      BY <3>4, ConsentBegun, ConsentStays DEF hostVars
    <3>5. QED
      BY <2>5, <3>1, <3>2, <3>3, <3>4 DEF OperatorRequests
  <2>6. CASE HostRequests
    <3>1. ASSUME NEW c \in Calls, NEW n \in DOMAIN connections, exchangeRefreshToken(c, n)
          PROVE  ConsentInv'
      BY <3>1, ConsentBegun, ConsentStays DEF exchangeRefreshToken, hostVars
    <3>2. ASSUME NEW n \in DOMAIN connections, revokeToken(n)
          PROVE  ConsentInv'
      BY <2>4, <3>2 DEF revokeToken, revokeHostConnection
    <3>3. QED
      BY <2>6, <3>1, <3>2, ConsentBegins DEF HostRequests
  <2>7. CASE Elapses
    <3>1. ASSUME NEW m \in DOMAIN codes, codeExpires(m) PROVE ConsentInv'
      BY <3>1, ConsentCodes DEF codeExpires, custodyVars
    <3>2. ASSUME NEW n \in DOMAIN connections, accessExpires(n) PROVE ConsentInv'
      BY <2>4, <3>2 DEF accessExpires, custodyVars
    <3>3. QED
      BY <2>7, <3>1, <3>2 DEF Elapses
  <2>8. ASSUME NEW c \in Calls, Steps(c)
        PROVE  ConsentInv'
    <3>1. CASE storeAccess(c) \/ storeRefresh(c) \/ rotateAccess(c)
      BY <3>1, ConsentSeals, ConsentStays DEF storeAccess, storeRefresh, rotateAccess, hostVars
    <3>2. CASE insertConnection(c)
      BY <3>2, ConsentGrants
    <3>3. CASE updateGrant(c)
      <4>1. calls[c].connection \in DOMAIN connections
        BY <3>3 DEF updateGrant, IsAt, TypesInv, Fits
      <4>2. QED
        BY <3>3, <4>1, ConsentMarks, ConsentWrites, ConsentKept
    <3>4. CASE ProjectSteps(c) /\ UNCHANGED hostVars
      BY <3>4, ConsentSeals, ConsentWrites, ConsentStays DEF ProjectSteps, hostVars
    <3>5. QED
      BY <2>8, <3>1, <3>2, <3>3, <3>4 DEF Steps, HostSteps
  <2>9. CASE DomainSteps
    BY <2>1, <2>9 DEF DomainSteps, domainChanges, installToken, custodyVars, hostVars
  <2>10. CASE restart
    BY <2>10, ConsentRestarts, ConsentStays DEF restart, hostVars
  <2>11. CASE diesInRevocation
    BY <2>4, <2>11 DEF diesInRevocation, revocationCutShort
  <2>12. QED
    BY <2>2, <2>3, <2>5, <2>6, <2>7, <2>8, <2>9, <2>10, <2>11 DEF AccessNext
<1>3. QED
  BY <1>1, <1>2, TypesInvariance, PTL DEF AccessSpec

\* One consent gives one connection, though exchanges of a code overlap, and
\* however long the vault keeps them waiting (host-auth.ts, takeCode).
THEOREM ConsentsAreSpentOnce == AccessSpec => []GrantPerConsent
<1>1. ConsentInv => GrantPerConsent
  BY DEF ConsentInv
<1>2. QED
  BY <1>1, ConsentInvariance, PTL

-----------------------------------------------------------------------------
(* Registration and health *)

\* What happens to the projects table in one step.
LEMMA ProjectsChange ==
  ASSUME TypesInv, [AccessNext]_accessVars
  PROVE  \/ UNCHANGED projects
         \/ \E c \in Calls : \/ insertProject(c) \/ updateProject(c)
                             \/ readChecks(c)
BY DEF AccessNext, accessVars, OperatorRequests, HostRequests, Elapses, Steps, HostSteps, ProjectSteps,
       DomainSteps, restart, diesInRevocation, projectVars, registerProject, runConformanceFor,
       rotateProjectToken, storeProjectToken, resolveToken, rotateSealed, domainChanges, installToken

\* No domain is registered twice: the row is inserted in the turn its base_url
\* is found free, whatever was registered during the await before.
THEOREM DomainsAreRegisteredOnce == AccessSpec => []OneProjectPerDomain
<1>1. AccessInit => OneProjectPerDomain
  BY DEF AccessInit, ConnectedProjectsInit, OneProjectPerDomain
<1>2. TypesInv /\ OneProjectPerDomain /\ [AccessNext]_accessVars => OneProjectPerDomain'
  <2> SUFFICES ASSUME TypesInv, OneProjectPerDomain, [AccessNext]_accessVars
               PROVE  OneProjectPerDomain'
    OBVIOUS
  <2>1. projects \in Seq(ProjectRow)
    BY DEF TypesInv, ConnectedProjectsTypeOK
  <2>2. ASSUME DOMAIN projects' = DOMAIN projects,
               \A p \in DOMAIN projects : projects'[p].domain = projects[p].domain
        PROVE  OneProjectPerDomain'
    BY <2>2 DEF OneProjectPerDomain
  <2>3. ASSUME NEW p \in DOMAIN projects, NEW row, row.domain = projects[p].domain,
               projects' = [projects EXCEPT ![p] = row]
        PROVE  OneProjectPerDomain'
    BY <2>2, <2>3
  <2>4. ASSUME NEW c \in Calls, insertProject(c), ~UNCHANGED projects
        PROVE  OneProjectPerDomain'
    <3> DEFINE row == [domain |-> calls[c].domain, token |-> calls[c].token, ref |-> calls[c].ref,
                       healthy |-> FALSE]
    <3>1. /\ \A p \in DOMAIN projects : projects[p].domain # row.domain
          /\ projects' = Append(projects, row)
      BY <2>4 DEF insertProject, DomainIsFree, Registered
    <3> HIDE DEF row
    <3>2. /\ DOMAIN projects' = DOMAIN projects \cup {Len(projects) + 1}
          /\ projects'[Len(projects) + 1] = row
          /\ \A p \in DOMAIN projects : projects'[p] = projects[p]
      BY <2>1, <3>1
    <3>3. QED
      BY <3>1, <3>2 DEF OneProjectPerDomain
  <2>5. ASSUME NEW c \in Calls, updateProject(c)
        PROVE  OneProjectPerDomain'
    <3> DEFINE p == calls[c].project
               row == [projects[p] EXCEPT !.token = calls[c].token]
    <3>1. p \in DOMAIN projects
      BY <2>5 DEF updateProject, Serving, TypesInv, Fits
    <3>2. row.domain = projects[p].domain
      BY <2>1, <3>1 DEF ProjectRow
    <3>3. projects' = [projects EXCEPT ![p] = row]
      BY <2>5 DEF updateProject
    <3> HIDE DEF row, p
    <3>4. QED
      BY <2>3, <3>1, <3>2, <3>3
  <2>6. ASSUME NEW c \in Calls, readChecks(c), ~UNCHANGED projects
        PROVE  OneProjectPerDomain'
    <3> DEFINE p == calls[c].project
    <3>1. PICK passed \in BOOLEAN : projects' = [projects EXCEPT ![p].healthy = passed]
      BY <2>6, ChecksRead
    <3>2. p \in DOMAIN projects
      BY <2>6, ChecksRead
    <3> DEFINE row == [projects[p] EXCEPT !.healthy = passed]
    <3>3. row.domain = projects[p].domain
      BY <2>1, <3>2 DEF ProjectRow
    <3>4. projects' = [projects EXCEPT ![p] = row]
      BY <3>1
    <3> HIDE DEF row, p
    <3>5. QED
      BY <2>3, <3>2, <3>3, <3>4
  <2>7. CASE UNCHANGED projects
    BY <2>2, <2>7
  <2>8. QED
    BY <2>4, <2>5, <2>6, <2>7, ProjectsChange
<1>3. QED
  BY <1>1, <1>2, TypesInvariance, PTL DEF AccessSpec

\* Of a run that reads its checks, nothing but their answers and a restart
\* changes the call.
LEMMA OnlyChecksGoOn ==
  ASSUME TypesInv, AccessNext, NEW c \in Calls, Serving(c, "conformance", "check"),
         calls'[c] \notin {calls[c], Idle}
  PROVE  readChecks(c)
<1>1. calls[c].op = "conformance" /\ calls[c].step = "check" /\ calls[c] # Idle
  BY DEF Serving, Idle
<1>2. ASSUME NEW d \in Calls, NEW call, calls' = [calls EXCEPT ![d] = call]
      PROVE  c = d
  BY <1>2, CallReplaced
<1>3. ASSUME NEW d \in Calls, NEW call, NEW tokens, Begin(d, call, tokens)
      PROVE  FALSE
  BY <1>1, <1>2, <1>3 DEF Begin
<1>4. ASSUME UNCHANGED calls
      PROVE  FALSE
  BY <1>4
<1>5. ~ OperatorRequests
  <2>1. ASSUME OperatorRequests
        PROVE  FALSE
    <3>1. \/ UNCHANGED calls
          \/ \E d \in Calls : \E call, tokens : Begin(d, call, tokens)
      BY <2>1 DEF OperatorRequests, authorize, revokeHostConnection, custodyVars, mintStaticHostToken,
                  registerProject, runConformanceFor, rotateProjectToken
    <3>2. QED
      BY <3>1, <1>3, <1>4
  <2>2. QED
    BY <2>1
<1>6. ~ HostRequests
  <2>1. ASSUME HostRequests
        PROVE  FALSE
    <3>1. \/ UNCHANGED calls
          \/ \E d \in Calls : \E call, tokens : Begin(d, call, tokens)
      BY <2>1 DEF HostRequests, exchangeAuthorizationCode, exchangeRefreshToken, revokeToken,
                  revokeHostConnection
    <3>2. QED
      BY <3>1, <1>3, <1>4
  <2>2. QED
    BY <2>1
<1>7. ASSUME NEW d \in Calls, HostSteps(d)
      PROVE  FALSE
  <2>1. \E call : calls' = [calls EXCEPT ![d] = call]
    BY <1>7 DEF HostSteps, storeAccess, storeRefresh, rotateAccess, storeSecret, rotateSecret,
                insertConnection, updateGrant, Await, EndCall, AwaitNetwork
  <2>2. calls[d].op # "conformance"
    BY <1>7 DEF HostSteps, IsAt, storeAccess, storeRefresh, rotateAccess, insertConnection, updateGrant
  <2>3. QED
    BY <1>1, <1>2, <2>1, <2>2
<1>8. ASSUME NEW d \in Calls, ProjectSteps(d), ~readChecks(d)
      PROVE  FALSE
  <2>1. \E call : calls' = [calls EXCEPT ![d] = call]
    BY <1>8 DEF ProjectSteps, storeProjectToken, insertProject, resolveToken, rotateSealed, updateProject,
                storeSecret, resolveSecret, rotateSecret, Await, EndCall, AwaitNetwork
  <2>2. ~Serving(d, "conformance", "check")
    BY <1>8 DEF ProjectSteps, Serving, storeProjectToken, insertProject, resolveToken, rotateSealed,
                updateProject
  <2>3. QED
    BY <1>2, <2>1, <2>2
<1>9. ASSUME NEW d \in Calls, readChecks(d)
      PROVE  d = c
  BY <1>9, ChecksRead
<1>10. ASSUME ProcessRestarts
       PROVE  FALSE
  BY <1>10 DEF ProcessRestarts
<1>11. ~ restart /\ ~ diesInRevocation
  BY <1>10 DEF restart, diesInRevocation, revocationCutShort
<1>12. ~ Elapses /\ ~ DomainSteps
  BY <1>4 DEF Elapses, codeExpires, accessExpires, custodyVars, DomainSteps, domainChanges, installToken
<1>13. QED
  BY <1>4, <1>5, <1>6, <1>7, <1>8, <1>9, <1>11, <1>12 DEF AccessNext, custodyVars, libsodiumLoads, Steps

\* A project becomes healthy by a run that met no failed check, the last ones
\* included, and that its domain answered to the end.
THEOREM HealthIsEarned == AccessSpec => HealthyOnPass
<1> DEFINE Earned ==
      \A p \in DOMAIN projects : projects'[p].healthy /\ ~projects[p].healthy =>
        \E c \in Calls :
          /\ Serving(c, "conformance", "check")
          /\ calls[c].project = p
          /\ calls[c].passed /\ Len(calls[c].todo) = 1 /\ AnsweredWell(c)
          /\ calls'[c] = Idle
    GoesOnClean ==
      \A c \in Calls :
        (/\ Serving(c, "conformance", "check")
         /\ calls'[c] \notin {calls[c], Idle}
         /\ calls'[c].passed) => calls[c].passed /\ AnsweredWell(c)
<1>1. TypesInv /\ [AccessNext]_accessVars => Earned
  <2> SUFFICES ASSUME TypesInv, [AccessNext]_accessVars,
                      NEW p \in DOMAIN projects, projects'[p].healthy, ~projects[p].healthy
               PROVE  \E c \in Calls :
                        /\ Serving(c, "conformance", "check")
                        /\ calls[c].project = p
                        /\ calls[c].passed /\ Len(calls[c].todo) = 1 /\ AnsweredWell(c)
                        /\ calls'[c] = Idle
    OBVIOUS
  <2>1. projects \in Seq(ProjectRow) /\ projects[p] \in ProjectRow
    BY DEF TypesInv, ConnectedProjectsTypeOK
  <2>2. PICK c \in Calls : insertProject(c) \/ updateProject(c) \/ readChecks(c)
    BY ProjectsChange
  <2>3. CASE insertProject(c)
    BY <2>1, <2>3 DEF insertProject
  <2>4. CASE updateProject(c)
    <3>1. projects'[p] = projects[p] \/ projects'[p] = [projects[p] EXCEPT !.token = calls[c].token]
      BY <2>1, <2>4 DEF updateProject
    <3>2. QED
      BY <2>1, <3>1 DEF ProjectRow
  <2>5. CASE readChecks(c)
    <3>1. PICK passed \in BOOLEAN :
            /\ calls' = [calls EXCEPT ![c] = Idle]
            /\ passed => calls[c].passed /\ Len(calls[c].todo) = 1 /\ AnsweredWell(c)
            /\ projects' = [projects EXCEPT ![calls[c].project].healthy = passed]
      BY <2>5, ChecksRead
    <3>2. calls'[c] = Idle
      BY <3>1, CallReplaced
    <3>3. calls[c].project = p /\ passed
      <4>1. calls[c].project # p => projects'[p] = projects[p]
        BY <2>1, <3>1
      <4>2. calls[c].project = p => projects'[p] = [projects[p] EXCEPT !.healthy = passed]
        BY <2>1, <3>1
      <4>3. QED
        BY <2>1, <4>1, <4>2 DEF ProjectRow
    <3>4. Serving(c, "conformance", "check")
      BY <2>5 DEF readChecks
    <3>5. QED
      BY <3>1, <3>2, <3>3, <3>4
  <2>6. QED
    BY <2>2, <2>3, <2>4, <2>5
<1>2. TypesInv /\ [AccessNext]_accessVars => GoesOnClean
  <2> SUFFICES ASSUME TypesInv, [AccessNext]_accessVars, NEW c \in Calls,
                      Serving(c, "conformance", "check"),
                      calls'[c] \notin {calls[c], Idle}, calls'[c].passed
               PROVE  calls[c].passed /\ AnsweredWell(c)
    OBVIOUS
  <2>1. AccessNext
    BY DEF accessVars, custodyVars
  <2>2. readChecks(c)
    BY <2>1, OnlyChecksGoOn
  <2>3. calls[c] \in [op : {"conformance"}, step : {"check"}, project : Nat, token : Tokens,
                      todo : Seq(SUBSET Suite) \ {<<>>}, passed : BOOLEAN]
    BY ProjectCalls DEF Serving
  <2>4. calls = [d \in Calls |-> calls[d]]
    BY DEF TypesInv, QueueInv
  <2>5. calls' # [calls EXCEPT ![c] = Idle]
    BY CallReplaced
  <2>6. PICK passed \in BOOLEAN :
          /\ passed => calls[c].passed /\ AnsweredWell(c)
          /\ calls' = [calls EXCEPT ![c].todo = Tail(@), ![c].passed = passed]
    BY <2>2, <2>5, ChecksRead
  <2>7. calls'[c].passed = passed
    BY <2>3, <2>4, <2>6
  <2>8. QED
    BY <2>6, <2>7
<1>3. TypesInv /\ [AccessNext]_accessVars => [Earned /\ GoesOnClean]_<<projects, calls>>
  BY <1>1, <1>2
<1>4. QED
  BY <1>3, TypesInvariance, PTL DEF AccessSpec, HealthyOnPass
=============================================================================
