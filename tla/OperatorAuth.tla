---------------------------- MODULE OperatorAuth ----------------------------
(***************************************************************************)
(* Sign-in of the one Operator (server/auth.ts, server/auth-routes.ts):    *)
(* registration on first run, passkey sign-in, the recovery code and the   *)
(* sessions that open the operator routes.                                 *)
(*                                                                         *)
(* A ceremony is awaited between the taking of its challenge and the rows  *)
(* it writes; what the WebAuthn library answers is external: it never      *)
(* accepts an answer to another challenge than the one it is given, and    *)
(* may refuse any.  Challenges are in memory, one of each kind.            *)
(***************************************************************************)
EXTENDS Naturals, FiniteSets

CONSTANTS
  Browsers,       \* each with its session cookie
  MaxChallenges   \* bound on the challenges issued

ASSUME OperatorAuthAssumption == MaxChallenges \in Nat

VARIABLES
  operators,      \* rows of the operators table
  challenge,      \* the challenge in memory of each kind, or NoChallenge
  issued,         \* challenges issued so far, numbered from 1
  ceremonies,     \* the verifications awaited
  accepted,       \* history: the sign-ins each challenge led to
  sessions        \* the browsers whose cookie names a live session row

authVars == <<operators, challenge, issued, ceremonies, accepted, sessions>>

-----------------------------------------------------------------------------
Kinds == {"register", "login"}

NoChallenge == 0

Challenges == 1 .. MaxChallenges

\* A verification of a browser's answer, with the challenge it must be to.
Ceremony == [kind : Kinds, browser : Browsers, expected : Challenges]

OperatorAuthTypeOK ==
  /\ operators \in Nat
  /\ challenge \in [Kinds -> {NoChallenge} \cup Challenges]
  /\ issued \in 0 .. MaxChallenges
  /\ ceremonies \subseteq Ceremony
  /\ accepted \in [Challenges -> Nat]
  /\ sessions \subseteq Browsers

OperatorAuthInit ==
  /\ operators = 0
  /\ challenge = [kind \in Kinds |-> NoChallenge]
  /\ issued = 0
  /\ ceremonies = {}
  /\ accepted = [n \in Challenges |-> 0]
  /\ sessions = {}

operatorExists == operators > 0

-----------------------------------------------------------------------------
(* Challenges *)

\* putChallenge: a new challenge replaces the one in memory.
putChallenge(kind) ==
  /\ issued < MaxChallenges
  /\ issued' = issued + 1
  /\ challenge' = [challenge EXCEPT ![kind] = issued + 1]
  /\ UNCHANGED <<operators, ceremonies, accepted, sessions>>

\* The options are generated in an await between the check and the challenge; a
\* challenge put after the operator came to exist is one verifyRegistration
\* never takes.
registrationOptions == ~operatorExists /\ putChallenge("register")

authenticationOptions == operatorExists /\ putChallenge("login")

challengeExpires(kind) ==
  /\ challenge[kind] # NoChallenge
  /\ challenge' = [challenge EXCEPT ![kind] = NoChallenge]
  /\ UNCHANGED <<operators, issued, ceremonies, accepted, sessions>>

\* Faulty variant of takeChallenge: left in memory while it is verified.
readChallenge(kind) == UNCHANGED challenge

takeChallenge(kind) == challenge' = [challenge EXCEPT ![kind] = NoChallenge]

-----------------------------------------------------------------------------
(* Ceremonies *)

\* The process awaits the verification of an answer to the challenge taken.
awaitVerification(kind, b) ==
  /\ challenge[kind] # NoChallenge
  /\ takeChallenge(kind)
  /\ ceremonies' = ceremonies \cup
       {[kind |-> kind, browser |-> b, expected |-> challenge[kind]]}
  /\ UNCHANGED <<operators, issued, accepted, sessions>>

verifyRegistration(b) == ~operatorExists /\ awaitVerification("register", b)

verifyAuthentication(b) == operatorExists /\ awaitVerification("login", b)

\* The answer is to another challenge, or not genuine.
verificationFails(v) ==
  /\ ceremonies' = ceremonies \ {v}
  /\ UNCHANGED <<operators, challenge, issued, accepted, sessions>>

createSession(b) == sessions' = sessions \cup {b}

SignIn(v) ==
  /\ ceremonies' = ceremonies \ {v}
  /\ accepted' = [accepted EXCEPT ![v.expected] = @ + 1]
  /\ createSession(v.browser)
  /\ UNCHANGED <<challenge, issued>>

\* Faulty variant of HandleIsFree: the table has no UNIQUE handle.
HandleAssumedFree == TRUE

HandleIsFree == ~operatorExists

\* One transaction; a second operator is refused by the UNIQUE handle, and
\* the ceremony ends as verificationFails does.
insertOperator(v) ==
  /\ v.kind = "register"
  /\ HandleIsFree
  /\ SignIn(v)
  /\ operators' = operators + 1

finishSignIn(v) ==
  /\ v.kind = "login"
  /\ SignIn(v)
  /\ UNCHANGED operators

-----------------------------------------------------------------------------
(* Sessions *)

\* The code shown at registration; using it does not change it.
recover(b) ==
  /\ operatorExists
  /\ createSession(b)
  /\ UNCHANGED <<operators, challenge, issued, ceremonies, accepted>>

destroySession(b) ==
  /\ b \in sessions
  /\ sessions' = sessions \ {b}
  /\ UNCHANGED <<operators, challenge, issued, ceremonies, accepted>>

\* validateSession: some browser has a live session.
Authenticated == sessions # {}

OperatorAuthNext ==
  \/ registrationOptions
  \/ authenticationOptions
  \/ \E kind \in Kinds : challengeExpires(kind)
  \/ \E b \in Browsers : verifyRegistration(b) \/ verifyAuthentication(b)
  \/ \E v \in ceremonies : verificationFails(v) \/ insertOperator(v) \/ finishSignIn(v)
  \/ \E b \in Browsers : recover(b) \/ destroySession(b)

\* What a new process forgets.
AuthRestarts ==
  /\ challenge' = [kind \in Kinds |-> NoChallenge]
  /\ ceremonies' = {}
  /\ UNCHANGED <<operators, issued, accepted, sessions>>

-----------------------------------------------------------------------------
(* Properties *)

\* A challenge leads to at most one sign-in, whoever answers it and however
\* often (takeChallenge deletes it before the verification is awaited).
OneSignInPerChallenge == \A n \in Challenges : accepted[n] <= 1

\* Registration is for the first run only (server/auth.ts:142), also when two
\* ceremonies are verified at once.
OneOperator == operators <= 1
=============================================================================
