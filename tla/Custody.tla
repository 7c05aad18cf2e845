------------------------------- MODULE Custody -------------------------------
(***************************************************************************)
(* The sealed secrets of server/secrets.ts and the order in which the      *)
(* handlers that use them resume.                                          *)
(*                                                                         *)
(* Every use of the vault awaits masterKey(), which awaits libsodium.      *)
(* While the library loads, calls pile up behind it and requests go on     *)
(* being served; once it is loaded, the continuations run first in, first  *)
(* out, each await putting its call at the end of the queue, and no        *)
(* request is served before the queue is empty.  Hops of an await that     *)
(* change nothing are merged with the next one.                            *)
(***************************************************************************)
EXTENDS Naturals, Sequences

CONSTANTS
  Calls,          \* the awaiting calls under way at once
  MaxTokens       \* bound on the tokens minted

ASSUME CustodyAssumption == MaxTokens \in Nat

VARIABLES
  keyed,          \* SECRETS_MASTER_KEY is set and valid
  vaultReady,     \* libsodium is loaded
  secrets,        \* the secrets table; a reference is a position in it
  minted,         \* the tokens minted so far, numbered from 1
  calls,          \* the awaiting calls under way
  waiting         \* those whose continuation is queued, in order

vaultVars == <<keyed, vaultReady, secrets>>
custodyVars == <<vaultVars, minted, calls, waiting>>

-----------------------------------------------------------------------------
Tokens == 1 .. MaxTokens

\* A wiped row holds no token.
Wiped == 0

SecretRow ==
  [status : {"active"}, token : Tokens] \cup {[status |-> "revoked", token |-> Wiped]}

References == Nat \ {0}

Idle == [op |-> "idle"]

CustodyTypeOK ==
  /\ keyed \in BOOLEAN
  /\ vaultReady \in BOOLEAN
  /\ secrets \in Seq(SecretRow)
  /\ minted \in 0 .. MaxTokens
  /\ waiting \in Seq(Calls)
  /\ \A m, n \in DOMAIN waiting : waiting[m] = waiting[n] => m = n

CustodyInit ==
  /\ keyed \in BOOLEAN
  /\ vaultReady = FALSE
  /\ secrets = <<>>
  /\ minted = 0
  /\ calls = [c \in Calls |-> Idle]
  /\ waiting = <<>>

-----------------------------------------------------------------------------
(* The event loop *)

\* A request or an answer from the network gets its turn.
Turn == ~vaultReady \/ waiting = <<>>

\* The continuation of c is the next to run.
Resumes(c) == vaultReady /\ waiting # <<>> /\ Head(waiting) = c

\* A request that mints some tokens and then awaits the vault.
Begin(c, call, tokens) ==
  /\ Turn
  /\ calls[c] = Idle
  /\ minted + tokens <= MaxTokens
  /\ minted' = minted + tokens
  /\ calls' = [calls EXCEPT ![c] = call]
  /\ waiting' = Append(waiting, c)

\* A continuation that awaits the vault again, as call.
Await(c, call) ==
  /\ calls' = [calls EXCEPT ![c] = call]
  /\ waiting' = Append(Tail(waiting), c)

\* A continuation that goes on to await the network.
AwaitNetwork(c, call) ==
  /\ calls' = [calls EXCEPT ![c] = call]
  /\ waiting' = Tail(waiting)

\* The handler returns or throws.
EndCall(c) == AwaitNetwork(c, Idle)

libsodiumLoads ==
  /\ ~vaultReady
  /\ vaultReady' = TRUE
  /\ UNCHANGED <<keyed, secrets, minted, calls, waiting>>

\* A new process: the calls under way are gone, the key may have been set or
\* unset, and the library has to load again.
ProcessRestarts ==
  /\ keyed' \in BOOLEAN
  /\ vaultReady' = FALSE
  /\ calls' = [c \in Calls |-> Idle]
  /\ waiting' = <<>>
  /\ UNCHANGED minted

-----------------------------------------------------------------------------
(* The vault *)

\* Faulty variant of Usable: a revoked secret can be sealed anew.
UsableOnceStored(ref) == keyed

Usable(ref) == keyed /\ secrets[ref].status = "active"

storeSecret(c, token, stored) ==
  /\ Resumes(c)
  /\ \/ /\ keyed
        /\ secrets' = Append(secrets, [status |-> "active", token |-> token])
        /\ Await(c, stored)
     \/ /\ ~keyed
        /\ UNCHANGED secrets
        /\ EndCall(c)
  /\ UNCHANGED <<keyed, vaultReady, minted>>

rotateSecret(c, ref, token, rotated) ==
  /\ Resumes(c)
  /\ \/ /\ Usable(ref)
        /\ secrets' = [secrets EXCEPT ![ref].token = token]
        /\ Await(c, rotated)
     \/ /\ ~Usable(ref)
        /\ UNCHANGED secrets
        /\ EndCall(c)
  /\ UNCHANGED <<keyed, vaultReady, minted>>

\* Reads the token; the call that asked goes to the network with it, as call.
resolveSecret(c, ref, call) ==
  /\ Resumes(c)
  /\ IF Usable(ref) THEN AwaitNetwork(c, [call EXCEPT !.token = secrets[ref].token]) ELSE EndCall(c)
  /\ UNCHANGED <<vaultVars, minted>>

\* Awaits nothing: the rows are wiped in the turn of the call.
revokeSecret(refs) ==
  secrets' = [r \in DOMAIN secrets |->
                IF r \in refs THEN [status |-> "revoked", token |-> Wiped] ELSE secrets[r]]
=============================================================================
