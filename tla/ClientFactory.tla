---------------------------- MODULE ClientFactory ----------------------------
(***************************************************************************)
(* internal/cloud/factory.go: SecretFactory.ClientFor, which the three     *)
(* reconcilers call at the same time.  It reads the identity Secret, takes *)
(* the mutex, and returns the cached client of that Secret if it was built *)
(* for the version just read, else builds another and caches it.  Between  *)
(* the read and the mutex the Secret may be rotated and other calls may    *)
(* run.                                                                    *)
(*                                                                         *)
(* Versions (resourceVersion) come from one counter of the API server.  A  *)
(* client is named by the version of the Secret its credentials were in.   *)
(* The call without a SecretName, which returns the global client, is      *)
(* ClientAccount of VerdaMachine.                                          *)
(***************************************************************************)
EXTENDS Naturals

CONSTANTS
    Secrets,      \* the identity Secrets
    Callers,      \* the workers of the reconcilers
    MaxVersions,  \* bound on writes to Secrets
    MaxFaults     \* bound on failures of calls

ASSUME SecretsAssumption == Secrets # {}
ASSUME BoundsAssumption == MaxVersions \in Nat /\ MaxFaults \in Nat

VARIABLES
    clock,   \* the last resourceVersion handed out
    secret,  \* Secret -> its version and whether it holds both keys
    cache,   \* Secret -> the version recorded with a client, and the client; 0: none
    call,    \* caller -> its running call
    faults

vars == <<clock, secret, cache, call, faults>>

Contents == {"absent", "incomplete", "complete"}

\* since: the version when the call began; rv: the version it has read.
NoCall == [pc |-> "idle", key |-> CHOOSE s \in Secrets : TRUE, since |-> 0, rv |-> 0, got |-> 0]
Calls == [pc: {"idle", "get", "lock", "done"}, key: Secrets, since: Nat, rv: Nat, got: Nat]

\* Every variable holds a value of its type, and versions come from the clock.
TypeOK ==
    /\ clock \in Nat /\ faults \in Nat
    /\ secret \in [Secrets -> [rv: Nat, has: Contents]]
    /\ cache \in [Secrets -> [rv: Nat, client: Nat]]
    /\ call \in [Callers -> Calls]
    /\ \A s \in Secrets : secret[s].rv <= clock

Init ==
    /\ clock = 0 /\ faults = MaxFaults
    /\ secret = [s \in Secrets |-> [rv |-> 0, has |-> "absent"]]
    /\ cache = [s \in Secrets |-> [rv |-> 0, client |-> 0]]
    /\ call = [c \in Callers |-> NoCall]

Asks(c, s) ==
    /\ call[c].pc = "idle"
    /\ call' = [call EXCEPT ![c] = [pc |-> "get", key |-> s, since |-> secret[s].rv, rv |-> 0, got |-> 0]]
    /\ UNCHANGED <<clock, secret, cache, faults>>

Progress(c, next, rv, got) ==
    [pc |-> next, key |-> call[c].key, since |-> call[c].since, rv |-> rv, got |-> got]

\* Reader.Get, from the API server; a Secret without both keys is an error.
ReadSecret(c) ==
    LET s == call[c].key
    IN  /\ call[c].pc = "get"
        /\ \/ /\ secret[s].has = "complete"
              /\ call' = [call EXCEPT ![c] = Progress(c, "lock", secret[s].rv, 0)]
              /\ UNCHANGED faults
           \/ /\ secret[s].has # "complete"
              /\ call' = [call EXCEPT ![c] = NoCall]
              /\ UNCHANGED faults
           \/ /\ faults > 0 /\ faults' = faults - 1
              /\ call' = [call EXCEPT ![c] = NoCall]
        /\ UNCHANGED <<clock, secret, cache>>

\* Mutant: a cached client is returned whatever its version.
HitAny(s, rv) == cache[s].rv # 0

Hit(s, rv) == cache[s].rv = rv

\* Mutant: a client is built but not cached.
BuildOnly(s, rv) == UNCHANGED cache

\* Mutant: the version is not recorded.
BuildUnversioned(s, rv) == cache' = [cache EXCEPT ![s] = [client |-> rv]]

Build(s, rv) == cache' = [cache EXCEPT ![s] = [rv |-> rv, client |-> rv]]

\* What happens under the mutex.
UseCache(c) ==
    LET s == call[c].key
        rv == call[c].rv
    IN  /\ call[c].pc = "lock"
        /\ \/ /\ Hit(s, rv)
              /\ call' = [call EXCEPT ![c] = Progress(c, "done", rv, cache[s].client)]
              /\ UNCHANGED <<cache, faults>>
           \/ /\ ~Hit(s, rv) /\ Build(s, rv)
              /\ call' = [call EXCEPT ![c] = Progress(c, "done", rv, rv)]
              /\ UNCHANGED faults
           \/ /\ ~Hit(s, rv) /\ faults > 0 /\ faults' = faults - 1
              /\ call' = [call EXCEPT ![c] = NoCall]
              /\ UNCHANGED cache
        /\ UNCHANGED <<clock, secret>>

\* The reconcile is done with its client.
Returns(c) ==
    /\ call[c].pc = "done"
    /\ call' = [call EXCEPT ![c] = NoCall]
    /\ UNCHANGED <<clock, secret, cache, faults>>

\* A user creates, rotates, breaks or deletes a Secret (external).
WriteSecret(s) ==
    /\ clock < MaxVersions
    /\ clock' = clock + 1
    /\ \E h \in Contents : secret' = [secret EXCEPT ![s] = [rv |-> clock + 1, has |-> h]]
    /\ UNCHANGED <<cache, call, faults>>

ClientFor(c) == ReadSecret(c) \/ UseCache(c) \/ Returns(c)

Next == \/ \E c \in Callers : ClientFor(c) \/ \E s \in Secrets : Asks(c, s)
        \/ \E s \in Secrets : WriteSecret(s)

Spec == Init /\ [][Next]_vars

\* Calls end, and every Secret is asked for again and again (the reconcilers
\* poll and resync).
FairSpec == /\ Spec
            /\ \A c \in Callers : WF_vars(ClientFor(c)) /\ \A s \in Secrets : SF_vars(Asks(c, s))

-----------------------------------------------------------------------------
(* Properties.                                                             *)

\* A rotation takes effect with the next call: a client that ClientFor returns
\* was built from the Secret as it was when the call began or later, whatever
\* older calls have put into the cache in the meantime.
FreshCredentials == \A c \in Callers : call[c].pc = "done" => call[c].got >= call[c].since /\ call[c].got # 0

\* What FreshCredentials rests on (inductive): what is recorded with a client is
\* the version it was built from, and a call that is done has the client of the
\* version it has read.
CacheIsHonest ==
    /\ \A s \in Secrets : cache[s].client = cache[s].rv
    /\ \A c \in Callers : /\ call[c].pc \in {"lock", "done"} => call[c].rv >= call[c].since /\ call[c].rv # 0
                          /\ call[c].pc = "done" => call[c].got = call[c].rv
                          /\ call[c].pc = "get" => call[c].since <= secret[call[c].key].rv
    /\ \A s \in Secrets : secret[s].has # "absent" => secret[s].rv # 0

\* "client should be cached per secret version": an older call may put an older
\* client back, but once a Secret is not written any more its current client is
\* in the cache for good and is not built again.
SettlesOnCurrent == \A s \in Secrets : <>[](secret[s].has = "complete" => cache[s].rv = secret[s].rv)

=============================================================================
