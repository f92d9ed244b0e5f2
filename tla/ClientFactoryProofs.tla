------------------------- MODULE ClientFactoryProofs -------------------------
(* Proofs about ClientFactory, for every set of Secrets and of callers.    *)
EXTENDS ClientFactory, TLAPS

\* NoCall, the state of a worker between two calls, is a call.
LEMMA NoCallType == NoCall \in Calls /\ NoCall.pc = "idle"
BY SecretsAssumption DEF NoCall, Calls

\* A call that goes on is a call.
LEMMA ProgressType ==
    ASSUME TypeOK, NEW c \in Callers, NEW next \in {"lock", "done"}, NEW rv \in Nat, NEW got \in Nat
    PROVE  Progress(c, next, rv, got) \in Calls
BY DEF TypeOK, Calls, Progress

\* ClientFor and the writers of Secrets keep every variable in its type.
THEOREM TypeCorrect == Spec => []TypeOK
<1> USE NoCallType
<1>1. Init => TypeOK
  BY BoundsAssumption DEF Init, TypeOK, Contents
<1>2. TypeOK /\ [Next]_vars => TypeOK'
  <2> SUFFICES ASSUME TypeOK, [Next]_vars PROVE TypeOK'
    OBVIOUS
  <2> USE DEF TypeOK
  <2>1. ASSUME NEW c \in Callers, NEW s \in Secrets, Asks(c, s) PROVE TypeOK'
    BY <2>1 DEF Asks, Calls
  <2>2. ASSUME NEW c \in Callers, ReadSecret(c) PROVE TypeOK'
    <3>1. Progress(c, "lock", secret[call[c].key].rv, 0) \in Calls
      BY ProgressType DEF Calls
    <3> QED BY <2>2, <3>1 DEF ReadSecret
  <2>3. ASSUME NEW c \in Callers, UseCache(c) PROVE TypeOK'
    <3>1. call[c].key \in Secrets /\ call[c].rv \in Nat
      BY DEF Calls
    <3>2. /\ Progress(c, "done", call[c].rv, cache[call[c].key].client) \in Calls
          /\ Progress(c, "done", call[c].rv, call[c].rv) \in Calls
      BY <3>1, ProgressType
    <3>3. cache' \in [Secrets -> [rv: Nat, client: Nat]]
      BY <2>3, <3>1 DEF UseCache, Build
    <3>4. call' \in [Callers -> Calls]
      BY <2>3, <3>2 DEF UseCache
    <3> QED BY <2>3, <3>3, <3>4 DEF UseCache
  <2>4. ASSUME NEW c \in Callers, Returns(c) PROVE TypeOK'
    BY <2>4 DEF Returns
  <2>5. ASSUME NEW s \in Secrets, WriteSecret(s) PROVE TypeOK'
    BY <2>5 DEF WriteSecret
  <2>6. CASE UNCHANGED vars
    BY <2>6 DEF vars
  <2> QED BY <2>1, <2>2, <2>3, <2>4, <2>5, <2>6 DEF Next, ClientFor
<1> QED BY <1>1, <1>2, PTL DEF Spec

\* The strengthening that makes FreshCredentials inductive: recorded versions
\* are true, and no call has read a version older than the one it began with.
THEOREM CacheHonest == Spec => []CacheIsHonest
<1> USE NoCallType
<1>1. Init => CacheIsHonest
  BY DEF Init, CacheIsHonest
<1>2. TypeOK /\ CacheIsHonest /\ [Next]_vars => CacheIsHonest'
  <2> SUFFICES ASSUME TypeOK, CacheIsHonest, [Next]_vars PROVE CacheIsHonest'
    OBVIOUS
  <2> USE DEF TypeOK, CacheIsHonest
  <2>1. ASSUME NEW c \in Callers, NEW s \in Secrets, Asks(c, s) PROVE CacheIsHonest'
    BY <2>1 DEF Asks
  <2>2. ASSUME NEW c \in Callers, ReadSecret(c) PROVE CacheIsHonest'
    <3> DEFINE s == call[c].key
               new == Progress(c, "lock", secret[s].rv, 0)
    <3>1. s \in Secrets /\ call[c].since \in Nat /\ secret[s].rv \in Nat
      BY DEF Calls
    <3>2. new.pc = "lock" /\ new.since = call[c].since /\ new.rv = secret[s].rv
      BY DEF Progress
    <3>3. CASE secret[s].has = "complete" /\ call' = [call EXCEPT ![c] = new]
      BY <2>2, <3>1, <3>2, <3>3 DEF ReadSecret
    <3>4. CASE call' = [call EXCEPT ![c] = NoCall]
      BY <2>2, <3>4 DEF ReadSecret
    <3> QED BY <2>2, <3>3, <3>4 DEF ReadSecret
  <2>3. ASSUME NEW c \in Callers, UseCache(c) PROVE CacheIsHonest'
    <3> DEFINE s == call[c].key
               rv == call[c].rv
               new == Progress(c, "done", rv, rv)
    <3>1. s \in Secrets /\ call[c].since \in Nat /\ rv \in Nat
      BY DEF Calls
    <3>2. new.pc = "done" /\ new.since = call[c].since /\ new.rv = rv /\ new.got = rv
      BY DEF Progress
    <3>3. CASE cache' = cache /\ call' = [call EXCEPT ![c] = new]
      BY <2>3, <3>1, <3>2, <3>3 DEF UseCache
    <3>4. CASE Build(s, rv) /\ call' = [call EXCEPT ![c] = new]
      BY <2>3, <3>1, <3>2, <3>4 DEF UseCache, Build
    <3>5. CASE cache' = cache /\ call' = [call EXCEPT ![c] = NoCall]
      BY <2>3, <3>5 DEF UseCache
    <3>6. Hit(s, rv) => cache[s].client = rv
      BY <3>1 DEF Hit
    <3> QED BY <2>3, <3>3, <3>4, <3>5, <3>6 DEF UseCache
  <2>4. ASSUME NEW c \in Callers, Returns(c) PROVE CacheIsHonest'
    BY <2>4 DEF Returns
  <2>5. ASSUME NEW s \in Secrets, WriteSecret(s) PROVE CacheIsHonest'
    BY <2>5 DEF WriteSecret, Calls
  <2>6. CASE UNCHANGED vars
    BY <2>6 DEF vars
  <2> QED BY <2>1, <2>2, <2>3, <2>4, <2>5, <2>6 DEF Next, ClientFor
<1> QED BY <1>1, <1>2, TypeCorrect, PTL DEF Spec

\* A rotation takes effect with the next call, however many Secrets and
\* concurrent calls there are.
THEOREM RotationTakesEffect == Spec => []FreshCredentials
<1>1. TypeOK /\ CacheIsHonest => FreshCredentials
  BY DEF TypeOK, CacheIsHonest, FreshCredentials, Calls
<1> QED BY <1>1, TypeCorrect, CacheHonest, PTL

=============================================================================
