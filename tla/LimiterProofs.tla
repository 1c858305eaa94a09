---------------------------- MODULE LimiterProofs ---------------------------
(***************************************************************************)
(* The rate limiter implements one token bucket per client network, for    *)
(* any set of networks, any number of handlers in Allow at a time, and any *)
(* schedule of collections.                                                *)
(***************************************************************************)
EXTENDS Limiter, TLAPS

(***************************************************************************)
(* The inductive invariant.                                                *)
(***************************************************************************)

TokenState == [tok : Nat, last : Nat]
Entry == [lim : Nat, lastSeen : Nat]
Call == [key : Key \cup {"none"}, lim : Nat, at : Nat]
Busy == {p \in Caller : calls[p] # idle}

Types ==
  /\ now \in Nat
  /\ lims \in Seq(TokenState)
  /\ \E D \in SUBSET Key : buckets \in [D -> Entry]
  /\ calls \in [Caller -> Call]

\* No bucket is overfull or was used in the future.
BucketsSound ==
  \A i \in 1..Len(lims) : lims[i].tok <= Burst /\ lims[i].last <= now

\* Every network in the map has a bucket of its own, last used at most
\* MaxStall after it was last seen.
EntriesSound ==
  /\ \A k \in DOMAIN buckets :
       /\ buckets[k].lim \in 1..Len(lims)
       /\ buckets[k].lastSeen <= now
       /\ lims[buckets[k].lim].last <= buckets[k].lastSeen + MaxStall
  /\ \A j, k \in DOMAIN buckets : buckets[j].lim = buckets[k].lim => j = k

\* A handler in Allow holds the bucket that is in the map: it was touched
\* when the handler found it, which is not long enough ago to be collected.
CallsSound ==
  \A p \in Busy :
    /\ calls[p].key \in DOMAIN buckets
    /\ buckets[calls[p].key].lim = calls[p].lim
    /\ calls[p].at <= buckets[calls[p].key].lastSeen
    /\ now <= calls[p].at + MaxStall

IndInv == Types /\ BucketsSound /\ EntriesSound /\ CallsSound

-----------------------------------------------------------------------------
\* The constants are natural numbers.
LEMMA Bounds ==
  /\ Burst \in Nat /\ Burst >= 1 /\ Rate \in Nat /\ Rate >= 1 /\ IdleTTL \in Nat /\ IdleTTL >= 1
  /\ MaxTime \in Nat /\ MaxStall \in Nat /\ MaxBuckets \in Nat
BY LimiterAssumption

\* The parts of the records.
LEMMA Parts ==
  ASSUME Types
  PROVE  /\ now \in Nat /\ Len(lims) \in Nat
         /\ \A i \in 1..Len(lims) :
              lims[i] \in TokenState /\ lims[i].tok \in Nat /\ lims[i].last \in Nat
         /\ \A k \in DOMAIN buckets :
              k \in Key /\ buckets[k] \in Entry /\ buckets[k].lim \in Nat /\ buckets[k].lastSeen \in Nat
         /\ \A p \in Caller : calls[p] \in Call /\ calls[p].lim \in Nat /\ calls[p].at \in Nat
<1>1. \A i \in 1..Len(lims) : lims[i] \in TokenState
  <2>1. lims \in Seq(TokenState)
    BY DEF Types
  <2>2. QED
    BY <2>1
<1>2. \A k \in DOMAIN buckets : k \in Key /\ buckets[k] \in Entry
  BY DEF Types
<1>3. \A p \in Caller : calls[p] \in Call
  BY DEF Types
<1>4. now \in Nat /\ Len(lims) \in Nat
  BY DEF Types
<1>5. QED
  BY <1>1, <1>2, <1>3, <1>4 DEF TokenState, Entry, Call

\* The initial state satisfies the invariant.
LEMMA InitInv == Init => IndInv
<1> SUFFICES ASSUME Init PROVE IndInv
  OBVIOUS
<1>1. lims \in Seq(TokenState) /\ Len(lims) = 0
  BY DEF Init
<1>2. DOMAIN buckets = {} /\ buckets \in [DOMAIN buckets -> Entry]
  BY DEF Init
<1>3. calls \in [Caller -> Call] /\ Busy = {}
  BY DEF Init, Call, idle, Busy
<1>4. Types
  BY <1>1, <1>2, <1>3 DEF Init, Types
<1>5. QED
  BY <1>1, <1>2, <1>3, <1>4 DEF IndInv, BucketsSound, EntriesSound, CallsSound

\* The fields of a call.
LEMMA CallFields ==
  ASSUME NEW c, NEW x, NEW y, NEW z, c = [key |-> x, lim |-> y, at |-> z]
  PROVE  c.key = x /\ c.lim = y /\ c.at = z
OBVIOUS

\* A handler that finds its network in the map.
LEMMA FoundInv ==
  ASSUME IndInv, NEW p \in Caller, NEW k \in Key, calls[p] = idle,
         k \in DOMAIN buckets, buckets' = [buckets EXCEPT ![k].lastSeen = now], UNCHANGED lims,
         calls' = [calls EXCEPT ![p] = [key |-> k, lim |-> buckets'[k].lim, at |-> now]],
         UNCHANGED <<now, verdict>>
  PROVE  IndInv'
<1> USE Bounds DEF IndInv, Types
<1>1. /\ DOMAIN buckets' = DOMAIN buckets
      /\ \A j \in DOMAIN buckets : buckets'[j].lim = buckets[j].lim
      /\ \A j \in DOMAIN buckets : j # k => buckets'[j] = buckets[j]
      /\ buckets'[k].lastSeen = now
  BY DEF Entry
<1>2. Types'
  <2>1. PICK D \in SUBSET Key : buckets \in [D -> Entry]
    OBVIOUS
  <2>2. buckets' \in [D -> Entry]
    BY <2>1 DEF Entry
  <2>3. calls' \in [Caller -> Call]
    BY <2>2 DEF Call, Entry
  <2>4. QED
    BY <2>2, <2>3
<1>3. BucketsSound'
  BY DEF BucketsSound
<1>4. EntriesSound'
  <2>1. ASSUME NEW j \in DOMAIN buckets
        PROVE  /\ buckets'[j].lim \in 1..Len(lims)
               /\ buckets'[j].lastSeen <= now
               /\ lims[buckets'[j].lim].last <= buckets'[j].lastSeen + MaxStall
    <3>1. CASE j = k
      <4>1. buckets[k].lim \in 1..Len(lims)
        BY DEF EntriesSound
      <4>2. lims[buckets[k].lim].last <= now /\ lims[buckets[k].lim].last \in Nat
        BY <4>1, Parts DEF BucketsSound
      <4>3. buckets'[j].lim = buckets[k].lim /\ buckets'[j].lastSeen = now
        BY <3>1, <1>1
      <4>4. lims[buckets[k].lim].last <= now + MaxStall
        BY <4>2
      <4>5. now <= now
        BY Parts
      <4>6. QED
        BY <4>1, <4>3, <4>4, <4>5, Zenon
    <3>2. CASE j # k
      BY <3>2, <1>1 DEF EntriesSound
    <3>3. QED
      BY <3>1, <3>2
  <2>2. \A i, j \in DOMAIN buckets' : buckets'[i].lim = buckets'[j].lim => i = j
    BY <1>1 DEF EntriesSound
  <2>3. QED
    BY <1>1, <2>1, <2>2 DEF EntriesSound
<1>5. ASSUME NEW q \in Busy'
      PROVE  /\ calls'[q].key \in DOMAIN buckets'
             /\ buckets'[calls'[q].key].lim = calls'[q].lim
             /\ calls'[q].at <= buckets'[calls'[q].key].lastSeen
             /\ now' <= calls'[q].at + MaxStall
  <2>1. CASE q = p
    <3>1. calls'[q] = [key |-> k, lim |-> buckets'[k].lim, at |-> now]
      BY <2>1
    <3>2. calls'[q].key = k /\ calls'[q].lim = buckets'[k].lim /\ calls'[q].at = now
      BY <3>1, CallFields
    <3>3. now <= now /\ now <= now + MaxStall
      BY Parts
    <3>4. QED
      BY <3>2, <3>3, <1>1, Zenon
  <2>2. CASE q # p
    <3>1. q \in Busy /\ calls'[q] = calls[q]
      BY <2>2, <1>5 DEF Busy
    <3>2. /\ calls[q].key \in DOMAIN buckets /\ buckets[calls[q].key].lim = calls[q].lim
          /\ calls[q].at <= buckets[calls[q].key].lastSeen /\ now <= calls[q].at + MaxStall
      BY <3>1 DEF CallsSound
    <3>3. buckets[calls[q].key].lastSeen <= buckets'[calls[q].key].lastSeen
      BY <1>1, <3>2, Parts DEF EntriesSound
    <3>4. calls[q].at \in Nat /\ buckets[calls[q].key].lastSeen \in Nat
          /\ buckets'[calls[q].key].lastSeen \in Nat
      BY <3>1, <3>2, <1>1 DEF Call, Entry, Busy
    <3>5. calls[q].at <= buckets'[calls[q].key].lastSeen
      BY <3>2, <3>3, <3>4
    <3>6. QED
      BY <3>1, <3>2, <3>5, <1>1, Zenon
  <2>3. QED
    BY <2>1, <2>2
<1>6. QED
  BY <1>2, <1>3, <1>4, <1>5 DEF CallsSound

\* A handler that creates the bucket of its network.
LEMMA CreatedInv ==
  ASSUME IndInv, NEW p \in Caller, NEW k \in Key, calls[p] = idle,
         k \notin DOMAIN buckets,
         lims' = Append(lims, [tok |-> Burst, last |-> now]),
         buckets' = [j \in DOMAIN buckets \cup {k} |->
                       IF j = k THEN [lim |-> Len(lims'), lastSeen |-> now] ELSE buckets[j]],
         calls' = [calls EXCEPT ![p] = [key |-> k, lim |-> buckets'[k].lim, at |-> now]],
         UNCHANGED <<now, verdict>>
  PROVE  IndInv'
<1> USE Bounds DEF IndInv, Types
<1>1. /\ lims' \in Seq(TokenState)
      /\ Len(lims') = Len(lims) + 1
      /\ lims'[Len(lims')] = [tok |-> Burst, last |-> now]
      /\ \A i \in 1..Len(lims) : lims'[i] = lims[i]
      /\ Len(lims) \in Nat
  BY DEF TokenState
<1>2. /\ DOMAIN buckets' = DOMAIN buckets \cup {k}
      /\ \A j \in DOMAIN buckets : buckets'[j] = buckets[j]
      /\ buckets'[k] = [lim |-> Len(lims) + 1, lastSeen |-> now]
  BY <1>1
<1>3. Types'
  <2>1. PICK D \in SUBSET Key : buckets \in [D -> Entry]
    OBVIOUS
  <2>2. buckets' \in [D \cup {k} -> Entry]
    BY <2>1, <1>1 DEF Entry
  <2>3. calls' \in [Caller -> Call]
    BY <1>1, <1>2 DEF Call
  <2>4. QED
    BY <1>1, <2>2, <2>3
<1>4. BucketsSound'
  BY <1>1 DEF BucketsSound
<1>5. EntriesSound'
  <2>1. ASSUME NEW j \in DOMAIN buckets'
        PROVE  /\ buckets'[j].lim \in 1..Len(lims')
               /\ buckets'[j].lastSeen <= now'
               /\ lims'[buckets'[j].lim].last <= buckets'[j].lastSeen + MaxStall
    <3>1. CASE j = k
      BY <3>1, <1>1, <1>2
    <3>2. CASE j # k
      BY <3>2, <1>1, <1>2 DEF EntriesSound
    <3>3. QED
      BY <3>1, <3>2
  <2>2. \A i, j \in DOMAIN buckets' : buckets'[i].lim = buckets'[j].lim => i = j
    BY <1>1, <1>2 DEF EntriesSound
  <2>3. QED
    BY <2>1, <2>2 DEF EntriesSound
<1>6. ASSUME NEW q \in Busy'
      PROVE  /\ calls'[q].key \in DOMAIN buckets'
             /\ buckets'[calls'[q].key].lim = calls'[q].lim
             /\ calls'[q].at <= buckets'[calls'[q].key].lastSeen
             /\ now' <= calls'[q].at + MaxStall
  <2>1. CASE q = p
    BY <2>1, <1>2
  <2>2. CASE q # p
    BY <2>2, <1>2, <1>6 DEF CallsSound, Busy
  <2>3. QED
    BY <2>1, <2>2
<1>7. QED
  BY <1>3, <1>4, <1>5, <1>6 DEF CallsSound

\* A lookup keeps the invariant.
LEMMA LookupInv ==
  ASSUME IndInv, NEW p \in Caller, NEW k \in Key, Lookup(p, k)
  PROVE  IndInv'
BY FoundInv, CreatedInv DEF Lookup

\* What the handler that is about to take a token holds.
LEMMA Holding ==
  ASSUME IndInv, NEW p \in Caller, calls[p] # idle
  PROVE  /\ calls[p].key \in Key /\ calls[p].key \in DOMAIN buckets
         /\ calls[p].lim = buckets[calls[p].key].lim
         /\ calls[p].lim \in 1..Len(lims)
BY DEF IndInv, Types, EntriesSound, CallsSound, Busy

\* Tokens in a bucket at any moment.
LEMMA AvailableType ==
  ASSUME IndInv, NEW i \in 1..Len(lims)
  PROVE  /\ lims[i] \in TokenState
         /\ (now - lims[i].last) * Rate \in Nat
         /\ Available(i) \in Nat /\ Available(i) <= Burst
<1>1. lims[i] \in TokenState /\ now - lims[i].last \in Nat
  BY Parts DEF IndInv, BucketsSound
<1>2. (now - lims[i].last) * Rate \in Nat
  BY <1>1, Bounds
<1>3. lims[i].tok + (now - lims[i].last) * Rate \in Nat
  BY <1>1, <1>2 DEF TokenState
<1>4. Available(i) \in Nat /\ Available(i) <= Burst
  BY <1>3, Bounds DEF Available, Fill
<1>5. QED
  BY <1>1, <1>2, <1>4

\* Taking a token, or being refused, keeps the invariant.
LEMMA TakeInv ==
  ASSUME IndInv, NEW p \in Caller, Take(p)
  PROVE  IndInv'
<1> DEFINE i == calls[p].lim
           k == calls[p].key
<1> USE Bounds DEF IndInv, Types
<1>1. /\ calls[p] # idle /\ calls' = [calls EXCEPT ![p] = idle]
      /\ now' = now /\ buckets' = buckets
  BY DEF Take
<1>2. k \in DOMAIN buckets /\ i = buckets[k].lim /\ i \in 1..Len(lims)
  BY <1>1, Holding
<1>3. \/ lims' = lims
      \/ lims' = [lims EXCEPT ![i] = [tok |-> Available(i) - 1, last |-> now]] /\ Available(i) >= 1
  BY DEF Take
<1>4. /\ lims' \in Seq(TokenState) /\ Len(lims') = Len(lims)
      /\ \A j \in 1..Len(lims) : j # i => lims'[j] = lims[j]
      /\ lims'[i].tok <= Burst
      /\ lims'[i] = lims[i] \/ lims'[i].last = now
  <2>1. Available(i) \in Nat /\ Available(i) <= Burst
    BY <1>2, AvailableType
  <2>2. CASE lims' = lims
    BY <2>2, <1>2 DEF BucketsSound
  <2>3. CASE lims' = [lims EXCEPT ![i] = [tok |-> Available(i) - 1, last |-> now]] /\ Available(i) >= 1
    <3>1. [tok |-> Available(i) - 1, last |-> now] \in TokenState
      BY <2>1, <2>3 DEF TokenState
    <3>2. /\ lims' \in Seq(TokenState) /\ Len(lims') = Len(lims)
          /\ \A j \in 1..Len(lims) : j # i => lims'[j] = lims[j]
          /\ lims'[i] = [tok |-> Available(i) - 1, last |-> now]
      BY <2>3, <3>1, <1>2
    <3>3. QED
      BY <2>1, <3>2
  <2>4. QED
    BY <1>3, <2>2, <2>3
<1>5. Types'
  BY <1>1, <1>4 DEF Call, idle
<1>6. BucketsSound'
  <2>1. ASSUME NEW j \in 1..Len(lims)
        PROVE  lims'[j].tok <= Burst /\ lims'[j].last <= now
    <3>1. CASE j = i
      BY <3>1, <1>4 DEF BucketsSound
    <3>2. CASE j # i
      BY <3>2, <1>4 DEF BucketsSound
    <3>3. QED
      BY <3>1, <3>2
  <2>2. QED
    BY <1>1, <1>4, <2>1 DEF BucketsSound
<1>7. CallsSound'
  BY <1>1 DEF CallsSound, Busy
<1>8. now <= buckets[k].lastSeen + MaxStall
  BY <1>1, <1>2 DEF CallsSound, Busy, Call, Entry
<1>9. EntriesSound'
  <2>1. ASSUME NEW j \in DOMAIN buckets
        PROVE  lims'[buckets[j].lim].last <= buckets[j].lastSeen + MaxStall
    <3>1. CASE buckets[j].lim = i
      BY <3>1, <1>2, <1>4, <1>8 DEF EntriesSound
    <3>2. CASE buckets[j].lim # i
      BY <3>2, <1>4 DEF EntriesSound
    <3>3. QED
      BY <3>1, <3>2
  <2>2. QED
    BY <1>1, <1>4, <2>1 DEF EntriesSound
<1>10. QED
  BY <1>5, <1>6, <1>7, <1>9

\* A network that a handler in Allow has found is not collected.
LEMMA CollectInv ==
  ASSUME RefillsWhileIdle, IndInv, Collect
  PROVE  IndInv'
<1> USE Bounds DEF IndInv, Types
<1>1. PICK t \in 0..now :
        /\ buckets' = [k \in DOMAIN buckets \ {j \in DOMAIN buckets : t > buckets[j].lastSeen + IdleTTL}
                         |-> buckets[k]]
        /\ UNCHANGED <<now, lims, calls, verdict>>
  BY DEF Collect
<1>2. /\ DOMAIN buckets' \subseteq DOMAIN buckets
      /\ \A k \in DOMAIN buckets' : buckets'[k] = buckets[k]
      /\ buckets' \in [DOMAIN buckets' -> Entry]
  BY <1>1
<1>3. Types' /\ BucketsSound' /\ EntriesSound'
  BY <1>1, <1>2 DEF BucketsSound, EntriesSound
<1>4. ASSUME NEW p \in Busy
      PROVE  calls[p].key \in DOMAIN buckets'
  <2>1. /\ calls[p].key \in DOMAIN buckets
        /\ calls[p].at <= buckets[calls[p].key].lastSeen /\ now <= calls[p].at + MaxStall
    BY DEF CallsSound
  <2>2. calls[p].at \in Nat /\ buckets[calls[p].key].lastSeen \in Nat
    BY <2>1 DEF Busy, Call, Entry
  <2>3. ~(t > buckets[calls[p].key].lastSeen + IdleTTL)
    <3>1. now <= buckets[calls[p].key].lastSeen + IdleTTL
      BY <2>1, <2>2 DEF RefillsWhileIdle
    <3>2. QED
      BY <3>1, <2>2
  <2>4. QED
    BY <1>1, <2>1, <2>3
<1>5. CallsSound'
  BY <1>1, <1>2, <1>4 DEF CallsSound, Busy
<1>6. QED
  BY <1>3, <1>5

\* Time passes only as far as the handlers in Allow let it.
LEMMA TickInv ==
  ASSUME IndInv, Tick
  PROVE  IndInv'
<1> USE Bounds DEF IndInv, Types
<1>1. now' = now + 1 /\ UNCHANGED <<buckets, lims, calls>>
  BY DEF Tick
<1>2. Types'
  BY <1>1 DEF Entry, Call
<1>3. BucketsSound' /\ EntriesSound'
  BY <1>1, Parts DEF BucketsSound, EntriesSound
<1>4. ASSUME NEW p \in Busy PROVE now + 1 <= calls[p].at + MaxStall
  <2>1. now < calls[p].at + MaxStall /\ calls[p].at \in Nat
    BY DEF Tick, Busy, Call
  <2>2. QED
    BY <2>1
<1>5. CallsSound'
  BY <1>1, <1>4 DEF CallsSound, Busy
<1>6. QED
  BY <1>2, <1>3, <1>5

\* Every step keeps the invariant.
LEMMA StepInv ==
  ASSUME RefillsWhileIdle, IndInv, [Next]_vars
  PROVE  IndInv'
<1>1. CASE UNCHANGED vars
  BY <1>1 DEF vars, IndInv, Types, BucketsSound, EntriesSound, CallsSound, Busy
<1>2. QED
  BY <1>1, LookupInv, TakeInv, CollectInv, TickInv DEF Next

\* The invariant holds in every reachable state.
LEMMA Inductive ==
  ASSUME RefillsWhileIdle
  PROVE  Spec => []IndInv
<1>1. IndInv /\ [Next]_vars => IndInv'
  BY StepInv
<1>2. QED
  BY InitInv, <1>1, PTL DEF Spec

-----------------------------------------------------------------------------
(***************************************************************************)
(* The refinement: the tokens of a network that is not in the map are      *)
(* Burst, and every step of the limiter is a step of TokenBucket or leaves *)
(* tokens and verdict alone.                                               *)
(***************************************************************************)

tokens == [k \in Key |-> IF k \in DOMAIN buckets THEN Available(buckets[k].lim) ELSE Burst]

\* Tokens are filled up to Burst.
LEMMA FillFacts ==
  ASSUME NEW x \in Nat, NEW r \in Nat
  PROVE  /\ Fill(x) \in Nat /\ Fill(x) <= Burst
         /\ Fill(Fill(x) + r) = Fill(x + r)
         /\ x <= Burst => Fill(x) = x
         /\ x >= Burst => Fill(x) = Burst
BY Bounds DEF Fill

\* The abstract state after a step, network by network.
LEMMA TokensAt ==
  ASSUME NEW k \in Key
  PROVE  /\ tokens[k] = IF k \in DOMAIN buckets THEN Available(buckets[k].lim) ELSE Burst
         /\ tokens'[k] = IF k \in DOMAIN buckets' THEN Available(buckets[k].lim)' ELSE Burst
BY DEF tokens

\* Looking a bucket up, or creating it full, changes no tokens.
LEMMA LookupStutters ==
  ASSUME IndInv, NEW p \in Caller, NEW k \in Key, Lookup(p, k)
  PROVE  UNCHANGED <<tokens, verdict>>
<1> SUFFICES ASSUME NEW j \in Key PROVE tokens'[j] = tokens[j]
  BY DEF tokens, Lookup
<1>1. Len(lims) \in Nat /\ now' = now /\ now \in Nat
  BY Parts DEF IndInv, Lookup
<1>2. CASE k \in DOMAIN buckets /\ buckets' = [buckets EXCEPT ![k].lastSeen = now] /\ UNCHANGED lims
  <2>1. DOMAIN buckets' = DOMAIN buckets
    BY <1>2
  <2>2. j \in DOMAIN buckets => buckets'[j].lim = buckets[j].lim
    BY <1>2, Parts DEF IndInv, Entry
  <2>3. QED
    BY <1>1, <1>2, <2>1, <2>2, TokensAt DEF Available
<1>3. CASE /\ k \notin DOMAIN buckets
           /\ lims' = Append(lims, [tok |-> Burst, last |-> now])
           /\ buckets' = [i \in DOMAIN buckets \cup {k} |->
                            IF i = k THEN [lim |-> Len(lims'), lastSeen |-> now] ELSE buckets[i]]
  <2>1. /\ \A i \in 1..Len(lims) : lims'[i] = lims[i]
        /\ Len(lims') = Len(lims) + 1
        /\ lims'[Len(lims')] = [tok |-> Burst, last |-> now]
    BY <1>3 DEF IndInv, Types
  <2>2. CASE j = k
    <3>1. Available(buckets[j].lim)' = Fill(Burst + (now - now) * Rate)
      BY <1>1, <1>3, <2>1, <2>2 DEF Available
    <3>2. Fill(Burst + (now - now) * Rate) = Burst
      <4>1. now - now = 0 /\ 0 * Rate = 0 /\ Burst + 0 = Burst
        BY <1>1, Bounds
      <4>2. QED
        BY <4>1, FillFacts, Bounds
    <3>3. QED
      BY <1>3, <2>2, <3>1, <3>2, TokensAt
  <2>3. CASE j # k /\ j \in DOMAIN buckets
    <3>1. buckets'[j] = buckets[j] /\ j \in DOMAIN buckets' /\ buckets[j].lim \in 1..Len(lims)
      BY <1>3, <2>3 DEF IndInv, EntriesSound
    <3>2. Available(buckets[j].lim)' = Available(buckets[j].lim)
      BY <1>1, <2>1, <3>1 DEF Available
    <3>3. QED
      BY <2>3, <3>1, <3>2, TokensAt
  <2>4. CASE j # k /\ j \notin DOMAIN buckets
    BY <1>3, <2>4, TokensAt
  <2>5. QED
    BY <2>2, <2>3, <2>4
<1>4. QED
  BY <1>2, <1>3 DEF Lookup

\* A bucket that is collected is full.
LEMMA CollectedIsFull ==
  ASSUME RefillsWhileIdle, IndInv, NEW k \in DOMAIN buckets, now > buckets[k].lastSeen + IdleTTL
  PROVE  Available(buckets[k].lim) = Burst
<1> DEFINE i == buckets[k].lim
           d == now - lims[i].last
           m == IdleTTL + 1 - MaxStall
<1>1. i \in 1..Len(lims) /\ lims[i].last <= buckets[k].lastSeen + MaxStall
  BY DEF IndInv, EntriesSound
<1>2. lims[i].last \in Nat /\ lims[i].tok \in Nat /\ now \in Nat /\ buckets[k].lastSeen \in Nat
  BY <1>1, Parts DEF IndInv
<1>3. d \in Nat /\ m \in Nat /\ m <= d
  <2>1. \A a, b, c, e, f \in Nat :
          c <= b + f /\ a > b + e /\ f <= e => a - c \in Nat /\ e + 1 - f \in Nat /\ e + 1 - f <= a - c
    OBVIOUS
  <2>2. QED
    BY <1>1, <1>2, <2>1, Bounds DEF RefillsWhileIdle
<1>4. m * Rate \in Nat /\ d * Rate \in Nat /\ m * Rate <= d * Rate
  <2> HIDE DEF d, m
  <2>1. \A x, y, r \in Nat : x <= y => x * r \in Nat /\ y * r \in Nat /\ x * r <= y * r
    OBVIOUS
  <2>2. QED
    BY <1>3, <2>1, Bounds
<1>5. Burst <= lims[i].tok + d * Rate /\ lims[i].tok + d * Rate \in Nat
  BY <1>2, <1>4, Bounds DEF RefillsWhileIdle
<1>6. QED
  BY <1>5, FillFacts, Bounds DEF Available

\* A collection changes no tokens.
LEMMA CollectStutters ==
  ASSUME RefillsWhileIdle, IndInv, Collect
  PROVE  UNCHANGED <<tokens, verdict>>
<1>1. PICK t \in 0..now :
        /\ buckets' = [k \in DOMAIN buckets \ {j \in DOMAIN buckets : t > buckets[j].lastSeen + IdleTTL}
                         |-> buckets[k]]
        /\ UNCHANGED <<now, lims, calls, verdict>>
  BY DEF Collect
<1> SUFFICES ASSUME NEW j \in Key PROVE tokens'[j] = tokens[j]
  BY <1>1 DEF tokens
<1>2. CASE j \in DOMAIN buckets'
  <2>1. j \in DOMAIN buckets /\ buckets'[j] = buckets[j]
    BY <1>1, <1>2
  <2>2. Available(buckets[j].lim)' = Available(buckets[j].lim)
    BY <1>1, <2>1 DEF Available
  <2>3. QED
    BY <1>2, <2>1, <2>2, TokensAt
<1>3. CASE j \notin DOMAIN buckets' /\ j \in DOMAIN buckets
  <2>1. t > buckets[j].lastSeen + IdleTTL
    BY <1>1, <1>3
  <2>2. now > buckets[j].lastSeen + IdleTTL
    <3>1. buckets[j].lastSeen \in Nat /\ now \in Nat
      BY <1>3, Parts DEF IndInv
    <3>2. QED
      BY <2>1, <3>1, Bounds
  <2>3. QED
    BY <1>3, <2>2, CollectedIsFull, TokensAt
<1>4. CASE j \notin DOMAIN buckets' /\ j \notin DOMAIN buckets
  BY <1>4, TokensAt
<1>5. QED
  BY <1>2, <1>3, <1>4

\* When time passes every bucket is refilled for one tick.
LEMMA TickRefills ==
  ASSUME IndInv, Tick
  PROVE  Bucket!Tick
<1>1. now' = now + 1 /\ UNCHANGED <<buckets, lims, verdict>>
  BY DEF Tick
<1>2. ASSUME NEW j \in Key PROVE tokens'[j] = Fill(tokens[j] + Rate)
  <2>1. CASE j \in DOMAIN buckets
    <3> DEFINE i == buckets[j].lim
               x == lims[i].tok + (now - lims[i].last) * Rate
    <3>1. i \in 1..Len(lims)
      BY <2>1 DEF IndInv, EntriesSound
    <3>2. lims[i].tok \in Nat /\ lims[i].last \in Nat /\ now \in Nat /\ (now - lims[i].last) * Rate \in Nat
      BY <3>1, AvailableType, Parts DEF IndInv
    <3>3. (now + 1 - lims[i].last) * Rate = (now - lims[i].last) * Rate + Rate
      <4>1. \A a, b, r \in Nat : (a + 1 - b) * r = (a - b) * r + r
        OBVIOUS
      <4>2. QED
        BY <3>2, <4>1, Bounds
    <3>4. x \in Nat /\ Available(i) = Fill(x) /\ Available(i)' = Fill(x + Rate)
      BY <1>1, <3>2, <3>3, Bounds DEF Available
    <3>5. Available(i)' = Fill(Available(i) + Rate)
      BY <3>4, FillFacts, Bounds
    <3>6. tokens[j] = Available(i) /\ tokens'[j] = Available(i)'
      BY <1>1, <2>1, TokensAt
    <3>7. QED
      BY <3>5, <3>6
  <2>2. CASE j \notin DOMAIN buckets
    <3>1. tokens[j] = Burst /\ tokens'[j] = Burst
      BY <1>1, <2>2, TokensAt
    <3>2. Fill(Burst + Rate) = Burst
      BY Bounds DEF Fill
    <3>3. QED
      BY <3>1, <3>2
  <2>3. QED
    BY <2>1, <2>2
<1>3. tokens' = [k \in Key |-> Fill(tokens[k] + Rate)]
  BY <1>2 DEF tokens
<1>4. QED
  BY <1>1, <1>3 DEF Bucket!Tick, Bucket!Fill, Fill, tokens

\* A handler is let through exactly when its network has a token left.
LEMMA TakeDecides ==
  ASSUME IndInv, NEW p \in Caller, Take(p)
  PROVE  \E k \in Key : Bucket!Admit(k) \/ Bucket!Refuse(k)
<1>1. calls[p] # idle /\ UNCHANGED <<now, buckets>>
  BY DEF Take
<1>2. PICK i \in 1..Len(lims), k \in Key : i = calls[p].lim /\ k = calls[p].key
  BY <1>1, Holding
<1>3. k \in DOMAIN buckets /\ i = buckets[k].lim
  BY <1>1, <1>2, Holding
<1>4. tokens[k] = Available(i) /\ Available(i) \in Nat /\ Available(i) <= Burst
  BY <1>3, TokensAt, AvailableType
<1>5. CASE /\ Available(i) >= 1
           /\ lims' = [lims EXCEPT ![i] = [tok |-> Available(i) - 1, last |-> now]]
           /\ verdict' = [key |-> k, ok |-> TRUE]
  <2>1. /\ lims'[i] = [tok |-> Available(i) - 1, last |-> now]
        /\ \A h \in 1..Len(lims) : h # i => lims'[h] = lims[h]
    BY <1>3, <1>5 DEF IndInv, Types
  <2>2. Available(i)' = Available(i) - 1
    <3>1. Available(i)' = Fill((Available(i) - 1) + (now - now) * Rate)
      BY <1>1, <1>3, <2>1 DEF Available
    <3>2. (now - now) * Rate = 0
      <4>1. now \in Nat
        BY Parts DEF IndInv
      <4>2. now - now = 0 /\ 0 * Rate = 0
        BY <4>1, Bounds
      <4>3. QED
        BY <4>2
    <3>3. (Available(i) - 1) + 0 = Available(i) - 1 /\ Available(i) - 1 \in Nat /\ Available(i) - 1 <= Burst
      BY <1>4, <1>5, Bounds
    <3>4. QED
      BY <3>1, <3>2, <3>3, FillFacts
  <2>3. ASSUME NEW j \in Key, j # k PROVE tokens'[j] = tokens[j]
    <3>1. CASE j \in DOMAIN buckets
      <4>1. buckets[j].lim \in 1..Len(lims) /\ buckets[j].lim # i
        BY <1>3, <2>3, <3>1 DEF IndInv, EntriesSound
      <4>2. Available(buckets[j].lim)' = Available(buckets[j].lim)
        BY <1>1, <2>1, <4>1 DEF Available
      <4>3. QED
        BY <1>1, <3>1, <4>2, TokensAt
    <3>2. CASE j \notin DOMAIN buckets
      BY <1>1, <3>2, TokensAt
    <3>3. QED
      BY <3>1, <3>2
  <2>4. tokens'[k] = tokens[k] - 1
    <3>1. tokens'[k] = Available(i)'
      BY <1>1, <1>3, TokensAt
    <3>2. QED
      BY <3>1, <2>2, <1>4
  <2>5. tokens' = [tokens EXCEPT ![k] = @ - 1]
    BY <2>3, <2>4, <1>3 DEF tokens
  <2>6. tokens[k] >= 1
    BY <1>4, <1>5
  <2>7. Bucket!Admit(k)
    BY <2>5, <2>6, <1>5 DEF Bucket!Admit, tokens
  <2>8. QED
    BY <2>7, <1>3
<1>6. CASE Available(i) < 1 /\ verdict' = [key |-> k, ok |-> FALSE] /\ UNCHANGED lims
  <2>1. tokens' = tokens
    BY <1>1, <1>6 DEF tokens, Available
  <2>2. Bucket!Refuse(k)
    BY <1>4, <1>6, <2>1 DEF Bucket!Refuse, tokens
  <2>3. QED
    BY <2>2, <1>3
<1>7. QED
  BY <1>2, <1>5, <1>6 DEF Take

\* Concurrent lookups, creations and collections implement one token bucket
\* per network that is never reset, provided that idle_ttl is long enough to
\* fill a bucket.
THEOREM RefinesTokenBucket ==
  ASSUME RefillsWhileIdle
  PROVE  Spec => ImplementsTokenBucket
<1>1. Init => Bucket!Init
  BY DEF Init, Bucket!Init
<1>2. IndInv /\ [Next]_vars => [Bucket!Next]_(Bucket!vars)
  <2> SUFFICES ASSUME IndInv, [Next]_vars PROVE [Bucket!Next]_(Bucket!vars)
    OBVIOUS
  <2>1. CASE UNCHANGED vars
    BY <2>1 DEF vars, Bucket!vars, Available
  <2>2. CASE Tick
    BY <2>2, TickRefills DEF Bucket!Next
  <2>3. CASE Collect
    BY <2>3, CollectStutters DEF Bucket!vars, tokens
  <2>4. ASSUME NEW p \in Caller, Take(p) PROVE [Bucket!Next]_(Bucket!vars)
    BY <2>4, TakeDecides DEF Bucket!Next
  <2>5. ASSUME NEW p \in Caller, NEW k \in Key, Lookup(p, k) PROVE [Bucket!Next]_(Bucket!vars)
    BY <2>5, LookupStutters DEF Bucket!vars, tokens
  <2>6. QED
    BY <2>1, <2>2, <2>3, <2>4, <2>5 DEF Next
<1>3. QED
  BY Inductive, <1>1, <1>2, PTL DEF Spec, ImplementsTokenBucket, Bucket!Spec
=============================================================================
