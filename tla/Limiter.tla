------------------------------ MODULE Limiter -------------------------------
(***************************************************************************)
(* ratelimit.Limiter (internal/ratelimit/limiter.go): a bucket per client  *)
(* network, created on first use and deleted by gcLoop when idle.  Allow   *)
(* looks the bucket up under the lock and takes a token after unlocking,   *)
(* so a collection can run in between and leave the caller with a bucket   *)
(* that is no longer in the map.  The bucket itself is a rate.Limiter of   *)
(* golang.org/x/time (external): it starts full and is refilled lazily,    *)
(* for the time since a token was last taken, when one is asked for.       *)
(***************************************************************************)
EXTENDS Naturals, Sequences

CONSTANTS
  Key,        \* client networks, the values of bucketKey
  Caller,     \* handlers that may be in Allow at the same time
  Burst,      \* rate_limit.burst
  Rate,       \* rate_limit.rps, in tokens per tick
  IdleTTL,    \* rate_limit.idle_ttl, in ticks
  MaxTime,    \* bound: ticks
  MaxStall,   \* bound: ticks a handler may spend between the lookup and Allow
  MaxBuckets  \* bound: buckets created

ASSUME LimiterAssumption ==
  /\ Burst \in Nat \ {0} /\ Rate \in Nat \ {0} /\ IdleTTL \in Nat \ {0}
  /\ MaxTime \in Nat /\ MaxStall \in Nat /\ MaxBuckets \in Nat

VARIABLES
  now,        \* the time
  buckets,    \* l.buckets, [lim, lastSeen] for each key present
  lims,       \* the rate.Limiter objects, [tok, last]; lim is an index here
  calls,      \* calls[p]: p's Allow in progress, [key, lim, at], or idle
  verdict     \* the last decision, [key, ok]

vars == <<now, buckets, lims, calls, verdict>>

idle == [key |-> "none", lim |-> 0, at |-> 0]

Fill(n) == IF n > Burst THEN Burst ELSE n

\* Tokens in bucket i at this moment (rate.Limiter.advance).
Available(i) == Fill(lims[i].tok + (now - lims[i].last) * Rate)

Init ==
  /\ now = 0
  /\ buckets = [k \in {} |-> 0]
  /\ lims = <<>>
  /\ calls = [p \in Caller |-> idle]
  /\ verdict = [key |-> "none", ok |-> TRUE]

\* Mutant: the time of a lookup is recorded for a new bucket only.
LookupStale(p, k) ==
  /\ calls[p] = idle
  /\ \/ /\ k \in DOMAIN buckets
        /\ UNCHANGED <<lims, buckets>>
     \/ /\ k \notin DOMAIN buckets
        /\ Len(lims) < MaxBuckets
        /\ lims' = Append(lims, [tok |-> Burst, last |-> now])
        /\ buckets' = [j \in DOMAIN buckets \cup {k} |->
                         IF j = k THEN [lim |-> Len(lims'), lastSeen |-> now] ELSE buckets[j]]
  /\ calls' = [calls EXCEPT ![p] = [key |-> k, lim |-> buckets'[k].lim, at |-> now]]
  /\ UNCHANGED <<now, verdict>>

\* Allow's critical section: find or create the entry and touch it.
Lookup(p, k) ==
  /\ calls[p] = idle
  /\ \/ /\ k \in DOMAIN buckets
        /\ buckets' = [buckets EXCEPT ![k].lastSeen = now]
        /\ UNCHANGED lims
     \/ /\ k \notin DOMAIN buckets
        /\ Len(lims) < MaxBuckets
        /\ lims' = Append(lims, [tok |-> Burst, last |-> now])
        /\ buckets' = [j \in DOMAIN buckets \cup {k} |->
                         IF j = k THEN [lim |-> Len(lims'), lastSeen |-> now] ELSE buckets[j]]
  /\ calls' = [calls EXCEPT ![p] = [key |-> k, lim |-> buckets'[k].lim, at |-> now]]
  /\ UNCHANGED <<now, verdict>>

\* lim.Allow() after the unlock: a refusal leaves the bucket as it is.
Take(p) ==
  LET i == calls[p].lim IN
  /\ calls[p] # idle
  /\ \/ /\ Available(i) >= 1
        /\ lims' = [lims EXCEPT ![i] = [tok |-> Available(i) - 1, last |-> now]]
        /\ verdict' = [key |-> calls[p].key, ok |-> TRUE]
     \/ /\ Available(i) < 1
        /\ verdict' = [key |-> calls[p].key, ok |-> FALSE]
        /\ UNCHANGED lims
  /\ calls' = [calls EXCEPT ![p] = idle]
  /\ UNCHANGED <<now, buckets>>

\* One round of gcLoop.  t is the time the ticker delivered: the loop may get
\* the lock later, when buckets were touched since.
Collect ==
  \E t \in 0..now :
    LET expired == {k \in DOMAIN buckets : t > buckets[k].lastSeen + IdleTTL}
    IN  /\ expired # {}
        /\ buckets' = [k \in DOMAIN buckets \ expired |-> buckets[k]]
        /\ UNCHANGED <<now, lims, calls, verdict>>

\* Time passes, but no handler stalls for longer than MaxStall.
Tick ==
  /\ now < MaxTime
  /\ \A p \in Caller : calls[p] # idle => now < calls[p].at + MaxStall
  /\ now' = now + 1
  /\ UNCHANGED <<buckets, lims, calls, verdict>>

Next ==
  \/ Tick \/ Collect
  \/ \E p \in Caller : Take(p) \/ \E k \in Key : Lookup(p, k)

Spec == Init /\ [][Next]_vars

-----------------------------------------------------------------------------
(* Properties *)

\* A bucket that is collected was idle for more than IdleTTL, less what the
\* last handler to find it stalled before it took its token, and that is time
\* enough to fill it.  The defaults (5 per second, 20 tokens, 10 minutes) are
\* far from the limit; validLimit does not relate the three.
RefillsWhileIdle ==
  /\ MaxStall <= IdleTTL
  /\ Burst <= (IdleTTL + 1 - MaxStall) * Rate

\* The limiter is a token bucket per network: a network that is not in the
\* map has a full bucket.  Deleting an idle bucket and creating it again, a
\* sweep that runs between a lookup and its Allow, or concurrent lookups,
\* never give a client a token it would not have had.  It holds if idle_ttl
\* is long enough to refill a bucket (RefillsWhileIdle).
Bucket == INSTANCE TokenBucket WITH
  tokens <- [k \in Key |-> IF k \in DOMAIN buckets THEN Available(buckets[k].lim) ELSE Burst]
ImplementsTokenBucket == Bucket!Spec
=============================================================================
