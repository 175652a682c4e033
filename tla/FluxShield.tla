------------------------------ MODULE FluxShield ------------------------------
(***************************************************************************)
(* The per-IP rate limiter of an HTTP gate (internal/ratelimit/            *)
(* fluxshield.go): a map from client address to a rate.Limiter, made on    *)
(* first use and thrown away after a minute without requests.              *)
(*                                                                         *)
(* Time is a counter of ticks.  Tokens are fractional in the code (the     *)
(* rate is a float64): one token is Cost units, and the rate is R units    *)
(* per tick.  The map is locked while a limiter is looked up and while     *)
(* cleanup runs, and a limiter locks itself, so a request is one step; it  *)
(* is assumed to reach Allow within the tick in which it got its limiter.  *)
(***************************************************************************)
EXTENDS Integers

CONSTANTS IPs,      \* client addresses
          NoHeader, \* no X-Forwarded-For header
          R,        \* rps, in units per tick
          Burst,    \* burst, in tokens
          Cost,     \* units that make one token
          Idle,     \* ticks without a request before a limiter may be evicted
          MaxTime   \* bound: ticks considered

ASSUME RateAssumption == R \in Nat \ {0} /\ Cost \in Nat \ {0}
ASSUME BurstAssumption == Burst \in Nat
ASSUME IdleAssumption == Idle \in Nat
ASSUME MaxTimeAssumption == MaxTime \in Nat
ASSUME HeaderAssumption == NoHeader \notin IPs

B == Burst * Cost

VARIABLES now,
          peers,    \* fs.peers; NoEntry for an address without a limiter
          verdict,  \* the answer to the last request of each address
          admitted  \* history: units paid by each address so far

shieldVars == <<now, peers, verdict, admitted>>

NoEntry == [tokens |-> 0, last |-> -1, lastSeen |-> -1]
HasEntry(ip) == peers[ip].last >= 0

Least(x, y) == IF x <= y THEN x ELSE y

ShieldInit ==
  /\ now = 0
  /\ peers = [ip \in IPs |-> NoEntry]
  /\ verdict = [ip \in IPs |-> "none"]
  /\ admitted = [ip \in IPs |-> 0]

(* Time passes. *)
Tick ==
  /\ now < MaxTime
  /\ now' = now + 1
  /\ UNCHANGED <<peers, verdict, admitted>>

-----------------------------------------------------------------------------
(* extractIP: the leftmost forwarded address, else the peer of the socket. *)
ExtractIP(forwarded, remote) == IF forwarded # NoHeader THEN forwarded ELSE remote

(* limiter: make the entry if there is none, and note the time. *)
Entry(ip) ==
  IF HasEntry(ip) THEN [peers[ip] EXCEPT !.lastSeen = now]
                  ELSE [tokens |-> B, last |-> now, lastSeen |-> now]

(* Wrong variant: the bucket has no capacity. *)
UncappedTokens(e) == e.tokens + R * (now - e.last)
(* rate.Limiter: what an entry's bucket holds now. *)
Tokens(e) == Least(B, e.tokens + R * (now - e.last))

(* Allow, and the middleware's 429 or call of the next handler. *)
Middleware(forwarded, remote) ==
  LET ip == ExtractIP(forwarded, remote)
      e == Entry(ip)
  IN IF Tokens(e) >= Cost
       THEN /\ peers' = [peers EXCEPT ![ip] = [e EXCEPT !.tokens = Tokens(e) - Cost, !.last = now]]
            /\ verdict' = [verdict EXCEPT ![ip] = "admitted"]
            /\ admitted' = [admitted EXCEPT ![ip] = @ + Cost]
            /\ UNCHANGED now
       ELSE /\ peers' = [peers EXCEPT ![ip] = e]
            /\ verdict' = [verdict EXCEPT ![ip] = "refused"]
            /\ UNCHANGED <<now, admitted>>

-----------------------------------------------------------------------------
(* Wrong variant: limiters are evicted after one tick. *)
EvictableEarly(ip) == HasEntry(ip) /\ peers[ip].lastSeen <= now - 1
(* lastSeen.Before(now - idle) *)
Evictable(ip) == HasEntry(ip) /\ peers[ip].lastSeen < now - Idle

(* One round of cleanup, under the lock. *)
Cleanup ==
  /\ \E ip \in IPs : Evictable(ip)
  /\ peers' = [ip \in IPs |-> IF Evictable(ip) THEN NoEntry ELSE peers[ip]]
  /\ UNCHANGED <<now, verdict, admitted>>

ShieldNext ==
  \/ Tick
  \/ \E remote \in IPs : \E forwarded \in IPs \cup {NoHeader} : Middleware(forwarded, remote)
  \/ Cleanup

ShieldSpec == ShieldInit /\ [][ShieldNext]_shieldVars

-----------------------------------------------------------------------------
ShieldTypeOK ==
  /\ now \in 0..MaxTime
  /\ peers \in [IPs -> [tokens : 0..B, last : Int, lastSeen : Int]]
  /\ \A ip \in IPs : IF HasEntry(ip) THEN /\ peers[ip].last <= peers[ip].lastSeen
                                          /\ peers[ip].lastSeen <= now
                                     ELSE peers[ip] = NoEntry
  /\ verdict \in [IPs -> {"none", "admitted", "refused"}]
  /\ admitted \in [IPs -> Nat]

(* What a client finds: the tokens of its entry, or the full bucket of the   *)
(* entry it would be given.                                                  *)
Level(ip) == IF HasEntry(ip) THEN Tokens(peers[ip]) ELSE B

(* A minute fills any bucket. *)
BurstRefills == B <= R * Idle

(* An address is never admitted for more than the burst and the rate allow,  *)
(* over any history: throwing its limiter away must not give it new tokens.  *)
RateBound == BurstRefills => \A ip \in IPs : admitted[ip] + Level(ip) <= B + R * now

(* Eviction cannot be noticed: the map with cleanup implements one bucket    *)
(* per address that lives for ever (when BurstRefills holds).                *)
Bucket == INSTANCE TokenBucket WITH level <- [ip \in IPs |-> Level(ip)]
ImplementsTokenBucket == Bucket!Spec
=============================================================================
