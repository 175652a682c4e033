------------------------- MODULE FluxShield_proofs -------------------------
(***************************************************************************)
(* Theorems about FluxShield, for any addresses, rate, burst and idle      *)
(* limit that a minute without requests refills.                           *)
(***************************************************************************)
EXTENDS FluxShield, TLAPS

USE RateAssumption, BurstAssumption, IdleAssumption, MaxTimeAssumption, HeaderAssumption

LEMMA CapacityType == B \in Nat
BY DEF B

(* Products of naturals grow with their factors. *)
LEMMA Monotone ==
  ASSUME NEW r \in Nat, NEW x \in Nat, NEW y \in Nat, x <= y
  PROVE  r * x <= r * y
<1>1. PICK k \in Nat : y = x + k
  <2>1. y - x \in Nat /\ y = x + (y - x)
    OBVIOUS
  <2> QED BY <2>1
<1>2. r * y = r * x + r * k
  BY <1>1
<1>3. r * k \in Nat /\ r * x \in Nat
  OBVIOUS
<1> QED BY <1>2, <1>3

(* One tick more is R units more. *)
LEMMA NextTick ==
  ASSUME NEW r \in Nat, NEW t \in Int
  PROVE  r * (t + 1) = r * t + r
OBVIOUS

(* What an entry earns between its last payment and now is a natural number. *)
LEMMA Earned ==
  ASSUME NEW e \in [tokens : 0..B, last : Int, lastSeen : Int], now \in Nat, e.last <= now
  PROVE  /\ R * (now - e.last) \in Nat
         /\ Tokens(e) \in 0..B
         /\ Tokens(e) = Least(B, e.tokens + R * (now - e.last))
<1>1. now - e.last \in Nat /\ e.tokens \in Nat /\ e.tokens <= B
  BY CapacityType
<1>2. R * (now - e.last) \in Nat
  BY <1>1
<1> DEFINE earned == R * (now - e.last)
<1>3. Tokens(e) = Least(B, e.tokens + earned)
  BY DEF Tokens
<1> HIDE DEF earned
<1>4. earned \in Nat
  BY <1>2 DEF earned
<1>5. Tokens(e) \in 0..B
  BY <1>1, <1>3, <1>4, CapacityType DEF Least
<1> QED BY <1>2, <1>3, <1>5 DEF earned

-----------------------------------------------------------------------------
LEMMA LevelType ==
  ASSUME ShieldTypeOK, NEW ip \in IPs
  PROVE  Level(ip) \in 0..B
<1>1. CASE HasEntry(ip)
  <2>1. peers[ip].last <= now
    BY <1>1 DEF ShieldTypeOK, HasEntry
  <2>2. Tokens(peers[ip]) \in 0..B
    BY <2>1, Earned DEF ShieldTypeOK
  <2> QED BY <1>1, <2>2 DEF Level
<1>2. CASE ~HasEntry(ip)
  BY <1>2, CapacityType DEF Level
<1> QED BY <1>1, <1>2

(* The entry a request is served from is the address's own, or a full one:   *)
(* what it holds is the level of the address.                                *)
LEMMA EntryLevel ==
  ASSUME ShieldTypeOK, NEW ip \in IPs
  PROVE  /\ Entry(ip) \in [tokens : 0..B, last : Int, lastSeen : Int]
         /\ 0 <= Entry(ip).last /\ Entry(ip).last <= now /\ Entry(ip).lastSeen = now
         /\ Tokens(Entry(ip)) = Level(ip)
<1>1. CASE HasEntry(ip)
  <2>1. Entry(ip) = [peers[ip] EXCEPT !.lastSeen = now]
    BY <1>1 DEF Entry
  <2>2. peers[ip] \in [tokens : 0..B, last : Int, lastSeen : Int] /\ now \in Int
    BY DEF ShieldTypeOK
  <2>3. /\ Entry(ip) \in [tokens : 0..B, last : Int, lastSeen : Int]
        /\ Entry(ip).tokens = peers[ip].tokens /\ Entry(ip).last = peers[ip].last
        /\ Entry(ip).lastSeen = now
    BY <2>1, <2>2
  <2>4. 0 <= peers[ip].last /\ peers[ip].last <= now
    BY <1>1 DEF ShieldTypeOK, HasEntry
  <2>5. Tokens(Entry(ip)) = Tokens(peers[ip])
    BY <2>3 DEF Tokens
  <2> QED BY <1>1, <2>3, <2>4, <2>5 DEF Level
<1>2. CASE ~HasEntry(ip)
  <2>1. Entry(ip) = [tokens |-> B, last |-> now, lastSeen |-> now]
    BY <1>2 DEF Entry
  <2>2. now \in Nat /\ B \in 0..B /\ R * (now - now) = 0
    BY CapacityType DEF ShieldTypeOK
  <2>3. Tokens(Entry(ip)) = Least(B, B + 0)
    BY <2>1, <2>2 DEF Tokens
  <2> QED BY <1>2, <2>1, <2>2, <2>3, CapacityType DEF Least, Level
<1> QED BY <1>1, <1>2

(* What a request does to the levels: it pays one token or changes nothing.  *)
LEMMA RequestLevel ==
  ASSUME ShieldTypeOK, NEW ip \in IPs, NEW q \in IPs,
         now' = now,
         NEW n \in 0..B,
         NEW e \in [tokens : 0..B, last : Int, lastSeen : Int],
         peers' = [peers EXCEPT ![ip] = e],
         0 <= e.last, e.last <= now, Tokens(e) = n
  PROVE  Level(q)' = IF q = ip THEN n ELSE Level(q)
<1>1. peers \in [IPs -> [tokens : 0..B, last : Int, lastSeen : Int]]
  BY DEF ShieldTypeOK
<1>2. CASE q = ip
  <2>1. peers'[q] = e /\ HasEntry(q)'
    BY <1>1, <1>2 DEF HasEntry
  <2>2. Tokens(peers[q])' = Tokens(e)
    BY <2>1 DEF Tokens
  <2> QED BY <1>2, <2>1, <2>2 DEF Level
<1>3. CASE q # ip
  <2>1. peers'[q] = peers[q]
    BY <1>1, <1>3
  <2> QED BY <1>3, <2>1 DEF Level, HasEntry, Tokens
<1> QED BY <1>2, <1>3

-----------------------------------------------------------------------------
(* A request, as its effect on the level of its address. *)
LEMMA RequestCases ==
  ASSUME ShieldTypeOK, NEW forwarded \in IPs \cup {NoHeader}, NEW remote \in IPs,
         Middleware(forwarded, remote)
  PROVE  \E ip \in IPs :
           \/ /\ Level(ip) >= Cost
              /\ \A q \in IPs : Level(q)' = IF q = ip THEN Level(ip) - Cost ELSE Level(q)
              /\ verdict' = [verdict EXCEPT ![ip] = "admitted"]
              /\ admitted' = [admitted EXCEPT ![ip] = @ + Cost]
              /\ now' = now /\ ShieldTypeOK'
           \/ /\ Level(ip) < Cost
              /\ \A q \in IPs : Level(q)' = Level(q)
              /\ verdict' = [verdict EXCEPT ![ip] = "refused"]
              /\ UNCHANGED <<now, admitted>> /\ ShieldTypeOK'
<1> DEFINE ip == ExtractIP(forwarded, remote)
           e == Entry(ip)
           paid == [e EXCEPT !.tokens = Tokens(e) - Cost, !.last = now]
<1>1. ip \in IPs
  BY DEF ExtractIP
<1>2. /\ e \in [tokens : 0..B, last : Int, lastSeen : Int]
      /\ 0 <= e.last /\ e.last <= now /\ e.lastSeen = now
      /\ Tokens(e) = Level(ip)
  BY <1>1, EntryLevel
<1>3. Level(ip) \in 0..B /\ now \in Nat
  BY <1>1, LevelType DEF ShieldTypeOK
<1>4. CASE Tokens(e) >= Cost
  <2>1. /\ peers' = [peers EXCEPT ![ip] = paid]
        /\ verdict' = [verdict EXCEPT ![ip] = "admitted"]
        /\ admitted' = [admitted EXCEPT ![ip] = @ + Cost]
        /\ now' = now
    BY <1>4 DEF Middleware
  <2> HIDE DEF e
  <2>2. Level(ip) - Cost \in 0..B
    BY <1>2, <1>3, <1>4, CapacityType
  <2>3. /\ paid \in [tokens : 0..B, last : Int, lastSeen : Int]
        /\ paid.tokens = Level(ip) - Cost /\ paid.last = now /\ paid.lastSeen = now
    BY <1>2, <1>3, <2>2
  <2> HIDE DEF paid
  <2>4. Tokens(paid) = Level(ip) - Cost
    <3>1. R * (now - now) = 0
      BY <1>3
    <3>2. Tokens(paid) = Least(B, Level(ip) - Cost + 0)
      BY <2>3, <3>1 DEF Tokens
    <3> QED BY <2>2, <3>2, CapacityType DEF Least
  <2>5. \A q \in IPs : Level(q)' = IF q = ip THEN Level(ip) - Cost ELSE Level(q)
    <3>1. 0 <= paid.last /\ paid.last <= now
      BY <1>3, <2>3
    <3> HIDE DEF ip
    <3> QED BY <1>1, <2>1, <2>2, <2>3, <2>4, <3>1, RequestLevel
  <2>6. ShieldTypeOK'
    <3> HIDE DEF ip
    <3>1. \A q \in IPs : peers'[q] = IF q = ip THEN paid ELSE peers[q]
      BY <1>1, <2>1 DEF ShieldTypeOK
    <3>2. peers' \in [IPs -> [tokens : 0..B, last : Int, lastSeen : Int]]
      BY <2>1, <2>3 DEF ShieldTypeOK
    <3>3. admitted' \in [IPs -> Nat]
      BY <1>1, <2>1 DEF ShieldTypeOK
    <3>4. verdict' \in [IPs -> {"none", "admitted", "refused"}]
      BY <2>1 DEF ShieldTypeOK
    <3> QED BY <1>3, <2>1, <2>3, <3>1, <3>2, <3>3, <3>4 DEF ShieldTypeOK, HasEntry
  <2>7. Level(ip) >= Cost
    BY <1>2, <1>4
  <2> HIDE DEF ip
  <2> QED BY <1>1, <2>1, <2>5, <2>6, <2>7
<1>5. CASE ~(Tokens(e) >= Cost)
  <2>1. /\ peers' = [peers EXCEPT ![ip] = e]
        /\ verdict' = [verdict EXCEPT ![ip] = "refused"]
        /\ UNCHANGED <<now, admitted>>
    BY <1>5 DEF Middleware
  <2> HIDE DEF e, ip
  <2>2. \A q \in IPs : Level(q)' = Level(q)
    BY <1>1, <1>2, <1>3, <2>1, RequestLevel
  <2>3. ShieldTypeOK'
    <3>1. \A q \in IPs : peers'[q] = IF q = ip THEN e ELSE peers[q]
      BY <1>1, <2>1 DEF ShieldTypeOK
    <3>2. peers' \in [IPs -> [tokens : 0..B, last : Int, lastSeen : Int]]
      BY <1>2, <2>1 DEF ShieldTypeOK
    <3>3. verdict' \in [IPs -> {"none", "admitted", "refused"}]
      BY <2>1 DEF ShieldTypeOK
    <3> QED BY <1>2, <1>3, <2>1, <3>1, <3>2, <3>3 DEF ShieldTypeOK, HasEntry
  <2>4. Level(ip) < Cost
    BY <1>2, <1>3, <1>5
  <2> QED BY <1>1, <2>1, <2>2, <2>3, <2>4
<1> QED BY <1>4, <1>5

(* A tick raises every level by the rate, up to the capacity. *)
LEMMA TickLevel ==
  ASSUME ShieldTypeOK, Tick
  PROVE  /\ ShieldTypeOK'
         /\ now' = now + 1 /\ UNCHANGED <<verdict, admitted>>
         /\ \A ip \in IPs : Level(ip)' = Least(B, Level(ip) + R)
<1>1. now' = now + 1 /\ now' \in 0..MaxTime /\ now \in Nat /\ UNCHANGED <<peers, verdict, admitted>>
  BY DEF Tick, ShieldTypeOK
<1>2. ShieldTypeOK'
  BY <1>1 DEF ShieldTypeOK, HasEntry
<1>3. ASSUME NEW ip \in IPs PROVE Level(ip)' = Least(B, Level(ip) + R)
  <2>1. CASE HasEntry(ip)
    <3> DEFINE e == peers[ip]
               earned == R * (now - e.last)
    <3>1. e \in [tokens : 0..B, last : Int, lastSeen : Int] /\ 0 <= e.last /\ e.last <= now
      BY <2>1 DEF ShieldTypeOK, HasEntry
    <3>2. earned \in Nat /\ Tokens(e) = Least(B, e.tokens + earned)
      BY <1>1, <3>1, Earned
    <3>3. R * (now' - e.last) = earned + R
      <4>1. now' - e.last = (now - e.last) + 1 /\ now - e.last \in Int
        BY <1>1, <3>1
      <4>2. R * ((now - e.last) + 1) = R * (now - e.last) + R
        BY <4>1, NextTick
      <4> QED BY <4>1, <4>2
    <3>4. Level(ip)' = Least(B, e.tokens + (earned + R))
      <4> DEFINE later == R * (now' - e.last)
      <4>1. Level(ip)' = Least(B, e.tokens + later)
        BY <1>1, <2>1 DEF Level, HasEntry, Tokens
      <4>2. later = earned + R
        BY <3>3
      <4> HIDE DEF later, earned, e
      <4> QED BY <4>1, <4>2
    <3>5. Level(ip) = Least(B, e.tokens + earned)
      BY <2>1, <3>2 DEF Level
    <3> HIDE DEF earned
    <3> QED BY <3>1, <3>2, <3>4, <3>5, CapacityType DEF Least
  <2>2. CASE ~HasEntry(ip)
    BY <1>1, <2>2, CapacityType DEF Level, HasEntry, Least
  <2> QED BY <2>1, <2>2
<1> QED BY <1>1, <1>2, <1>3

(* Eviction changes no level, because an idle bucket is full. *)
LEMMA CleanupLevel ==
  ASSUME ShieldTypeOK, Cleanup
  PROVE  /\ ShieldTypeOK'
         /\ UNCHANGED <<now, verdict, admitted>>
         /\ BurstRefills => \A ip \in IPs : Level(ip)' = Level(ip)
<1>1. /\ UNCHANGED <<now, verdict, admitted>> /\ now \in Nat
      /\ \A ip \in IPs : peers'[ip] = IF Evictable(ip) THEN NoEntry ELSE peers[ip]
  BY DEF Cleanup, ShieldTypeOK
<1>2. ShieldTypeOK'
  <2>1. NoEntry \in [tokens : 0..B, last : Int, lastSeen : Int] /\ NoEntry.last < 0
    BY CapacityType DEF NoEntry
  <2>2. peers' \in [IPs -> [tokens : 0..B, last : Int, lastSeen : Int]]
    BY <2>1 DEF Cleanup, ShieldTypeOK
  <2> QED BY <1>1, <2>1, <2>2 DEF ShieldTypeOK, HasEntry
<1>3. ASSUME BurstRefills, NEW ip \in IPs PROVE Level(ip)' = Level(ip)
  <2>1. CASE Evictable(ip)
    <3> DEFINE e == peers[ip]
               earned == R * (now - e.last)
    <3>1. /\ e \in [tokens : 0..B, last : Int, lastSeen : Int] /\ HasEntry(ip)
          /\ 0 <= e.last /\ e.last <= e.lastSeen /\ e.lastSeen < now - Idle
      BY <2>1 DEF Evictable, ShieldTypeOK, HasEntry
    <3>2. Idle <= now - e.last /\ now - e.last \in Nat /\ e.last <= now
      BY <1>1, <3>1
    <3>3. R * Idle <= earned
      BY <3>2, Monotone
    <3>4. earned \in Nat /\ Tokens(e) = Least(B, e.tokens + earned)
      BY <1>1, <3>1, <3>2, Earned
    <3>5. B <= R * Idle /\ R * Idle \in Nat
      BY <1>3 DEF BurstRefills
    <3> HIDE DEF earned
    <3>6. Tokens(e) = B
      BY <3>1, <3>3, <3>4, <3>5, CapacityType DEF Least
    <3>7. Level(ip) = B
      BY <3>1, <3>6 DEF Level
    <3>8. ~HasEntry(ip)'
      BY <1>1, <2>1 DEF HasEntry, NoEntry
    <3> QED BY <3>7, <3>8 DEF Level
  <2>2. CASE ~Evictable(ip)
    BY <1>1, <2>2 DEF Level, HasEntry, Tokens
  <2> QED BY <2>1, <2>2
<1> QED BY <1>1, <1>2, <1>3

LEMMA StutterLevel ==
  ASSUME UNCHANGED shieldVars
  PROVE  UNCHANGED <<now, peers, verdict, admitted>> /\ \A ip \in IPs : Level(ip)' = Level(ip)
BY DEF shieldVars, Level, HasEntry, Tokens

-----------------------------------------------------------------------------
(* The inductive invariant: the types and the bound on what was paid. *)
IInv == ShieldTypeOK /\ RateBound

LEMMA InitLevel == ShieldInit => ShieldTypeOK /\ \A ip \in IPs : Level(ip) = B
BY CapacityType DEF ShieldInit, ShieldTypeOK, NoEntry, HasEntry, Level

LEMMA IInvInit == ShieldInit => IInv
<1> SUFFICES ASSUME ShieldInit PROVE IInv
  OBVIOUS
<1>1. \A ip \in IPs : admitted[ip] + Level(ip) <= B + R * now
  <2>1. now = 0 /\ R * 0 = 0 /\ \A ip \in IPs : admitted[ip] = 0
    BY DEF ShieldInit
  <2>2. B + R * now = B
    BY <2>1, CapacityType
  <2>3. \A ip \in IPs : Level(ip) = B
    BY InitLevel
  <2>4. \A ip \in IPs : admitted[ip] + Level(ip) = B
    <3> SUFFICES ASSUME NEW ip \in IPs PROVE admitted[ip] + Level(ip) = B
      OBVIOUS
    <3>1. admitted[ip] = 0 /\ Level(ip) = B
      BY <2>1, <2>3
    <3>2. 0 + B = B
      BY CapacityType
    <3> QED BY <3>1, <3>2
  <2>5. B <= B
    BY CapacityType
  <2> QED BY <2>2, <2>4, <2>5, Zenon
<1> QED BY <1>1, InitLevel DEF IInv, RateBound

LEMMA IInvInductive == IInv /\ [ShieldNext]_shieldVars => IInv'
<1> SUFFICES ASSUME IInv, [ShieldNext]_shieldVars PROVE IInv'
  OBVIOUS
<1> DEFINE limit == B + R * now
<1>1. ShieldTypeOK /\ now \in Nat /\ admitted \in [IPs -> Nat] /\ Cost \in Nat /\ R \in Nat
  BY DEF IInv, ShieldTypeOK
<1>2. R * now \in Nat /\ limit \in Nat
  BY <1>1, CapacityType
<1>3. BurstRefills => \A ip \in IPs : admitted[ip] + Level(ip) <= limit
  BY DEF IInv, RateBound
<1>4. \A ip \in IPs : Level(ip) \in Nat
  BY <1>1, LevelType, CapacityType
<1>5. CASE Tick
  <2>1. ShieldTypeOK' /\ now' = now + 1 /\ admitted' = admitted
    BY <1>1, <1>5, TickLevel
  <2>2. \A ip \in IPs : Level(ip)' <= Level(ip) + R
    BY <1>1, <1>4, <1>5, TickLevel, CapacityType DEF Least
  <2>3. \A ip \in IPs : Level(ip)' \in Nat
    BY <1>1, <1>4, <1>5, TickLevel, CapacityType DEF Least
  <2>4. limit' = limit + R
    <3>1. R * (now + 1) = R * now + R
      BY <1>1, NextTick
    <3>2. R * now' = R * now + R
      BY <2>1, <3>1
    <3> QED BY <1>1, <1>2, <3>2, CapacityType
  <2> HIDE DEF limit
  <2>5. BurstRefills => \A ip \in IPs : admitted'[ip] + Level(ip)' <= limit'
    BY <1>1, <1>2, <1>3, <1>4, <2>1, <2>2, <2>3, <2>4
  <2> QED BY <2>1, <2>5 DEF IInv, RateBound, limit
<1>6. ASSUME NEW remote \in IPs, NEW forwarded \in IPs \cup {NoHeader}, Middleware(forwarded, remote)
      PROVE  IInv'
  <2>1. ShieldTypeOK' /\ limit' = limit
    BY <1>1, <1>6, RequestCases
  <2> HIDE DEF limit
  <2>2. BurstRefills => \A ip \in IPs : admitted'[ip] + Level(ip)' <= limit
    BY <1>1, <1>2, <1>3, <1>4, <1>6, RequestCases
  <2> QED BY <2>1, <2>2 DEF IInv, RateBound, limit
<1>7. CASE Cleanup
  BY <1>1, <1>3, <1>7, CleanupLevel DEF IInv, RateBound
<1>8. CASE UNCHANGED shieldVars
  <2>1. ShieldTypeOK'
    BY <1>1, <1>8 DEF shieldVars, ShieldTypeOK, HasEntry
  <2> QED BY <1>3, <1>8, <2>1, StutterLevel DEF IInv, RateBound
<1> QED BY <1>5, <1>6, <1>7, <1>8 DEF ShieldNext

(* Every reachable state is well typed: a bucket never holds more than the   *)
(* burst, nor less than nothing.                                             *)
THEOREM TypeCorrect == ShieldSpec => []ShieldTypeOK
<1>1. IInv => ShieldTypeOK
  BY DEF IInv
<1> QED BY <1>1, IInvInit, IInvInductive, PTL DEF ShieldSpec

(* No address is ever admitted for more than the burst and the rate allow.   *)
THEOREM RateBounded == ShieldSpec => []RateBound
<1>1. IInv => RateBound
  BY DEF IInv
<1> QED BY <1>1, IInvInit, IInvInductive, PTL DEF ShieldSpec

-----------------------------------------------------------------------------
(* The refinement: initial states ... *)
LEMMA BucketInit == ShieldInit => Bucket!Init
<1> SUFFICES ASSUME ShieldInit PROVE Bucket!Init
  OBVIOUS
<1>1. [ip \in IPs |-> Level(ip)] = [ip \in IPs |-> B]
  BY InitLevel
<1>2. verdict = [ip \in IPs |-> "none"]
  BY DEF ShieldInit
<1> QED BY <1>1, <1>2 DEF Bucket!Init

(* ... and steps: time is time, a request is admitted or refused, and        *)
(* cleanup changes nothing.                                                  *)
LEMMA BucketNext ==
  ASSUME BurstRefills, ShieldTypeOK, [ShieldNext]_shieldVars
  PROVE  [Bucket!Next]_<<[ip \in IPs |-> Level(ip)], verdict>>
<1> DEFINE level == [ip \in IPs |-> Level(ip)]
<1>1. CASE Tick
  <2>1. \A ip \in IPs : level'[ip] = Least(B, level[ip] + R)
    BY <1>1, TickLevel
  <2>2. level' = [ip \in IPs |-> Least(B, level[ip] + R)] /\ verdict' = verdict
    BY <1>1, <2>1, TickLevel
  <2>3. Bucket!Tick
    BY <2>2 DEF Bucket!Tick, Bucket!Least, Least
  <2> QED BY <2>3 DEF Bucket!Next
<1>2. ASSUME NEW remote \in IPs, NEW forwarded \in IPs \cup {NoHeader}, Middleware(forwarded, remote)
      PROVE  Bucket!Next
  <2>1. PICK ip \in IPs :
          \/ /\ Level(ip) >= Cost
             /\ \A q \in IPs : Level(q)' = IF q = ip THEN Level(ip) - Cost ELSE Level(q)
             /\ verdict' = [verdict EXCEPT ![ip] = "admitted"]
          \/ /\ Level(ip) < Cost
             /\ \A q \in IPs : Level(q)' = Level(q)
             /\ verdict' = [verdict EXCEPT ![ip] = "refused"]
    BY <1>2, RequestCases
  <2>2. CASE Level(ip) >= Cost /\ verdict' = [verdict EXCEPT ![ip] = "admitted"]
             /\ \A q \in IPs : Level(q)' = IF q = ip THEN Level(ip) - Cost ELSE Level(q)
    <3>1. level[ip] >= Cost /\ level' = [level EXCEPT ![ip] = @ - Cost]
      BY <2>2
    <3>2. Bucket!Admit(ip)
      BY <2>2, <3>1 DEF Bucket!Admit
    <3> QED BY <3>2 DEF Bucket!Next
  <2>3. CASE Level(ip) < Cost /\ verdict' = [verdict EXCEPT ![ip] = "refused"]
             /\ \A q \in IPs : Level(q)' = Level(q)
    <3>1. level[ip] < Cost /\ level' = level
      BY <2>3
    <3>2. Bucket!Refuse(ip)
      BY <2>3, <3>1 DEF Bucket!Refuse
    <3> QED BY <3>2 DEF Bucket!Next
  <2> QED BY <2>1, <2>2, <2>3
<1>3. CASE Cleanup
  <2>1. level' = level /\ verdict' = verdict
    BY <1>3, CleanupLevel
  <2> QED BY <2>1
<1>4. CASE UNCHANGED shieldVars
  <2>1. level' = level /\ verdict' = verdict
    BY <1>4, StutterLevel
  <2> QED BY <2>1
<1> QED BY <1>1, <1>2, <1>3, <1>4 DEF ShieldNext

(* The limiter map with eviction implements one bucket per address that      *)
(* lives for ever, for every burst that the idle limit refills.              *)
THEOREM BucketImplemented == BurstRefills => (ShieldSpec => ImplementsTokenBucket)
<1> SUFFICES ASSUME BurstRefills PROVE ShieldSpec => ImplementsTokenBucket
  OBVIOUS
<1>1. ShieldTypeOK /\ [ShieldNext]_shieldVars => [Bucket!Next]_<<[ip \in IPs |-> Level(ip)], verdict>>
  BY BucketNext
<1> QED BY <1>1, BucketInit, TypeCorrect, PTL DEF ShieldSpec, ImplementsTokenBucket, Bucket!Spec
=============================================================================
