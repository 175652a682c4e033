------------------------------ MODULE TokenBucket ------------------------------
(***************************************************************************)
(* What a rate limiter of R units per tick and capacity B promises: one    *)
(* bucket per client address that always exists, fills as time passes and  *)
(* pays for every request it admits.                                       *)
(***************************************************************************)
EXTENDS Integers

CONSTANTS IPs, R, B, Cost

VARIABLES level,   \* units in the bucket of each address
          verdict  \* the answer to the last request of each address

Least(x, y) == IF x <= y THEN x ELSE y

Init ==
  /\ level = [ip \in IPs |-> B]
  /\ verdict = [ip \in IPs |-> "none"]

Tick ==
  /\ level' = [ip \in IPs |-> Least(B, level[ip] + R)]
  /\ UNCHANGED verdict

Admit(ip) ==
  /\ level[ip] >= Cost
  /\ level' = [level EXCEPT ![ip] = @ - Cost]
  /\ verdict' = [verdict EXCEPT ![ip] = "admitted"]

Refuse(ip) ==
  /\ level[ip] < Cost
  /\ verdict' = [verdict EXCEPT ![ip] = "refused"]
  /\ UNCHANGED level

Next == Tick \/ \E ip \in IPs : Admit(ip) \/ Refuse(ip)

Spec == Init /\ [][Next]_<<level, verdict>>
=============================================================================
