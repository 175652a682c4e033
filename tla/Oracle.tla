------------------------------- MODULE Oracle -------------------------------
(***************************************************************************)
(* The Oracle (internal/oracle) and the flush goroutine of main that       *)
(* checks it.                                                              *)
(*                                                                         *)
(* Two goroutines run analyze: Start's ticker, and the flush goroutine     *)
(* through Check.  The mutex is held to read or to write lastCall and      *)
(* lastSnaps but not while the metrics are gathered nor during the API     *)
(* call, so that each critical section is a step of its own.               *)
(*                                                                         *)
(* A tick is 30 seconds, the period of the flush and the deadline of an    *)
(* API call; no other step takes that long.  Times are ages in ticks.  An  *)
(* age of Interval stands for that or longer, and Never is the age of the  *)
(* zero time, in which lastCall starts: some 292 years, as time.Since      *)
(* saturates.                                                              *)
(*                                                                         *)
(* The API is told a rate for each gate, kept here as its two operands.    *)
(* ReqDelta, ErrDelta and P95Delta are differences of what two answered    *)
(* calls were told and are left out, as is what an answer says.            *)
(***************************************************************************)
EXTENDS Collector

CONSTANTS Interval,     \* interval_seconds, in ticks
          Threshold     \* p95_latency_threshold, 0 for none

ASSUME OracleAssumption == Interval \in Nat \ {0} /\ Threshold \in Nat

Procs == {"ticker", "flush"}

VARIABLES age,        \* time.Since(lastCall)
          lastSnaps,  \* of each gate in lastSnaps, its total of requests
          due,        \* goroutines with a tick waiting in the channel of their ticker
          phase,      \* ticks since the last one of the Oracle's ticker
          pc,
          prev,       \* analyze's copy of lastSnaps, while it is needed
          interval,   \* ... and its interval
          snaps,      \* the snapshot of analyze or Check, while it is needed
          atCall,     \* history: requests of each gate when lastCall was last set
          since,      \* history: analyze's copy of atCall, while it is needed
          met         \* history: goroutines in whose analysis another one stored its result

oracleVars == <<series, age, lastSnaps, due, phase, pc, prev, interval, snaps, atCall, since, met>>
clock == <<age, due, phase>>
memory == <<lastSnaps, atCall>>
copied == <<prev, interval, since>>
locals == <<pc, copied, snaps, met>>

(* time.Since of the zero time. *)
Never == Interval + 1

Nothing == [g \in {} |-> 0]

NoLocals == [p \in Procs |-> Nothing]
NoCopies == /\ prev = NoLocals
            /\ interval = [p \in Procs |-> 0]
            /\ since = [p \in Procs |-> NoRequests]

(* New, Start, and main's start of the flush goroutine. *)
OracleInit ==
  /\ InitGates
  /\ age = Never /\ due = {} /\ phase = 0
  /\ lastSnaps = Nothing /\ atCall = NoRequests
  /\ pc = [p \in Procs |-> "idle"] /\ NoCopies /\ snaps = NoLocals /\ met = {}

Goto(p, s) == pc' = [pc EXCEPT ![p] = s]

-----------------------------------------------------------------------------
(* Requests end. *)
Traffic ==
  /\ \E g \in HttpGates : \E l \in Loads : Serve(g, l[1], l[2])
  /\ UNCHANGED <<clock, memory, locals>>

(* Nothing but an API call takes as long as a tick. *)
Settled == \A p \in Procs : pc[p] = "call" \/ (pc[p] = "idle" /\ p \notin due)

(* Thirty seconds pass.  A ticker drops a tick if the last one still waits.  *)
Tick ==
  /\ Settled
  /\ age' = IF age < Interval THEN age + 1 ELSE age
  /\ phase' = (phase + 1) % Interval
  /\ due' = due \cup {"flush"} \cup (IF phase' = 0 THEN {"ticker"} ELSE {})
  /\ UNCHANGED <<series, memory, locals>>

-----------------------------------------------------------------------------
(* What buildSnapshot makes of the current totals and the previous ones.     *)
TotalIn(s, g) == IF g \in DOMAIN s THEN s[g] ELSE 0
Delta(g, before) ==
  IF requests[g] >= TotalIn(before, g) THEN requests[g] - TotalIn(before, g) ELSE 0

(* No error is ever counted, so the error rate is zero and only the latency  *)
(* can breach its threshold.                                                 *)
Breaches(g) == Threshold > 0 /\ Above(P95(g), Threshold)

(* `ended` is history: the requests that ended since there were `counted`.   *)
Snapshot(before, seconds, counted) ==
  [g \in Gates |-> [total |-> requests[g],
                    rate |-> [requests |-> Delta(g, before), per |-> seconds],
                    ended |-> requests[g] - counted[g],
                    hot |-> Breaches(g)]]

(* Gather may fail, and then there is no gate in the snapshot.               *)
Snapshots(before, seconds, counted) == {Snapshot(before, seconds, counted), Nothing}

Hot(s) == \E g \in DOMAIN s : s[g].hot

(* Wrong variant: only a breach is a reason. *)
ShouldCallHot(s) == Hot(s)
(* shouldCall, with the mutex held. *)
ShouldCall(s) == age >= Interval \/ Hot(s)

-----------------------------------------------------------------------------
(* A goroutine's snapshot ends with the call that owns it. *)
Return(p) == snaps' = [snaps EXCEPT ![p] = Nothing] /\ UNCHANGED copied

(* The flush goroutine: write the rows, which nothing in the program reads,  *)
(* and build the snapshot for Check, of all requests over one flush period.  *)
Flush ==
  /\ pc["flush"] = "idle" /\ "flush" \in due
  /\ due' = due \ {"flush"}
  /\ \E s \in Snapshots(Nothing, 1, NoRequests) : snaps' = [snaps EXCEPT !["flush"] = s]
  /\ Goto("flush", "check")
  /\ UNCHANGED <<series, age, phase, memory, copied, met>>

(* Check *)
Check ==
  /\ pc["flush"] = "check"
  /\ Goto("flush", IF ShouldCall(snaps["flush"]) THEN "analyze" ELSE "idle")
  /\ Return("flush")
  /\ UNCHANGED <<series, clock, memory, met>>

(* The Oracle's own ticker. *)
Wake ==
  /\ pc["ticker"] = "idle" /\ "ticker" \in due
  /\ due' = due \ {"ticker"}
  /\ Goto("ticker", "analyze")
  /\ UNCHANGED <<series, age, phase, memory, copied, snaps, met>>

-----------------------------------------------------------------------------
(* analyze: copy lastSnaps and the time since lastCall, which is never at or *)
(* below zero: the guard against that does nothing ...                       *)
Begin(p) ==
  /\ pc[p] = "analyze"
  /\ prev' = [prev EXCEPT ![p] = lastSnaps]
  /\ interval' = [interval EXCEPT ![p] = age]
  /\ since' = [since EXCEPT ![p] = atCall]
  /\ Goto(p, "build")
  /\ UNCHANGED <<series, clock, memory, snaps, met>>

(* ... build the snapshot ... *)
Build(p) ==
  /\ pc[p] = "build"
  /\ \E s \in Snapshots(prev[p], interval[p], since[p]) : snaps' = [snaps EXCEPT ![p] = s]
  /\ prev' = [prev EXCEPT ![p] = Nothing]
  /\ interval' = [interval EXCEPT ![p] = 0]
  /\ since' = [since EXCEPT ![p] = NoRequests]
  /\ Goto(p, "decide")
  /\ UNCHANGED <<series, clock, memory, met>>

(* Wrong variant: analyze relies on whoever called it. *)
DecideAlways(p) ==
  /\ pc[p] = "decide"
  /\ Goto(p, "call")
  /\ UNCHANGED <<series, clock, memory, copied, snaps, met>>

(* ... and decide whether it is worth a call. *)
Decide(p) ==
  /\ pc[p] = "decide"
  /\ \/ ShouldCall(snaps[p]) /\ Goto(p, "call") /\ UNCHANGED <<copied, snaps, met>>
     \/ ~ShouldCall(snaps[p]) /\ Goto(p, "idle") /\ Return(p) /\ met' = met \ {p}
  /\ UNCHANGED <<series, clock, memory>>

(* Wrong variant: the snapshot of a failed call is remembered.               *)
FailStoresSnaps(p) ==
  /\ pc[p] = "call"
  /\ lastSnaps' = [g \in DOMAIN snaps[p] |-> snaps[p][g].total]
  /\ Goto(p, "failed") /\ Return(p) /\ met' = met \ {p}
  /\ UNCHANGED <<series, clock, atCall>>

(* callClaude fails: timeout, error, empty or malformed reply.  Nothing is   *)
(* stored, so that the next flush tries again.                               *)
Fail(p) ==
  /\ pc[p] = "call"
  /\ Goto(p, "failed") /\ Return(p) /\ met' = met \ {p}
  /\ UNCHANGED <<series, clock, memory>>

FailLogged(p) ==
  /\ pc[p] = "failed"
  /\ Goto(p, "idle")
  /\ UNCHANGED <<series, clock, memory, copied, snaps, met>>

(* Wrong variant: the requests of the interval are added to the total again. *)
TotalsAdded(s) == [g \in DOMAIN s |-> s[g].total + s[g].rate.requests]
Totals(s) == [g \in DOMAIN s |-> s[g].total]

(* callClaude answers: lastCall = now, lastSnaps = snaps.  A verdict other   *)
(* than "ok" is then written to the database, or only logged if that fails;  *)
(* the Oracle never reads it.                                                *)
Answer(p) ==
  /\ pc[p] = "call"
  /\ age' = 0 /\ lastSnaps' = Totals(snaps[p]) /\ atCall' = requests
  /\ Goto(p, "idle") /\ Return(p)
  /\ met' = (met \cup {q \in Procs : pc[q] \in {"build", "decide", "call"}}) \ {p}
  /\ UNCHANGED <<series, due, phase>>

-----------------------------------------------------------------------------
Analyze(p) == Begin(p) \/ Build(p) \/ Decide(p) \/ Fail(p) \/ FailLogged(p) \/ Answer(p)

OracleNext == \/ Traffic \/ Tick \/ Flush \/ Check \/ Wake
              \/ \E p \in Procs : Analyze(p)

OracleSpec == OracleInit /\ [][OracleNext]_oracleVars

(* The goroutines run: an API call ends, by its deadline if by nothing else. *)
OracleFairSpec == /\ OracleSpec
                  /\ WF_oracleVars(Flush \/ Check \/ Analyze("flush"))
                  /\ WF_oracleVars(Wake \/ Analyze("ticker"))

-----------------------------------------------------------------------------
SnapshotsOK(s) ==
  s \in [Gates -> [total : Nat, rate : [requests : Nat, per : 0..Never],
                   ended : Nat, hot : BOOLEAN]] \cup {Nothing}
TotalsOK(s) == s \in [Gates -> Nat] \cup {Nothing} /\ \A g \in DOMAIN s : s[g] <= requests[g]

(* Types; no total that is remembered exceeds its counter, so that the guard *)
(* against a counter reset in buildSnapshot is never needed.                 *)
OracleTypeOK ==
  /\ SeriesOK
  /\ age \in 0..Never /\ due \subseteq Procs /\ phase \in 0..Interval - 1
  /\ TotalsOK(lastSnaps) /\ TotalsOK(atCall)
  /\ pc \in [Procs -> {"idle", "check", "analyze", "build", "decide", "call", "failed"}]
  /\ pc["ticker"] # "check"
  /\ interval \in [Procs -> 0..Never]
  /\ \A p \in Procs : TotalsOK(prev[p]) /\ TotalsOK(since[p]) /\ SnapshotsOK(snaps[p])
  /\ met \subseteq Procs

(* No request escapes the API: a rate it is told counts every request that   *)
(* ended in the interval the rate is over, whatever calls and scrapes failed *)
(* and whatever analyses overlapped.  lastSnaps is taken before a call and   *)
(* lastCall set after it, so the rate may count requests from before the     *)
(* interval, those of the call itself or of a whole overlapping analysis.    *)
NoRequestHidden ==
  \A p \in Procs : pc[p] = "call" =>
    \A g \in DOMAIN snaps[p] : snaps[p][g].ended <= snaps[p][g].rate.requests

(* What aggregator.go says of ReqPerSec, "requests per second over the last  *)
(* interval": the requests of that interval, over its length, and not over   *)
(* the age of the zero time.                                                 *)
RateOverLastInterval ==
  \A p \in Procs : pc[p] = "call" =>
    \A g \in DOMAIN snaps[p] : snaps[p][g].rate.requests > 0 =>
      /\ snaps[p][g].rate.per # Never
      /\ snaps[p][g].rate.requests = snaps[p][g].ended

(* An answer comes sooner than the interval after the one before it only if  *)
(* a latency was above its threshold or the two analyses overlapped: the     *)
(* decision is taken again by analyze, on its own snapshot.                  *)
CallsAreSpaced ==
  [][\A p \in Procs :
       pc[p] = "call" /\ pc'[p] = "idle" => age >= Interval \/ Hot(snaps[p]) \/ p \in met]_oracleVars

(* The Oracle never falls silent: as long as the ticker of the flush goes on, *)
(* either analyses keep succeeding or calls keep failing.                    *)
KeepsAsking ==
  []<>("flush" \in due) =>
    []<>(\E p \in Procs : pc[p] = "failed") \/ []<>(age = 0)
=============================================================================
