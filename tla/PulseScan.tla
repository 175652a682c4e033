------------------------------ MODULE PulseScan ------------------------------
(***************************************************************************)
(* The health checker of one jump gate (internal/health/pulsescan.go) and  *)
(* the address list it pushes to the gate's balancer.                      *)
(*                                                                         *)
(* Two goroutines work on one PulseScan without a lock:                    *)
(*   - the ticker goroutine of Start, which calls check every interval;    *)
(*   - the config watcher's goroutine, which calls SetAll after a reload.  *)
(* Each access to the sync.Map `healthy`, to the slice header `ps.all` and *)
(* to the balancer (its SetBackends holds a mutex) is one step, so that    *)
(* every interleaving of the two is a behaviour.  ps.all is a plain slice: *)
(* check may read its pointer and its length on different sides of an      *)
(* assignment, and then read elements past the end of the array.           *)
(***************************************************************************)
EXTENDS Naturals, Sequences, Functions

CONSTANTS Addrs,       \* backend addresses ("star systems")
          Junk,        \* a string found in memory that is no address
          Lists,       \* the address lists a configuration file may hold
          MaxReloads   \* bound: successful reloads considered

ASSUME ListsAssumption == Lists \subseteq Seq(Addrs)
ASSUME JunkAssumption == Junk \notin Addrs
ASSUME MaxReloadsAssumption == MaxReloads \in Nat

VARIABLES up,        \* environment: the backends that would answer a ping
          all,       \* ps.all
          healthy,   \* ps.healthy, "absent" for no entry
          backends,  \* the list the balancer holds
          ckPc, ckArr, ckLen, ckI, ckAddr, ckWas, ckLive, ckChanged, \* check
          saPc, saList, saI, saLive,                                 \* SetAll
          reloads,
          alone,      \* history: the call(s) now running met no other call
          clean,      \* history: the last push was made by a call that was alone
          overlapped  \* history: some check and some SetAll once overlapped

ckVars == <<ckPc, ckArr, ckLen, ckI, ckAddr, ckWas, ckLive, ckChanged>>
saVars == <<saPc, saList, saI, saLive>>
history == <<reloads, alone, clean, overlapped>>
vars == <<up, all, healthy, backends, ckVars, saVars, history>>

Strings == Addrs \cup {Junk}
Verdict(ok) == IF ok THEN "alive" ELSE "dead"

(* Healthy: no entry counts as unhealthy. *)
Healthy(a) == healthy[a] = "alive"

Rotation == Range(backends)
LiveAddrs == {a \in Range(all) : Healthy(a)}
Quiet == ckPc = "idle" /\ saPc = "idle"

(* New, with the balancer main builds from the same slice just before. *)
Init ==
  /\ up \in SUBSET Addrs
  /\ all \in Lists
  /\ healthy = [a \in Strings |-> IF a \in Range(all) THEN "alive" ELSE "absent"]
  /\ backends = all
  /\ ckPc = "idle" /\ ckArr = <<>> /\ ckLen = 0 /\ ckI = 1 /\ ckAddr = Junk
  /\ ckWas = FALSE /\ ckLive = <<>> /\ ckChanged = FALSE
  /\ saPc = "idle" /\ saList = <<>> /\ saI = 1 /\ saLive = <<>>
  /\ reloads = 0 /\ alone = TRUE /\ clean = TRUE /\ overlapped = FALSE

-----------------------------------------------------------------------------
(* A backend starts or stops answering. *)
Flip ==
  /\ \E a \in Addrs : up' = IF a \in up THEN up \ {a} ELSE up \cup {a}
  /\ UNCHANGED <<all, healthy, backends, ckVars, saVars, history>>

(* Bookkeeping when a call starts: `other` is the other call's pc. *)
Starts(other) ==
  /\ alone' = (other = "idle")
  /\ clean' = (clean /\ other = "idle")
  /\ overlapped' = (overlapped \/ other # "idle")

-----------------------------------------------------------------------------
(* check, on the ticker goroutine. *)

(* Wrong variant: the live list of the previous check is not reset. *)
CheckBeginKeepsLive ==
  /\ ckPc = "idle"
  /\ ckPc' = "header"
  /\ ckArr' = all /\ ckLen' = Len(all)
  /\ ckI' = 1 /\ ckChanged' = FALSE
  /\ Starts(saPc)
  /\ UNCHANGED <<up, all, healthy, backends, ckAddr, ckWas, ckLive, saVars, reloads>>

(* The first word of the slice header `range ps.all` copies. *)
CheckBegin ==
  /\ ckPc = "idle"
  /\ ckPc' = "header"
  /\ ckArr' = all /\ ckLen' = Len(all)
  /\ ckI' = 1 /\ ckLive' = <<>> /\ ckChanged' = FALSE
  /\ Starts(saPc)
  /\ UNCHANGED <<up, all, healthy, backends, ckAddr, ckWas, saVars, reloads>>

(* The other word, read later: the length or the array may be newer. *)
CheckHeader ==
  /\ ckPc = "header"
  /\ \/ ckArr' = all /\ UNCHANGED ckLen
     \/ ckLen' = Len(all) /\ UNCHANGED ckArr
  /\ ckPc' = "load"
  /\ UNCHANGED <<up, all, healthy, backends, ckI, ckAddr, ckWas, ckLive,
                 ckChanged, saVars, history>>

(* The strings the loop may find at its position: past the end of the array  *)
(* lies some other memory.                                                  *)
ElementsAt(arr, i) == IF i <= Len(arr) THEN {arr[i]} ELSE Strings

(* wasHealthy := ps.Healthy(addr) *)
CheckLoad ==
  /\ ckPc = "load" /\ ckI <= ckLen
  /\ ckAddr' \in ElementsAt(ckArr, ckI)
  /\ ckWas' = (healthy[ckAddr'] = "alive")
  /\ ckPc' = "ping"
  /\ UNCHANGED <<up, all, healthy, backends, ckArr, ckLen, ckI, ckLive,
                 ckChanged, saVars, history>>

(* ping, the same for the three protocols: an answer within two seconds. *)
Ping(a) == a \in up

AppendIf(s, a, ok) == IF ok THEN Append(s, a) ELSE s

(* Wrong variant: only recoveries count as a change. *)
DiffersOnRecovery(was, is) == ~was /\ is
(* Wrong variant: only failures count as a change. *)
DiffersOnFailure(was, is) == was /\ ~is
Differs(was, is) == was # is

(* ping, Store, append to live, note the change. *)
CheckPing ==
  /\ ckPc = "ping"
  /\ LET is == Ping(ckAddr)
     IN /\ healthy' = [healthy EXCEPT ![ckAddr] = Verdict(is)]
        /\ ckLive' = AppendIf(ckLive, ckAddr, is)
        /\ ckChanged' = (ckChanged \/ Differs(ckWas, is))
  /\ ckI' = ckI + 1
  /\ ckPc' = "load"
  /\ UNCHANGED <<up, all, backends, ckArr, ckLen, ckAddr, ckWas, saVars, history>>

(* Push the live list, but only if some verdict changed. *)
CheckEnd ==
  /\ ckPc = "load" /\ ckI > ckLen
  /\ IF ckChanged THEN backends' = ckLive /\ clean' = alone
                  ELSE UNCHANGED <<backends, clean>>
  /\ ckPc' = "idle"
  /\ UNCHANGED <<up, all, healthy, ckArr, ckLen, ckI, ckAddr, ckWas, ckLive,
                 ckChanged, saVars, reloads, alone, overlapped>>

Check == CheckBegin \/ CheckHeader \/ CheckLoad \/ CheckPing \/ CheckEnd

-----------------------------------------------------------------------------
(* SetAll, on the config watcher's goroutine (one call at a time). *)

SetAllBegin ==
  /\ saPc = "idle" /\ reloads < MaxReloads
  /\ saList' \in Lists
  /\ saPc' = "delete" /\ saI' = 1 /\ saLive' = <<>>
  /\ reloads' = reloads + 1
  /\ Starts(ckPc)
  /\ UNCHANGED <<up, all, healthy, backends, ckVars>>

(* Wrong variant: removed addresses keep their entry. *)
ForgetNothing(h, a, keep) == h
Forget(h, a, keep) == IF a \in keep THEN h ELSE [h EXCEPT ![a] = "absent"]

(* One round of the loop that deletes the addresses not kept. *)
SetAllDelete ==
  /\ saPc = "delete" /\ saI <= Len(all)
  /\ healthy' = Forget(healthy, all[saI], Range(saList))
  /\ saI' = saI + 1
  /\ UNCHANGED <<up, all, backends, ckVars, saPc, saList, saLive, history>>

SetAllDeleted ==
  /\ saPc = "delete" /\ saI > Len(all)
  /\ saPc' = "mark" /\ saI' = 1
  /\ UNCHANGED <<up, all, healthy, backends, ckVars, saList, saLive, history>>

(* Wrong variant: every listed address is marked alive. *)
NeedsMarkAlways(h, a) == TRUE
NeedsMark(h, a) == h[a] = "absent"

(* One round of the loop that marks new addresses: Load ... *)
SetAllMark ==
  /\ saPc = "mark" /\ saI <= Len(saList)
  /\ IF NeedsMark(healthy, saList[saI])
       THEN saPc' = "store" /\ UNCHANGED saI
       ELSE saI' = saI + 1 /\ UNCHANGED saPc
  /\ UNCHANGED <<up, all, healthy, backends, ckVars, saList, saLive, history>>

(* ... and Store. *)
SetAllStore ==
  /\ saPc = "store"
  /\ healthy' = [healthy EXCEPT ![saList[saI]] = "alive"]
  /\ saPc' = "mark" /\ saI' = saI + 1
  /\ UNCHANGED <<up, all, backends, ckVars, saList, saLive, history>>

(* ps.all = addresses *)
SetAllAssign ==
  /\ saPc = "mark" /\ saI > Len(saList)
  /\ all' = saList
  /\ saPc' = "rebuild" /\ saI' = 1
  /\ UNCHANGED <<up, healthy, backends, ckVars, saList, saLive, history>>

(* One round of the loop that rebuilds live. *)
SetAllRebuild ==
  /\ saPc = "rebuild" /\ saI <= Len(saList)
  /\ saLive' = AppendIf(saLive, saList[saI], Healthy(saList[saI]))
  /\ saI' = saI + 1
  /\ UNCHANGED <<up, all, healthy, backends, ckVars, saPc, saList, history>>

SetAllPush ==
  /\ saPc = "rebuild" /\ saI > Len(saList)
  /\ backends' = saLive
  /\ clean' = alone
  /\ saPc' = "idle"
  /\ UNCHANGED <<up, all, healthy, ckVars, saList, saI, saLive, reloads, alone,
                 overlapped>>

SetAllStep == \/ SetAllDelete \/ SetAllDeleted \/ SetAllMark \/ SetAllStore
              \/ SetAllAssign \/ SetAllRebuild \/ SetAllPush

-----------------------------------------------------------------------------
Next == Flip \/ Check \/ SetAllBegin \/ SetAllStep

Spec == Init /\ [][Next]_vars

(* The ticker keeps ticking and every ping ends (two-second timeouts), and a *)
(* SetAll that started has nothing to wait for.                              *)
FairSpec == Spec /\ WF_vars(Check) /\ WF_vars(SetAllStep)

-----------------------------------------------------------------------------
TypeOK ==
  /\ up \in SUBSET Addrs
  /\ all \in Seq(Addrs)
  /\ healthy \in [Strings -> {"alive", "dead", "absent"}]
  /\ backends \in Seq(Strings)
  /\ ckPc \in {"idle", "header", "load", "ping"}
  /\ ckArr \in Seq(Addrs) /\ ckLen \in Nat /\ ckI \in Nat \ {0}
  /\ ckAddr \in Strings /\ ckWas \in BOOLEAN /\ ckChanged \in BOOLEAN
  /\ ckLive \in Seq(Strings) /\ Len(ckLive) < ckI
  /\ saPc \in {"idle", "delete", "mark", "store", "rebuild"}
  /\ saList \in Seq(Addrs) /\ saI \in Nat \ {0}
  /\ saLive \in Seq(Addrs)
  /\ saPc = "store" => saI <= Len(saList)
  /\ reloads \in 0..MaxReloads
  /\ alone \in BOOLEAN /\ clean \in BOOLEAN /\ overlapped \in BOOLEAN

(* A configuration names each backend of a gate once. *)
DistinctLists == \A s \in Lists : \A i, j \in 1..Len(s) : s[i] = s[j] => i = j

(* With both goroutines at rest, and the last push made by a call nobody     *)
(* disturbed, the balancer serves exactly the listed backends whose last     *)
(* verdict was alive.  check pushes only when it saw a verdict change and    *)
(* SetAll only what it rebuilt, so this is what makes "no push" safe.        *)
RotationMatchesHealth == Quiet /\ clean => Rotation = LiveAddrs

(* As long as no check ever overlapped a SetAll, the health map holds an     *)
(* entry for exactly the listed addresses.                                   *)
MapTracksList ==
  Quiet /\ ~overlapped => \A a \in Strings : healthy[a] # "absent" <=> a \in Range(all)

(* A reload nobody disturbed keeps the verdict of every backend it keeps,    *)
(* dead ones included, and takes every new one for healthy.                  *)
ReloadKeepsVerdicts ==
  [][all' # all /\ ~overlapped =>
       \A a \in Range(all') : healthy'[a] = "alive" <=> a \notin Range(all) \/ a \in Rotation]_vars

(* A backend that stays down leaves the rotation for good, once the pushes   *)
(* come from undisturbed calls.                                              *)
DeadLeaves ==
  \A a \in Addrs : <>[](clean /\ a \notin up) => <>[](a \notin Rotation)

(* A listed backend that stays up comes back into the rotation for good,     *)
(* under the same condition.                                                 *)
LiveReturns ==
  \A a \in Addrs : <>[](clean /\ a \in up /\ a \in Range(all)) => <>[](a \in Rotation)

(* SetAll's contract, weakened to "some day": an address that is no longer   *)
(* listed leaves the rotation for good.  A check that overlaps SetAll can    *)
(* push its older list last, and no later check repairs it.                  *)
RemovedLeavesRotation ==
  \A a \in Addrs : <>[](a \notin Range(all)) => <>[](a \notin Rotation)
=============================================================================
