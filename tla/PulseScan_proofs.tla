-------------------------- MODULE PulseScan_proofs --------------------------
(***************************************************************************)
(* Theorems about PulseScan, for every set of addresses, every set of      *)
(* lists and every number of reloads.                                      *)
(***************************************************************************)
EXTENDS PulseScan, TLAPS

(* The members of list s before position i that are alive now. *)
LiveBefore(s, i) == {x \in Range(s) : Healthy(x) /\ \E j \in 1..(i - 1) : s[j] = x}

(* What a call of check that runs alone knows at each of its steps. *)
CheckInv ==
  ckPc # "idle" /\ alone =>
    /\ saPc = "idle"
    /\ ckArr = all /\ ckLen = Len(all) /\ ckI <= ckLen + 1
    /\ ckPc = "header" => ckI = 1
    /\ ckPc = "ping" => ckI <= ckLen /\ ckAddr = all[ckI] /\ ckWas = Healthy(ckAddr)
    /\ Range(ckLive) = LiveBefore(all, ckI)
    /\ clean /\ ~ckChanged => Rotation = LiveAddrs

(* What a call of SetAll that runs alone knows once it rebuilds the list. *)
SetAllInv ==
  /\ saPc # "idle" => saList \in Lists
  /\ saPc # "idle" /\ alone => ckPc = "idle"
  /\ saPc \in {"delete", "mark", "store"} => saLive = <<>>
  /\ saPc = "rebuild" =>
       /\ all = saList /\ saI <= Len(saList) + 1
       /\ alone => Range(saLive) = LiveBefore(all, saI)

(* The inductive invariant behind RotationMatchesHealth. *)
IInv ==
  /\ TypeOK
  /\ all \in Lists
  /\ clean => alone
  /\ CheckInv
  /\ SetAllInv
  /\ RotationMatchesHealth

USE ListsAssumption, JunkAssumption, MaxReloadsAssumption

(* Appending one address adds it, and only it, to the range of a list. *)
LEMMA RangeAppend ==
  ASSUME NEW S, NEW s \in Seq(S), NEW e \in S
  PROVE  Range(Append(s, e)) = Range(s) \cup {e}
<1> DEFINE t == Append(s, e)
<1>1. t \in Seq(S) /\ Len(t) = Len(s) + 1 /\ Len(s) \in Nat
  OBVIOUS
<1>2. \A i \in 1..Len(s) : t[i] = s[i]
  OBVIOUS
<1>3. t[Len(s) + 1] = e
  OBVIOUS
<1>4. DOMAIN t = 1..(Len(s) + 1) /\ DOMAIN s = 1..Len(s)
  BY <1>1
<1> HIDE DEF t
<1>5. ASSUME NEW x \in Range(t) PROVE x \in Range(s) \cup {e}
  <2>1. PICK i \in 1..(Len(s) + 1) : t[i] = x
    BY <1>4 DEF Range
  <2>2. i \in 1..Len(s) \/ i = Len(s) + 1
    BY <1>1
  <2> QED BY <2>1, <2>2, <1>2, <1>3, <1>4 DEF Range
<1>6. ASSUME NEW x \in Range(s) \cup {e} PROVE x \in Range(t)
  <2>1. CASE x = e
    BY <2>1, <1>1, <1>3, <1>4 DEF Range
  <2>2. CASE x \in Range(s)
    <3>1. PICK i \in 1..Len(s) : s[i] = x
      BY <2>2, <1>4 DEF Range
    <3>2. i \in 1..(Len(s) + 1)
      BY <1>1
    <3> QED BY <3>1, <3>2, <1>2, <1>4 DEF Range
  <2> QED BY <1>6, <2>1, <2>2
<1> QED BY <1>5, <1>6 DEF t

(* Each branch of AppendIf is a list over the same strings, longer by at     *)
(* most one.                                                                 *)
LEMMA AppendIfType ==
  ASSUME NEW S, NEW s \in Seq(S), NEW e \in S, NEW ok \in BOOLEAN
  PROVE  /\ AppendIf(s, e, ok) \in Seq(S)
         /\ Len(AppendIf(s, e, ok)) <= Len(s) + 1
         /\ Range(AppendIf(s, e, ok)) = Range(s) \cup (IF ok THEN {e} ELSE {})
<1>1. CASE ok
  BY <1>1, RangeAppend DEF AppendIf
<1>2. CASE ~ok
  BY <1>2 DEF AppendIf
<1> QED BY <1>1, <1>2

(* Before the first position nobody is live; before the end, LiveAddrs are. *)
LEMMA LiveBeforeEnds ==
  ASSUME NEW s \in Seq(Addrs)
  PROVE  /\ LiveBefore(s, 1) = {}
         /\ LiveBefore(s, Len(s) + 1) = {x \in Range(s) : Healthy(x)}
<1>1. LiveBefore(s, 1) = {}
  BY DEF LiveBefore
<1>2. \A x \in Range(s) : \E j \in 1..(Len(s) + 1 - 1) : s[j] = x
  BY DEF Range
<1> QED BY <1>1, <1>2 DEF LiveBefore

(* One round of a loop over a list without duplicates: the element at        *)
(* position i joins, if alive, and nothing before it is touched.             *)
LEMMA LiveBeforeNext ==
  ASSUME NEW s \in Seq(Addrs), NEW i \in 1..Len(s)
  PROVE  LiveBefore(s, i + 1) =
           LiveBefore(s, i) \cup (IF Healthy(s[i]) THEN {s[i]} ELSE {})
<1>1. s[i] \in Range(s)
  BY DEF Range
<1>2. \A j \in Nat : j \in 1..(i + 1 - 1) <=> j \in 1..(i - 1) \/ j = i
  OBVIOUS
<1>3. \A x : (\E j \in 1..(i + 1 - 1) : s[j] = x) <=> (\E j \in 1..(i - 1) : s[j] = x) \/ s[i] = x
  BY <1>2
<1>4. \A x : x \in LiveBefore(s, i + 1) <=>
                x \in LiveBefore(s, i) \/ (x = s[i] /\ Healthy(s[i]))
  BY <1>1, <1>3 DEF LiveBefore
<1> QED BY <1>4

(* The type invariant is inductive on its own: it does not matter what check *)
(* finds past the end of a torn slice.                                       *)
LEMMA TypeInductive == (Init => TypeOK) /\ (TypeOK /\ [Next]_vars => TypeOK')
<1>1. Init => TypeOK
  <2> SUFFICES ASSUME Init PROVE TypeOK
    OBVIOUS
  <2>1. all \in Seq(Addrs) /\ backends \in Seq(Strings)
    BY DEF Init, Strings
  <2>2. healthy \in [Strings -> {"alive", "dead", "absent"}]
    BY DEF Init
  <2>3. /\ ckArr \in Seq(Addrs) /\ ckLive \in Seq(Strings) /\ Len(ckLive) = 0
        /\ saList \in Seq(Addrs) /\ saLive \in Seq(Addrs)
    BY DEF Init
  <2>4. ckAddr \in Strings
    BY DEF Init, Strings
  <2>5. up \in SUBSET Addrs /\ 0 \in 0..MaxReloads
    BY DEF Init
  <2>6. /\ ckWas \in BOOLEAN /\ ckChanged \in BOOLEAN /\ alone \in BOOLEAN
        /\ clean \in BOOLEAN /\ overlapped \in BOOLEAN
    BY DEF Init
  <2> QED BY <2>1, <2>2, <2>3, <2>4, <2>5, <2>6 DEF Init, TypeOK
<1>2. TypeOK /\ [Next]_vars => TypeOK'
  <2> SUFFICES ASSUME TypeOK, [Next]_vars PROVE TypeOK'
    OBVIOUS
  <2> USE DEF TypeOK
  <2>1. CASE Flip
    BY <2>1 DEF Flip, ckVars, saVars, history
  <2>2. CASE CheckBegin
    <3>1. alone' \in BOOLEAN /\ clean' \in BOOLEAN /\ overlapped' \in BOOLEAN
      BY <2>2 DEF CheckBegin, Starts
    <3>2. ckLive' \in Seq(Strings) /\ Len(ckLive') = 0 /\ ckLen' \in Nat /\ ckI' = 1
      BY <2>2 DEF CheckBegin
    <3>3. ckChanged' \in BOOLEAN /\ ckPc' = "header" /\ ckArr' \in Seq(Addrs)
      BY <2>2 DEF CheckBegin
    <3> QED BY <2>2, <3>1, <3>2, <3>3 DEF CheckBegin, saVars
  <2>3. CASE CheckHeader
    BY <2>3 DEF CheckHeader, saVars, history
  <2>4. CASE CheckLoad
    <3>1. ckAddr' \in Strings
      BY <2>4 DEF CheckLoad, ElementsAt, Strings
    <3> QED BY <2>4, <3>1 DEF CheckLoad, saVars, history
  <2>5. CASE CheckPing
    <3>1. /\ AppendIf(ckLive, ckAddr, Ping(ckAddr)) \in Seq(Strings)
          /\ Len(AppendIf(ckLive, ckAddr, Ping(ckAddr))) <= Len(ckLive) + 1
      <4>1. ckAddr \in Strings /\ Ping(ckAddr) \in BOOLEAN /\ ckLive \in Seq(Strings)
        BY DEF Ping
      <4> QED BY <4>1, AppendIfType
    <3>2. healthy' \in [Strings -> {"alive", "dead", "absent"}]
      BY <2>5 DEF CheckPing, Verdict
    <3>3. ckChanged' \in BOOLEAN
      BY <2>5 DEF CheckPing, Differs
    <3>4. ckLive' \in Seq(Strings) /\ Len(ckLive') < ckI'
      BY <2>5, <3>1 DEF CheckPing
    <3> QED BY <2>5, <3>2, <3>3, <3>4 DEF CheckPing, saVars, history
  <2>6. CASE CheckEnd
    BY <2>6 DEF CheckEnd, saVars
  <2>7. CASE SetAllBegin
    <3>1. alone' \in BOOLEAN /\ clean' \in BOOLEAN /\ overlapped' \in BOOLEAN
      BY <2>7 DEF SetAllBegin, Starts
    <3> QED BY <2>7, <3>1 DEF SetAllBegin, ckVars
  <2>8. CASE SetAllDelete
    <3>1. all[saI] \in Addrs
      BY <2>8 DEF SetAllDelete
    <3>2. healthy' \in [Strings -> {"alive", "dead", "absent"}]
      BY <2>8, <3>1 DEF SetAllDelete, Forget, Strings
    <3> QED BY <2>8, <3>2 DEF SetAllDelete, ckVars, history
  <2>9. CASE SetAllDeleted
    BY <2>9 DEF SetAllDeleted, ckVars, history
  <2>10. CASE SetAllMark
    BY <2>10 DEF SetAllMark, ckVars, history
  <2>11. CASE SetAllStore
    <3>1. healthy' \in [Strings -> {"alive", "dead", "absent"}]
      BY <2>11 DEF SetAllStore
    <3> QED BY <2>11, <3>1 DEF SetAllStore, ckVars, history
  <2>12. CASE SetAllAssign
    BY <2>12 DEF SetAllAssign, ckVars, history
  <2>13. CASE SetAllRebuild
    <3>1. saList[saI] \in Addrs /\ Healthy(saList[saI]) \in BOOLEAN
      BY <2>13 DEF SetAllRebuild, Healthy
    <3>2. saLive' \in Seq(Addrs)
      BY <2>13, <3>1, AppendIfType DEF SetAllRebuild
    <3> QED BY <2>13, <3>2 DEF SetAllRebuild, ckVars, history
  <2>14. CASE SetAllPush
    <3>1. saLive \in Seq(Strings)
      BY DEF Strings
    <3> QED BY <2>14, <3>1 DEF SetAllPush, ckVars
  <2>15. CASE UNCHANGED vars
    BY <2>15 DEF vars, ckVars, saVars, history
  <2> QED
    BY <2>1, <2>2, <2>3, <2>4, <2>5, <2>6, <2>7, <2>8, <2>9, <2>10, <2>11,
       <2>12, <2>13, <2>14, <2>15 DEF Next, Check, SetAllStep
<1> QED BY <1>1, <1>2

(* check and SetAll index only what they own, and the live list a check      *)
(* builds stays shorter than its loop index, in every interleaving.          *)
THEOREM TypeCorrect == Spec => []TypeOK
BY TypeInductive, PTL DEF Spec

LEMMA IInvInit == Init => IInv
<1> SUFFICES ASSUME Init PROVE IInv
  OBVIOUS
<1>1. TypeOK
  BY TypeInductive
<1>2. ckPc = "idle" /\ saPc = "idle" /\ all \in Lists /\ alone /\ backends = all
  BY DEF Init
<1>3. \A x \in Range(all) : Healthy(x)
  BY ListsAssumption DEF Init, Healthy, Range, Strings
<1>4. RotationMatchesHealth
  BY <1>2, <1>3 DEF RotationMatchesHealth, Rotation, LiveAddrs
<1> QED BY <1>1, <1>2, <1>4 DEF IInv, CheckInv, SetAllInv

(* The step of check that matters: storing a verdict and appending to live.  *)
LEMMA CheckPingInv ==
  ASSUME DistinctLists, IInv, CheckPing
  PROVE  CheckInv'
<1> SUFFICES ASSUME alone PROVE CheckInv'
  BY DEF CheckInv, CheckPing, history
<1> DEFINE x == all[ckI]
           is == Ping(x)
<1>1. /\ saPc = "idle" /\ ckArr = all /\ ckLen = Len(all) /\ ckI \in 1..Len(all)
      /\ ckAddr = x /\ ckWas = Healthy(x)
      /\ Range(ckLive) = LiveBefore(all, ckI)
      /\ clean /\ ~ckChanged => Rotation = LiveAddrs
  BY DEF CheckPing, IInv, CheckInv, TypeOK
<1>2. all \in Seq(Addrs) /\ ckLive \in Seq(Strings) /\ x \in Strings /\ is \in BOOLEAN
  BY <1>1 DEF IInv, TypeOK, Ping, Strings
<1>3. \A y \in Strings : Healthy(y)' = IF y = x THEN is ELSE Healthy(y)
  BY <1>1, <1>2 DEF CheckPing, Healthy, Verdict, IInv, TypeOK
<1>4. all' = all /\ ckI' = ckI + 1 /\ ckLive' = AppendIf(ckLive, x, is)
  BY <1>1 DEF CheckPing
<1>5. \A y : (\E j \in 1..(ckI' - 1) : all[j] = y) <=> (\E j \in 1..(ckI - 1) : all[j] = y) \/ y = x
  <2>1. ckI \in 1..(ckI' - 1) /\ \A j \in 1..(ckI - 1) : j \in 1..(ckI' - 1)
    BY <1>1, <1>4
  <2>2. \A j \in 1..(ckI' - 1) : j \in 1..(ckI - 1) \/ j = ckI
    BY <1>1, <1>4
  <2> QED BY <2>1, <2>2
<1>6. ~ \E j \in 1..(ckI - 1) : all[j] = x
  <2>1. all \in Lists
    BY DEF IInv
  <2> QED BY <2>1, <1>1, <1>2 DEF DistinctLists
<1>7. Range(ckLive)' = LiveBefore(all, ckI)'
  <2>1. Range(ckLive') = Range(ckLive) \cup (IF is THEN {x} ELSE {})
    <3>1. Range(AppendIf(ckLive, x, is)) = Range(ckLive) \cup (IF is THEN {x} ELSE {})
      <4> HIDE DEF x, is
      <4> QED BY ONLY <1>2, AppendIfType
    <3> QED BY <3>1, <1>4
  <2>2. x \in Range(all) /\ Range(all) \subseteq Strings
    BY <1>1, <1>2 DEF Range, Strings
  <2>3. \A y : y \in LiveBefore(all, ckI)' <=>
                 y \in Range(all) /\ Healthy(y)' /\ \E j \in 1..(ckI' - 1) : all[j] = y
    BY <1>4 DEF LiveBefore
  <2>4. \A y : y \in LiveBefore(all, ckI)' <=>
                 y \in LiveBefore(all, ckI) \/ (y = x /\ is)
    BY <2>2, <2>3, <1>3, <1>5, <1>6 DEF LiveBefore
  <2> QED BY <2>1, <2>4, <1>1
<1>8. clean' /\ ~ckChanged' => Rotation' = LiveAddrs'
  <2> SUFFICES ASSUME clean', ~ckChanged' PROVE Rotation' = LiveAddrs'
    OBVIOUS
  <2>1. clean /\ ~ckChanged /\ Healthy(x) = is /\ backends' = backends
    BY <1>1, <1>2 DEF CheckPing, history, Differs, Healthy
  <2>2. \A y \in Range(all) : Healthy(y)' = Healthy(y)
    BY <2>1, <1>3, <1>2 DEF Range, Strings
  <2> QED BY <2>1, <2>2, <1>1, <1>4 DEF Rotation, LiveAddrs
<1>9. saPc' = "idle" /\ ckArr' = all' /\ ckLen' = Len(all') /\ ckPc' = "load"
  BY <1>1 DEF CheckPing, saVars
<1>10. ckI' <= ckLen' + 1
  BY <1>1, <1>2, <1>4, <1>9
<1> QED BY <1>7, <1>8, <1>9, <1>10 DEF CheckInv

(* check, step by step. *)
LEMMA CheckPreserves ==
  ASSUME DistinctLists, IInv, Check
  PROVE  CheckInv' /\ SetAllInv' /\ RotationMatchesHealth' /\ (clean' => alone')
<1> USE DEF IInv
<1>1. CASE CheckBegin
  <2>1. CheckInv'
    <3> SUFFICES ASSUME alone' PROVE CheckInv'
      BY DEF CheckInv
    <3>1. /\ saPc' = "idle" /\ ckArr' = all' /\ ckLen' = Len(all') /\ ckI' = 1
          /\ ckPc' = "header" /\ ckLive' = <<>> /\ all' = all /\ saPc = "idle" /\ ckPc = "idle"
      BY <1>1 DEF CheckBegin, Starts, saVars
    <3>2. Range(ckLive') = {} /\ LiveBefore(all, ckI)' = {}
      BY <3>1 DEF Range, LiveBefore
    <3>3. clean' => Rotation' = LiveAddrs'
      BY <1>1, <3>1 DEF CheckBegin, Starts, RotationMatchesHealth, Quiet, Rotation, LiveAddrs, Healthy
    <3>4. ckI' <= ckLen' + 1
      BY <3>1 DEF TypeOK
    <3> QED BY <3>1, <3>2, <3>3, <3>4 DEF CheckInv
  <2>2. SetAllInv'
    BY <1>1 DEF CheckBegin, Starts, saVars, SetAllInv
  <2>3. RotationMatchesHealth' /\ (clean' => alone')
    BY <1>1 DEF CheckBegin, Starts, RotationMatchesHealth, Quiet
  <2> QED BY <2>1, <2>2, <2>3
<1>2. CASE CheckHeader
  <2>1. CheckInv'
    BY <1>2 DEF CheckHeader, saVars, history, CheckInv, LiveBefore, Healthy, Rotation, LiveAddrs
  <2>2. SetAllInv'
    BY <1>2 DEF CheckHeader, saVars, history, SetAllInv
  <2>3. RotationMatchesHealth' /\ (clean' => alone')
    BY <1>2 DEF CheckHeader, history, RotationMatchesHealth, Quiet
  <2> QED BY <2>1, <2>2, <2>3
<1>3. CASE CheckLoad
  <2>1. CheckInv'
    <3> SUFFICES ASSUME alone PROVE CheckInv'
      BY <1>3 DEF CheckLoad, history, CheckInv
    <3>1. /\ saPc = "idle" /\ ckArr = all /\ ckLen = Len(all) /\ ckI <= ckLen
          /\ Range(ckLive) = LiveBefore(all, ckI)
          /\ clean /\ ~ckChanged => Rotation = LiveAddrs
      BY <1>3 DEF CheckLoad, CheckInv
    <3>2. ckAddr' = all[ckI]
      BY <1>3, <3>1 DEF CheckLoad, ElementsAt
    <3>3. /\ all' = all /\ healthy' = healthy /\ backends' = backends /\ ckLive' = ckLive
          /\ ckArr' = ckArr /\ ckLen' = ckLen /\ ckI' = ckI /\ ckChanged' = ckChanged
          /\ saPc' = saPc /\ clean' = clean /\ ckPc' = "ping"
      BY <1>3 DEF CheckLoad, saVars, history
    <3>4. ckWas' = Healthy(ckAddr)'
      BY <1>3, <3>3 DEF CheckLoad, Healthy
    <3>5. Range(ckLive)' = LiveBefore(all, ckI)'
      BY <3>1, <3>3 DEF LiveBefore, Healthy
    <3>6. clean' /\ ~ckChanged' => Rotation' = LiveAddrs'
      BY <3>1, <3>3 DEF Rotation, LiveAddrs, Healthy
    <3>7. ckI' <= ckLen' + 1
      BY <3>1, <3>3 DEF TypeOK
    <3> QED BY <3>1, <3>2, <3>3, <3>4, <3>5, <3>6, <3>7 DEF CheckInv
  <2>2. SetAllInv'
    BY <1>3 DEF CheckLoad, saVars, history, SetAllInv
  <2>3. RotationMatchesHealth' /\ (clean' => alone')
    BY <1>3 DEF CheckLoad, history, RotationMatchesHealth, Quiet
  <2> QED BY <2>1, <2>2, <2>3
<1>4. CASE CheckPing
  <2>1. CheckInv'
    BY <1>4, CheckPingInv
  <2>2. SetAllInv'
    BY <1>4 DEF CheckPing, saVars, history, SetAllInv
  <2>3. RotationMatchesHealth' /\ (clean' => alone')
    BY <1>4 DEF CheckPing, history, RotationMatchesHealth, Quiet
  <2> QED BY <2>1, <2>2, <2>3
<1>5. CASE CheckEnd
  <2>1. CheckInv' /\ (clean' => alone')
    BY <1>5 DEF CheckEnd, CheckInv
  <2>2. SetAllInv'
    BY <1>5 DEF CheckEnd, saVars, SetAllInv
  <2>3. RotationMatchesHealth'
    <3> SUFFICES ASSUME clean' PROVE Rotation' = LiveAddrs'
      BY DEF RotationMatchesHealth
    <3>1. alone /\ all' = all /\ healthy' = healthy
      BY <1>5 DEF CheckEnd
    <3>2. /\ Range(ckLive) = LiveBefore(all, ckI) /\ ckI = Len(all) + 1
          /\ clean /\ ~ckChanged => Rotation = LiveAddrs
      BY <1>5, <3>1 DEF CheckEnd, CheckInv, TypeOK
    <3>3. Range(ckLive) = LiveAddrs
      BY <3>2, LiveBeforeEnds DEF TypeOK, LiveAddrs
    <3>4. LiveAddrs' = LiveAddrs
      BY <3>1 DEF LiveAddrs, Healthy
    <3> QED BY <1>5, <3>2, <3>3, <3>4 DEF CheckEnd, Rotation
  <2> QED BY <2>1, <2>2, <2>3
<1> QED BY <1>1, <1>2, <1>3, <1>4, <1>5 DEF Check

(* SetAll, step by step. *)
LEMMA SetAllPreserves ==
  ASSUME IInv, SetAllBegin \/ SetAllStep
  PROVE  CheckInv' /\ SetAllInv' /\ RotationMatchesHealth' /\ (clean' => alone')
<1> USE DEF IInv
<1>1. CASE SetAllBegin
  BY <1>1 DEF SetAllBegin, Starts, ckVars, CheckInv, SetAllInv, RotationMatchesHealth, Quiet
<1>2. CASE SetAllDelete
  BY <1>2 DEF SetAllDelete, ckVars, history, CheckInv, SetAllInv, RotationMatchesHealth, Quiet
<1>3. CASE SetAllDeleted
  BY <1>3 DEF SetAllDeleted, ckVars, history, CheckInv, SetAllInv, RotationMatchesHealth, Quiet
<1>4. CASE SetAllMark
  BY <1>4 DEF SetAllMark, ckVars, history, CheckInv, SetAllInv, RotationMatchesHealth, Quiet
<1>5. CASE SetAllStore
  BY <1>5 DEF SetAllStore, ckVars, history, CheckInv, SetAllInv, RotationMatchesHealth, Quiet
<1>6. CASE SetAllAssign
  <2>1. alone' => Range(saLive)' = LiveBefore(all, saI)'
    BY <1>6 DEF SetAllAssign, SetAllInv, Range, LiveBefore
  <2>2. saI' <= Len(saList') + 1
    BY <1>6 DEF SetAllAssign, TypeOK
  <2> QED BY <1>6, <2>1, <2>2
          DEF SetAllAssign, ckVars, history, CheckInv, SetAllInv, RotationMatchesHealth, Quiet
<1>7. CASE SetAllRebuild
  <2> DEFINE x == saList[saI]
  <2>1. all = saList /\ saI \in 1..Len(all) /\ x \in Addrs /\ saPc' = "rebuild" /\ saPc # "idle"
    BY <1>7 DEF SetAllRebuild, SetAllInv, TypeOK
  <2>2. alone => Range(saLive)' = LiveBefore(all, saI)'
    <3> SUFFICES ASSUME alone PROVE Range(saLive)' = LiveBefore(all, saI)'
      OBVIOUS
    <3>1. Range(saLive) = LiveBefore(all, saI)
      BY <1>7 DEF SetAllRebuild, SetAllInv
    <3>2. Range(saLive') = Range(saLive) \cup (IF Healthy(x) THEN {x} ELSE {})
      <4>1. Healthy(x) \in BOOLEAN /\ saLive \in Seq(Addrs)
        BY DEF TypeOK, Healthy
      <4>2. Range(AppendIf(saLive, x, Healthy(x))) = Range(saLive) \cup (IF Healthy(x) THEN {x} ELSE {})
        BY ONLY <2>1, <4>1, AppendIfType
      <4> QED BY <1>7, <4>2 DEF SetAllRebuild
    <3>3. LiveBefore(all, saI + 1) = LiveBefore(all, saI) \cup (IF Healthy(x) THEN {x} ELSE {})
      BY <2>1, LiveBeforeNext DEF TypeOK
    <3>4. LiveBefore(all, saI)' = LiveBefore(all, saI + 1)
      BY <1>7 DEF SetAllRebuild, LiveBefore, Healthy
    <3> QED BY <3>1, <3>2, <3>3, <3>4
  <2>3. SetAllInv'
    <3>1. /\ all' = all /\ saList' = saList /\ saI' = saI + 1 /\ alone' = alone /\ ckPc' = ckPc
          /\ saList \in Lists /\ (alone => ckPc = "idle")
      BY <1>7 DEF SetAllRebuild, ckVars, history, SetAllInv
    <3>2. saI' <= Len(saList') + 1
      BY <2>1, <3>1 DEF TypeOK
    <3> QED BY <2>1, <2>2, <3>1, <3>2 DEF SetAllInv
  <2> QED BY <1>7, <2>1, <2>3
          DEF SetAllRebuild, ckVars, history, CheckInv, SetAllInv, RotationMatchesHealth, Quiet
<1>8. CASE SetAllPush
  <2>1. CheckInv' /\ SetAllInv' /\ (clean' => alone')
    BY <1>8 DEF SetAllPush, ckVars, CheckInv, SetAllInv
  <2>2. RotationMatchesHealth'
    <3> SUFFICES ASSUME clean' PROVE Rotation' = LiveAddrs'
      BY DEF RotationMatchesHealth
    <3>1. alone /\ all' = all /\ healthy' = healthy /\ backends' = saLive
      BY <1>8 DEF SetAllPush
    <3>2. Range(saLive) = LiveBefore(all, saI) /\ saI = Len(all) + 1
      BY <1>8, <3>1 DEF SetAllPush, SetAllInv, TypeOK
    <3>3. Range(saLive) = LiveAddrs
      BY <3>2, LiveBeforeEnds DEF TypeOK, LiveAddrs
    <3> QED BY <3>1, <3>3 DEF LiveAddrs, Healthy, Rotation
  <2> QED BY <2>1, <2>2
<1> QED BY <1>1, <1>2, <1>3, <1>4, <1>5, <1>6, <1>7, <1>8 DEF SetAllStep

(* Every step keeps the inductive invariant. *)
LEMMA IInvInductive == DistinctLists /\ IInv /\ [Next]_vars => IInv'
<1> SUFFICES ASSUME DistinctLists, IInv, [Next]_vars PROVE IInv'
  OBVIOUS
<1>1. TypeOK'
  BY TypeInductive DEF IInv
<1>2. (all \in Lists)'
  <2>1. CASE SetAllAssign
    BY <2>1 DEF SetAllAssign, IInv, SetAllInv
  <2>2. CASE ~SetAllAssign
    <3>1. all' = all
      BY <2>2 DEF Next, Check, SetAllStep, Flip, CheckBegin, CheckHeader, CheckLoad,
                  CheckPing, CheckEnd, SetAllBegin, SetAllDelete, SetAllDeleted,
                  SetAllMark, SetAllStore, SetAllRebuild, SetAllPush, vars
    <3> QED BY <3>1 DEF IInv
  <2> QED BY <2>1, <2>2
<1>3. CheckInv' /\ SetAllInv' /\ RotationMatchesHealth' /\ (clean' => alone')
  <2>1. CASE Flip \/ UNCHANGED vars
    BY <2>1 DEF Flip, vars, ckVars, saVars, history, IInv, CheckInv, SetAllInv,
       RotationMatchesHealth, Quiet, Rotation, LiveAddrs, LiveBefore, Healthy
  <2>2. CASE Check
    BY <2>2, CheckPreserves
  <2>3. CASE SetAllBegin \/ SetAllStep
    BY <2>3, SetAllPreserves
  <2> QED BY <2>1, <2>2, <2>3 DEF Next
<1> QED BY <1>1, <1>2, <1>3 DEF IInv

(* If no configuration lists a backend of a gate twice, the balancer serves  *)
(* exactly the listed backends last seen alive whenever both goroutines rest *)
(* and the last push came from a call nobody disturbed: an overlap of check  *)
(* and SetAll is repaired by the next undisturbed push, and check may skip   *)
(* the push when no verdict changed.                                         *)
THEOREM RotationCorrect == DistinctLists => (Spec => []RotationMatchesHealth)
<1> SUFFICES ASSUME DistinctLists PROVE Spec => []RotationMatchesHealth
  OBVIOUS
<1>1. IInv /\ [Next]_vars => IInv'
  BY IInvInductive
<1>2. IInv => RotationMatchesHealth
  BY DEF IInv
<1> QED BY <1>1, <1>2, IInvInit, PTL DEF Spec

-----------------------------------------------------------------------------
(* The health map follows the list as long as no check ever met a reload.    *)

Passed(s, i, a) == \E j \in 1..(i - 1) : s[j] = a

(* What SetAll has done to the map by the time it is at saI: the addresses   *)
(* not kept are deleted, then the new ones marked, up to that position.      *)
Deleting ==
  /\ saI <= Len(all) + 1
  /\ \A a \in Strings : healthy[a] # "absent" <=>
       a \in Range(all) /\ (a \in Range(saList) \/ ~Passed(all, saI, a))
Marking ==
  /\ saI <= Len(saList) + 1
  /\ \A a \in Strings : healthy[a] # "absent" <=>
       a \in Range(saList) /\ (a \in Range(all) \/ Passed(saList, saI, a))
Tracks == \A a \in Strings : healthy[a] # "absent" <=> a \in Range(all)

(* The inductive invariant behind MapTracksList; it needs no distinct lists. *)
TrackInv ==
  ~overlapped =>
    /\ alone /\ clean /\ (ckPc = "idle" \/ saPc = "idle")
    /\ ckPc # "idle" => ckArr = all /\ ckLen = Len(all)
    /\ ckPc = "ping" => ckAddr \in Range(all)
    /\ saPc \in {"idle", "rebuild"} => Tracks
    /\ saPc = "delete" => Deleting
    /\ saPc \in {"mark", "store"} => Marking

(* A loop has passed nothing at first, one element more after each round and *)
(* the whole list at the end.                                                *)
LEMMA PassedLoop ==
  ASSUME NEW s \in Seq(Addrs), NEW a
  PROVE  /\ ~Passed(s, 1, a)
         /\ \A i \in 1..Len(s) : Passed(s, i + 1, a) <=> Passed(s, i, a) \/ s[i] = a
         /\ Passed(s, Len(s) + 1, a) <=> a \in Range(s)
<1>1. ~Passed(s, 1, a)
  BY DEF Passed
<1>2. ASSUME NEW i \in 1..Len(s)
      PROVE  Passed(s, i + 1, a) <=> Passed(s, i, a) \/ s[i] = a
  <2>1. \A j \in Nat : j \in 1..(i + 1 - 1) <=> j \in 1..(i - 1) \/ j = i
    OBVIOUS
  <2> QED BY <2>1 DEF Passed
<1>3. Passed(s, Len(s) + 1, a) <=> a \in Range(s)
  <2>1. 1..(Len(s) + 1 - 1) = DOMAIN s
    OBVIOUS
  <2> QED BY <2>1 DEF Passed, Range
<1> QED BY <1>1, <1>2, <1>3

LEMMA RangeAddrs ==
  ASSUME NEW s \in Seq(Addrs)
  PROVE  Range(s) \subseteq Addrs /\ \A i \in 1..Len(s) : s[i] \in Range(s)
BY DEF Range

LEMMA TrackInit == Init => TrackInv
<1> SUFFICES ASSUME Init PROVE TrackInv
  OBVIOUS
<1>1. Tracks
  BY DEF Init, Tracks
<1> QED BY <1>1 DEF Init, TrackInv

(* check stores verdicts for listed addresses only.                          *)
LEMMA CheckTracks ==
  ASSUME TypeOK, TrackInv, Check
  PROVE  TrackInv'
<1> SUFFICES ASSUME ~overlapped' PROVE TrackInv'
  BY DEF TrackInv
<1>1. CASE CheckBegin
  <2>1. /\ saPc = "idle" /\ ~overlapped /\ alone' /\ clean' = clean
        /\ all' = all /\ healthy' = healthy /\ saPc' = saPc
        /\ ckPc' = "header" /\ ckArr' = all /\ ckLen' = Len(all)
    BY <1>1 DEF CheckBegin, Starts, saVars, TypeOK
  <2> QED BY <2>1 DEF TrackInv, Tracks
<1>2. CASE CheckHeader
  <2>1. /\ ckPc # "idle" /\ ~overlapped /\ alone' = alone /\ clean' = clean
        /\ all' = all /\ healthy' = healthy /\ saPc' = saPc /\ ckPc' = "load"
    BY <1>2 DEF CheckHeader, saVars, history
  <2>2. ckArr' = all /\ ckLen' = Len(all)
    BY <1>2, <2>1 DEF CheckHeader, TrackInv
  <2> QED BY <2>1, <2>2 DEF TrackInv, Tracks
<1>3. CASE CheckLoad
  <2>1. /\ ckPc # "idle" /\ ~overlapped /\ alone' = alone /\ clean' = clean
        /\ all' = all /\ healthy' = healthy /\ saPc' = saPc /\ ckPc' = "ping"
        /\ ckArr' = ckArr /\ ckLen' = ckLen
    BY <1>3 DEF CheckLoad, saVars, history
  <2>2. ckAddr' = all[ckI] /\ ckI \in 1..Len(all)
    BY <1>3, <2>1 DEF CheckLoad, ElementsAt, TrackInv, TypeOK
  <2>3. ckAddr' \in Range(all)
    BY <2>2, RangeAddrs DEF TypeOK
  <2> QED BY <2>1, <2>3 DEF TrackInv, Tracks
<1>4. CASE CheckPing
  <2>1. /\ ckPc = "ping" /\ ~overlapped /\ alone' = alone /\ clean' = clean
        /\ all' = all /\ saPc' = saPc /\ ckPc' = "load"
        /\ ckArr' = ckArr /\ ckLen' = ckLen
    BY <1>4 DEF CheckPing, saVars, history
  <2>2. saPc = "idle" /\ Tracks /\ ckAddr \in Range(all)
    BY <2>1 DEF TrackInv
  <2>3. \A a \in Strings : healthy'[a] # "absent" <=> a = ckAddr \/ healthy[a] # "absent"
    BY <1>4 DEF CheckPing, Verdict, TypeOK
  <2>4. Tracks'
    BY <2>1, <2>2, <2>3 DEF Tracks
  <2> QED BY <2>1, <2>2, <2>4 DEF TrackInv
<1>5. CASE CheckEnd
  <2>1. /\ ~overlapped
        /\ all' = all /\ healthy' = healthy /\ saPc' = saPc /\ ckPc # "idle" /\ ckPc' = "idle"
    BY <1>5 DEF CheckEnd, saVars
  <2>2. alone /\ clean /\ saPc = "idle" /\ Tracks
    BY <2>1 DEF TrackInv
  <2>3. alone' /\ clean'
    BY <1>5, <2>2 DEF CheckEnd
  <2> QED BY <2>1, <2>2, <2>3 DEF TrackInv, Tracks
<1> QED BY <1>1, <1>2, <1>3, <1>4, <1>5 DEF Check

(* SetAll deletes what is not kept and marks what is new.                    *)
LEMMA SetAllTracks ==
  ASSUME TypeOK, TrackInv, SetAllBegin \/ SetAllStep
  PROVE  TrackInv'
<1> SUFFICES ASSUME ~overlapped' PROVE TrackInv'
  BY DEF TrackInv
<1>a. all \in Seq(Addrs) /\ saList \in Seq(Addrs) /\ Addrs \subseteq Strings /\ saI \in Nat \ {0}
  BY DEF TypeOK, Strings
<1>1. CASE SetAllBegin
  <2>1. /\ ckPc = "idle" /\ saPc = "idle" /\ ~overlapped /\ alone' /\ clean' = clean
        /\ all' = all /\ healthy' = healthy /\ ckPc' = ckPc
        /\ saPc' = "delete" /\ saI' = 1
    BY <1>1 DEF SetAllBegin, Starts, ckVars, TypeOK
  <2>2. \A a : ~Passed(all, 1, a)
    BY <1>a, PassedLoop
  <2>3. Deleting'
    BY <2>1, <2>2, <1>a DEF TrackInv, Tracks, Deleting, Passed
  <2> QED BY <2>1, <2>3 DEF TrackInv
<1>2. CASE SetAllDelete
  <2> DEFINE x == all[saI]
  <2>1. /\ saPc = "delete" /\ saPc' = "delete" /\ ckPc' = ckPc /\ ~overlapped
        /\ all' = all /\ saList' = saList /\ saI \in 1..Len(all) /\ saI' = saI + 1
        /\ alone' = alone /\ clean' = clean
    BY <1>2, <1>a DEF SetAllDelete, ckVars, history
  <2>2. Deleting /\ alone /\ clean /\ ckPc = "idle" /\ x \in Range(all) /\ x \in Strings
    BY <2>1, <1>a, RangeAddrs DEF TrackInv
  <2>3. \A a \in Strings : healthy'[a] # "absent" <=>
          healthy[a] # "absent" /\ (a # x \/ a \in Range(saList))
    BY <1>2, <2>2 DEF SetAllDelete, Forget, TypeOK
  <2>4. \A a : Passed(all, saI + 1, a) <=> Passed(all, saI, a) \/ x = a
    BY <1>a, <2>1, PassedLoop
  <2>5. \A a \in Strings : healthy'[a] # "absent" <=>
          a \in Range(all) /\ (a \in Range(saList) \/ ~Passed(all, saI + 1, a))
    BY <2>2, <2>3, <2>4 DEF Deleting
  <2>6. Deleting'
    BY <2>1, <2>5 DEF Deleting, Passed
  <2> QED BY <2>1, <2>2, <2>6 DEF TrackInv
<1>3. CASE SetAllDeleted
  <2>1. /\ saPc = "delete" /\ saPc' = "mark" /\ ckPc' = ckPc /\ ~overlapped
        /\ all' = all /\ saList' = saList /\ saI > Len(all) /\ saI' = 1 /\ healthy' = healthy
        /\ alone' = alone /\ clean' = clean
    BY <1>3 DEF SetAllDeleted, ckVars, history
  <2>2. Deleting /\ alone /\ clean /\ ckPc = "idle" /\ saI = Len(all) + 1
    BY <2>1, <1>a DEF TrackInv, Deleting
  <2>3. \A a : ~Passed(saList, 1, a) /\ (Passed(all, saI, a) <=> a \in Range(all))
    BY <1>a, <2>2, PassedLoop
  <2>4. \A a \in Strings : healthy[a] # "absent" <=>
          a \in Range(saList) /\ (a \in Range(all) \/ Passed(saList, 1, a))
    BY <2>2, <2>3 DEF Deleting
  <2>5. Marking'
    BY <2>1, <2>4, <1>a DEF Marking, Passed
  <2> QED BY <2>1, <2>2, <2>5 DEF TrackInv
<1>4. CASE SetAllMark
  <2>1. /\ saPc = "mark" /\ saPc' \in {"mark", "store"} /\ ckPc' = ckPc /\ ~overlapped
        /\ all' = all /\ saList' = saList /\ saI \in 1..Len(saList) /\ healthy' = healthy
        /\ alone' = alone /\ clean' = clean
        /\ saI' = saI \/ (saI' = saI + 1 /\ healthy[saList[saI]] # "absent")
    BY <1>4, <1>a DEF SetAllMark, NeedsMark, ckVars, history
  <2>2. Marking /\ alone /\ clean /\ ckPc = "idle"
    BY <2>1 DEF TrackInv
  <2>3. \A a : Passed(saList, saI + 1, a) <=> Passed(saList, saI, a) \/ saList[saI] = a
    BY <1>a, <2>1, PassedLoop
  <2>4. saList[saI] \in Range(saList) /\ saList[saI] \in Strings
    BY <1>a, <2>1, RangeAddrs
  <2>5. CASE saI' = saI
    BY <2>1, <2>2, <2>5 DEF TrackInv, Marking, Passed
  <2>6. CASE saI' = saI + 1 /\ healthy[saList[saI]] # "absent"
    <3>1. \A a \in Strings : healthy[a] # "absent" <=>
            a \in Range(saList) /\ (a \in Range(all) \/ Passed(saList, saI + 1, a))
      BY <2>2, <2>3, <2>4, <2>6 DEF Marking
    <3>2. Marking'
      BY <2>1, <2>6, <3>1 DEF Marking, Passed
    <3> QED BY <2>1, <2>2, <3>2 DEF TrackInv
  <2> QED BY <2>1, <2>5, <2>6
<1>5. CASE SetAllStore
  <2> DEFINE x == saList[saI]
  <2>1. /\ saPc = "store" /\ saPc' = "mark" /\ ckPc' = ckPc /\ ~overlapped
        /\ all' = all /\ saList' = saList /\ saI \in 1..Len(saList) /\ saI' = saI + 1
        /\ alone' = alone /\ clean' = clean
    BY <1>5, <1>a DEF SetAllStore, ckVars, history, TypeOK
  <2>2. Marking /\ alone /\ clean /\ ckPc = "idle" /\ x \in Range(saList) /\ x \in Strings
    BY <2>1, <1>a, RangeAddrs DEF TrackInv
  <2>3. \A a \in Strings : healthy'[a] # "absent" <=> healthy[a] # "absent" \/ a = x
    BY <1>5 DEF SetAllStore, TypeOK
  <2>4. \A a : Passed(saList, saI + 1, a) <=> Passed(saList, saI, a) \/ x = a
    BY <1>a, <2>1, PassedLoop
  <2>5. \A a \in Strings : healthy'[a] # "absent" <=>
          a \in Range(saList) /\ (a \in Range(all) \/ Passed(saList, saI + 1, a))
    BY <2>2, <2>3, <2>4 DEF Marking
  <2>6. Marking'
    BY <2>1, <2>5 DEF Marking, Passed
  <2> QED BY <2>1, <2>2, <2>6 DEF TrackInv
<1>6. CASE SetAllAssign
  <2>1. /\ saPc = "mark" /\ saPc' = "rebuild" /\ ckPc' = ckPc /\ ~overlapped
        /\ all' = saList /\ saI > Len(saList) /\ healthy' = healthy
        /\ alone' = alone /\ clean' = clean
    BY <1>6 DEF SetAllAssign, ckVars, history
  <2>2. Marking /\ alone /\ clean /\ ckPc = "idle" /\ saI = Len(saList) + 1
    BY <2>1, <1>a DEF TrackInv, Marking
  <2>3. \A a : Passed(saList, saI, a) <=> a \in Range(saList)
    BY <1>a, <2>2, PassedLoop
  <2>4. Tracks'
    BY <2>1, <2>2, <2>3 DEF Marking, Tracks
  <2> QED BY <2>1, <2>2, <2>4 DEF TrackInv
<1>7. CASE SetAllRebuild \/ SetAllPush
  <2>1. /\ saPc = "rebuild" /\ saPc' \in {"idle", "rebuild"} /\ ckPc' = ckPc /\ ~overlapped
        /\ all' = all /\ healthy' = healthy
    BY <1>7 DEF SetAllRebuild, SetAllPush, ckVars, history
  <2>2. alone /\ clean /\ ckPc = "idle" /\ Tracks
    BY <2>1 DEF TrackInv
  <2>3. alone' /\ clean'
    BY <1>7, <2>2 DEF SetAllRebuild, SetAllPush, history
  <2> QED BY <2>1, <2>2, <2>3 DEF TrackInv, Tracks
<1> QED BY <1>1, <1>2, <1>3, <1>4, <1>5, <1>6, <1>7 DEF SetAllStep

LEMMA TrackInductive == TypeOK /\ TrackInv /\ [Next]_vars => TrackInv'
<1> SUFFICES ASSUME TypeOK, TrackInv, [Next]_vars PROVE TrackInv'
  OBVIOUS
<1>1. CASE Flip \/ UNCHANGED vars
  BY <1>1 DEF Flip, vars, ckVars, saVars, history, TrackInv, Deleting, Marking, Tracks, Passed
<1>2. CASE Check
  BY <1>2, CheckTracks
<1>3. CASE SetAllBegin \/ SetAllStep
  BY <1>3, SetAllTracks
<1> QED BY <1>1, <1>2, <1>3 DEF Next

LEMMA TrackAlways == Spec => []TrackInv
BY TypeInductive, TrackInit, TrackInductive, PTL DEF Spec

(* Until a check first meets a reload, the health map has an entry for each  *)
(* listed address and for no other whenever both rest: the loops of SetAll   *)
(* (pulsescan.go:57 and :65) delete and mark exactly what they must, also    *)
(* when a list names a backend twice.                                        *)
THEOREM MapCorrect == Spec => []MapTracksList
<1>1. TrackInv => MapTracksList
  BY DEF TrackInv, Tracks, MapTracksList, Quiet
<1> QED BY <1>1, TrackAlways, PTL

(* What SetAll knows of the verdicts before it assigns the list: those of    *)
(* the old list are the ones the rotation shows, the others are not dead.    *)
KeepInv ==
  ~overlapped =>
    /\ saPc \in {"delete", "mark", "store"} =>
         /\ \A a \in Range(all) : healthy[a] # "absent" => (Healthy(a) <=> a \in Rotation)
         /\ \A a \in Strings : healthy[a] = "dead" => a \in Range(all)
    /\ saPc = "store" => healthy[saList[saI]] = "absent"

LEMMA KeepInductive ==
  ASSUME TypeOK, RotationMatchesHealth, TrackInv, KeepInv, [Next]_vars
  PROVE  KeepInv'
<1> SUFFICES ASSUME ~overlapped', (saPc \in {"delete", "mark", "store"})' PROVE KeepInv'
  BY DEF KeepInv
<1>a. /\ all \in Seq(Addrs) /\ saList \in Seq(Addrs) /\ saI \in Nat \ {0}
      /\ Addrs \subseteq Strings /\ Range(all) \subseteq Strings
  <2>1. all \in Seq(Addrs) /\ saList \in Seq(Addrs) /\ Addrs \subseteq Strings /\ saI \in Nat \ {0}
    BY DEF TypeOK, Strings
  <2> QED BY <2>1, RangeAddrs
<1>1. CASE Flip \/ UNCHANGED vars
  BY <1>1 DEF Flip, vars, saVars, history, KeepInv, Healthy, Rotation
<1>2. CASE Check
  <2>1. ~overlapped /\ saPc' = saPc
    BY <1>2 DEF Check, CheckBegin, CheckHeader, CheckLoad, CheckPing, CheckEnd, saVars, history,
                Starts, TypeOK
  <2>2. ckPc = "idle" /\ saPc # "idle"
    BY <2>1 DEF TrackInv
  <2>3. overlapped'
    BY <1>2, <2>2 DEF Check, CheckBegin, CheckHeader, CheckLoad, CheckPing, CheckEnd, Starts
  <2> QED BY <2>3
<1>3. CASE SetAllBegin
  <2>1. /\ ~overlapped /\ ckPc = "idle" /\ saPc = "idle" /\ saPc' = "delete"
        /\ all' = all /\ healthy' = healthy /\ backends' = backends
    BY <1>3 DEF SetAllBegin, Starts, TypeOK
  <2>2. Tracks /\ Rotation = LiveAddrs
    BY <2>1 DEF TrackInv, RotationMatchesHealth, Quiet
  <2> QED BY <2>1, <2>2 DEF KeepInv, Tracks, LiveAddrs, Healthy, Rotation
<1>4. CASE SetAllDelete
  <2> DEFINE x == all[saI]
  <2>1. /\ saPc = "delete" /\ saPc' = "delete" /\ ~overlapped /\ x \in Range(all)
        /\ all' = all /\ backends' = backends
    BY <1>4, <1>a, RangeAddrs DEF SetAllDelete, history
  <2>2. \A a \in Strings : healthy'[a] # "absent" => healthy'[a] = healthy[a]
    BY <1>4, <2>1, <1>a DEF SetAllDelete, Forget, TypeOK
  <2> QED BY <2>1, <2>2, <1>a DEF KeepInv, Healthy, Rotation
<1>5. CASE SetAllDeleted \/ SetAllMark
  <2>1. /\ saPc \in {"delete", "mark"} /\ ~overlapped
        /\ all' = all /\ backends' = backends /\ healthy' = healthy
        /\ saPc' = "store" => healthy[saList[saI]] = "absent" /\ saI' = saI /\ saList' = saList
    BY <1>5 DEF SetAllDeleted, SetAllMark, NeedsMark, history
  <2> QED BY <2>1 DEF KeepInv, Healthy, Rotation
<1>6. CASE SetAllStore
  <2> DEFINE x == saList[saI]
  <2>1. /\ saPc = "store" /\ saPc' = "mark" /\ ~overlapped /\ all' = all /\ backends' = backends
        /\ saI \in 1..Len(saList)
    BY <1>6, <1>a DEF SetAllStore, history, TypeOK
  <2>2. x \in Range(saList) /\ x \in Strings /\ healthy[x] = "absent"
    BY <2>1, <1>a, RangeAddrs DEF KeepInv
  <2>3. x \notin Range(all)
    BY <2>1, <2>2 DEF TrackInv, Marking
  <2>4. \A a \in Strings : healthy'[a] = IF a = x THEN "alive" ELSE healthy[a]
    BY <1>6 DEF SetAllStore, TypeOK
  <2> QED BY <2>1, <2>3, <2>4, <1>a DEF KeepInv, Healthy, Rotation
<1>7. CASE SetAllAssign \/ SetAllRebuild \/ SetAllPush
  BY <1>7 DEF SetAllAssign, SetAllRebuild, SetAllPush
<1> QED BY <1>1, <1>2, <1>3, <1>4, <1>5, <1>6, <1>7 DEF Next, SetAllStep

(* The assignment is the only step that changes the list.                    *)
LEMMA AssignKeeps ==
  ASSUME TypeOK, TrackInv, KeepInv, [Next]_vars, all' # all, ~overlapped,
         NEW a \in Range(all')
  PROVE  healthy'[a] = "alive" <=> a \notin Range(all) \/ a \in Rotation
<1>1. SetAllAssign
  BY DEF Next, Check, SetAllStep, Flip, CheckBegin, CheckHeader, CheckLoad, CheckPing, CheckEnd,
         SetAllBegin, SetAllDelete, SetAllDeleted, SetAllMark, SetAllStore, SetAllRebuild,
         SetAllPush, vars
<1>2. saPc = "mark" /\ saI > Len(saList) /\ all' = saList /\ healthy' = healthy
  BY <1>1 DEF SetAllAssign
<1>3. Marking /\ saI = Len(saList) + 1
  BY <1>2 DEF TrackInv, Marking, TypeOK
<1>4. a \in Range(saList) /\ a \in Strings
  BY <1>2, RangeAddrs DEF TypeOK, Strings
<1>5. Passed(saList, saI, a)
  BY <1>3, <1>4, PassedLoop DEF TypeOK
<1>6. healthy[a] # "absent" /\ healthy[a] \in {"alive", "dead", "absent"}
  BY <1>3, <1>4, <1>5 DEF Marking, TypeOK
<1>7. a \in Range(all) => (Healthy(a) <=> a \in Rotation)
  BY <1>2, <1>6 DEF KeepInv
<1>8. a \notin Range(all) => healthy[a] # "dead"
  BY <1>2, <1>4 DEF KeepInv
<1> QED BY <1>2, <1>6, <1>7, <1>8 DEF Healthy

(* A reload that no check has met takes each new backend for healthy and     *)
(* keeps the verdict of the others, which is what the rotation shows: the    *)
(* test for an entry at pulsescan.go:66 tells them apart.                    *)
THEOREM VerdictsKept == DistinctLists => (Spec => ReloadKeepsVerdicts)
<1> SUFFICES ASSUME DistinctLists PROVE Spec => ReloadKeepsVerdicts
  OBVIOUS
<1>1. Init => KeepInv
  BY DEF Init, KeepInv
<1>2. TypeOK /\ RotationMatchesHealth /\ TrackInv /\ KeepInv /\ [Next]_vars => KeepInv'
  BY KeepInductive
<1> DEFINE Kept == all' # all /\ ~overlapped =>
             \A a \in Range(all') : healthy'[a] = "alive" <=> a \notin Range(all) \/ a \in Rotation
<1>3. TypeOK /\ TrackInv /\ KeepInv /\ [Next]_vars => Kept
  BY AssignKeeps
<1>4. Spec => []TypeOK /\ []RotationMatchesHealth /\ []TrackInv
  BY TypeCorrect, RotationCorrect, TrackAlways, PTL
<1>5. Spec => [][Kept]_vars
  BY <1>1, <1>2, <1>3, <1>4, PTL DEF Spec
<1> QED BY <1>5 DEF ReloadKeepsVerdicts
=============================================================================
