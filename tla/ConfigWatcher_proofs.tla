------------------------- MODULE ConfigWatcher_proofs -------------------------
(***************************************************************************)
(* Theorems about the watcher of centauri.yml, for any gates, lists and    *)
(* contents of the file, and any number of changes to it.                  *)
(***************************************************************************)
EXTENDS ConfigWatcher, TLAPS

(* Events come from a watched file only, and gates are applied one reload at *)
(* a time.                                                                   *)
Phases ==
  /\ mainPc # "apply" => todo = {}
  /\ mainPc \in {"load", "start", "watch", "exit"} => queue = 0 /\ ~watched

(* Before the watch begins nothing reloads the file, so the first            *)
(* configuration is current unless a change was missed.                      *)
Started ==
  /\ mainPc \in {"start", "watch"} /\ ~unseen => disk = cfg
  /\ mainPc = "watch" => installed = cfg

(* While a configuration is applied, the gates that are done have its lists, *)
(* and it is the content of the file unless another event waits.             *)
Applying ==
  mainPc = "apply" =>
    /\ queue = 0 /\ ~unseen /\ disk \in Configs => cfg = disk
    /\ \A g \in (DOMAIN cfg \cap DOMAIN installed) \ todo : installed[g] = cfg[g]

(* The inductive invariant. *)
IInv == WatcherTypeOK /\ Phases /\ Started /\ Applying /\ InstalledIsCurrent

USE ConfigsAssumption, NoConfigs, SavesAssumption

-----------------------------------------------------------------------------
LEMMA EmptyConfig == Empty \in Configs
<1>1. Empty \in [{} -> GateLists] /\ {} \in SUBSET GateNames
  BY DEF Empty
<1> QED BY <1>1 DEF Configs

LEMMA WizardConfigs == WizardFiles \subseteq Configs
<1>1. ASSUME NEW g \in GateNames, NEW s \in GateLists PROVE WizardFile(g, s) \in Configs
  <2>1. WizardFile(g, s) \in [{g} -> GateLists] /\ {g} \in SUBSET GateNames
    BY DEF WizardFile
  <2> QED BY <2>1 DEF Configs
<1> QED BY <1>1 DEF WizardFiles

(* A configuration whose gate gets another list is a configuration. *)
LEMMA ConfigUpdate ==
  ASSUME NEW c \in Configs, NEW g \in DOMAIN c, NEW s \in GateLists
  PROVE  [c EXCEPT ![g] = s] \in Configs /\ DOMAIN [c EXCEPT ![g] = s] = DOMAIN c
<1>1. PICK S \in SUBSET GateNames : c \in [S -> GateLists]
  BY DEF Configs
<1>2. [c EXCEPT ![g] = s] \in [S -> GateLists]
  BY <1>1
<1> QED BY <1>1, <1>2 DEF Configs

LEMMA ListOf ==
  ASSUME NEW c \in Configs, NEW g \in DOMAIN c
  PROVE  c[g] \in GateLists
<1>1. PICK S \in SUBSET GateNames : c \in [S -> GateLists]
  BY DEF Configs
<1> QED BY <1>1

-----------------------------------------------------------------------------
LEMMA IInvInit == WatcherInit => IInv
<1> SUFFICES ASSUME WatcherInit PROVE IInv
  OBVIOUS
<1>1. disk \in Configs \cup {Broken, Absent}
  BY DEF WatcherInit
<1>2. cfg \in Configs /\ installed \in Configs /\ todo = {}
  BY EmptyConfig DEF WatcherInit
<1>3. watched \in BOOLEAN /\ unseen \in BOOLEAN /\ writer \in Configs \cup {Absent}
  BY Zenon DEF WatcherInit
<1>4. saves \in 0..MaxSaves /\ queue \in Nat
  BY DEF WatcherInit
<1>5. mainPc \in {"load", "start", "watch", "wait", "reload", "apply", "exit"}
  BY DEF WatcherInit
<1>6. todo \subseteq DOMAIN cfg \cap DOMAIN installed
  BY <1>2
<1>7. WatcherTypeOK
  BY <1>1, <1>2, <1>3, <1>4, <1>5, <1>6 DEF WatcherTypeOK
<1> QED BY <1>7 DEF WatcherInit, IInv, Phases, Started, Applying, InstalledIsCurrent

(* A write leaves an event behind, or was missed. *)
LEMMA ModifyKept ==
  ASSUME IInv, NEW content \in Configs \cup {Broken}, Modify(content),
         writer' \in Configs \cup {Absent}, saves' \in 0..MaxSaves
  PROVE  IInv'
<1>1. /\ disk' = content
      /\ UNCHANGED <<watched, mainPc, cfg, todo, installed>>
      /\ watched => queue' \in Nat /\ queue' > 0 /\ unseen' = unseen
      /\ ~watched => unseen' = TRUE /\ queue' = queue
  BY DEF Modify, program, IInv, WatcherTypeOK
<1>2. WatcherTypeOK'
  BY <1>1 DEF IInv, WatcherTypeOK
<1>3. Phases' /\ Started' /\ Applying' /\ InstalledIsCurrent'
  BY <1>1 DEF IInv, WatcherTypeOK, Phases, Started, Applying, InstalledIsCurrent
<1> QED BY <1>2, <1>3 DEF IInv

LEMMA ChangeKept ==
  ASSUME IInv, Change
  PROVE  IInv'
<1>1. CASE SaveBegins
  <2>1. writer' \in Configs /\ saves' \in 0..MaxSaves /\ Modify(Empty)
    BY <1>1, WizardConfigs DEF SaveBegins, IInv, WatcherTypeOK
  <2> QED BY <2>1, EmptyConfig, ModifyKept
<1>2. CASE SaveGoesOn
  <2>1. PICK h \in Halves : Modify(h)
    BY <1>2 DEF SaveGoesOn
  <2>2. writer' \in Configs \cup {Absent} /\ saves' \in 0..MaxSaves /\ h \in Configs \cup {Broken}
    BY <1>2 DEF SaveGoesOn, IInv, WatcherTypeOK
  <2> QED BY <2>1, <2>2, ModifyKept
<1>3. CASE SaveEnds
  <2>1. writer' = Absent /\ writer \in Configs /\ saves' \in 0..MaxSaves /\ Modify(writer)
    BY <1>3 DEF SaveEnds, IInv, WatcherTypeOK
  <2> QED BY <2>1, ModifyKept
<1>4. CASE Replace
  <2>1. /\ disk' \in Configs \cup {Absent} /\ saves' \in 0..MaxSaves
        /\ watched' = FALSE /\ unseen' = TRUE
        /\ UNCHANGED <<writer, queue, mainPc, cfg, todo, installed>>
    BY <1>4 DEF Replace, program, IInv, WatcherTypeOK
  <2>2. WatcherTypeOK'
    BY <2>1 DEF IInv, WatcherTypeOK
  <2>3. Phases' /\ Started' /\ Applying' /\ InstalledIsCurrent'
    BY <2>1 DEF IInv, Phases, Started, Applying, InstalledIsCurrent
  <2> QED BY <2>2, <2>3 DEF IInv
<1> QED BY <1>1, <1>2, <1>3, <1>4 DEF Change

LEMMA ExitKept ==
  ASSUME IInv, Exit
  PROVE  IInv'
<1>1. WatcherTypeOK'
  BY EmptyConfig DEF Exit, file, IInv, WatcherTypeOK
<1>2. Phases' /\ Started' /\ Applying' /\ InstalledIsCurrent'
  BY DEF Exit, Phases, Started, Applying, InstalledIsCurrent
<1> QED BY <1>1, <1>2 DEF IInv

-----------------------------------------------------------------------------
LEMMA MainKept ==
  ASSUME IInv, Main
  PROVE  IInv'
<1>1. CASE LoadFirst /\ ~Exit
  <2>1. /\ mainPc = "load" /\ mainPc' = "start" /\ disk \in Configs /\ cfg' = disk /\ unseen' = FALSE
        /\ UNCHANGED <<disk, writer, saves, watched, queue, todo, installed>>
    BY <1>1 DEF LoadFirst, file
  <2>2. todo = {}
    BY <2>1 DEF IInv, Phases
  <2>3. WatcherTypeOK'
    BY <2>1, <2>2 DEF IInv, WatcherTypeOK
  <2> QED BY <2>1, <2>2, <2>3 DEF IInv, Phases, Started, Applying, InstalledIsCurrent
<1>2. CASE StartGates /\ ~Exit
  <2>1. /\ mainPc = "start" /\ mainPc' = "watch" /\ installed' = cfg
        /\ UNCHANGED <<disk, writer, saves, watched, queue, cfg, todo, unseen>>
    BY <1>2 DEF StartGates, file
  <2>2. todo = {}
    BY <2>1 DEF IInv, Phases
  <2>3. WatcherTypeOK'
    BY <2>1, <2>2 DEF IInv, WatcherTypeOK
  <2> QED BY <2>1, <2>2, <2>3 DEF IInv, Phases, Started, Applying, InstalledIsCurrent
<1>3. CASE Watch /\ ~Exit
  <2>1. /\ mainPc = "watch" /\ mainPc' = "wait" /\ watched' = TRUE
        /\ UNCHANGED <<disk, writer, saves, queue, cfg, todo, installed, unseen>>
    BY <1>3 DEF Watch, file
  <2>2. WatcherTypeOK'
    BY <2>1 DEF IInv, WatcherTypeOK
  <2>3. InstalledIsCurrent'
    BY <2>1 DEF IInv, Started, InstalledIsCurrent
  <2> QED BY <2>1, <2>2, <2>3 DEF IInv, Phases, Started, Applying
<1> QED BY <1>1, <1>2, <1>3, ExitKept DEF Main

LEMMA WatcherKept ==
  ASSUME IInv, Watcher
  PROVE  IInv'
<1>1. CASE Receive
  <2>1. /\ mainPc = "wait" /\ mainPc' = "reload" /\ queue' \in Nat
        /\ UNCHANGED <<disk, writer, saves, watched, cfg, todo, installed, unseen>>
    BY <1>1 DEF Receive, file, IInv, WatcherTypeOK
  <2>2. WatcherTypeOK'
    BY <2>1 DEF IInv, WatcherTypeOK
  <2> QED BY <2>1, <2>2 DEF IInv, Phases, Started, Applying, InstalledIsCurrent
<1>2. CASE Reload
  <2>1. mainPc = "reload" /\ unseen' = FALSE /\ todo = {}
        /\ UNCHANGED <<disk, writer, saves, watched, queue, installed>>
    BY <1>2 DEF Reload, file, IInv, Phases
  <2>2. CASE disk \notin Configs
    <3>1. mainPc' = "wait" /\ UNCHANGED <<cfg, todo>>
      BY <1>2, <2>2 DEF Reload
    <3>2. WatcherTypeOK'
      BY <2>1, <3>1 DEF IInv, WatcherTypeOK
    <3> QED BY <2>1, <2>2, <3>1, <3>2 DEF IInv, Phases, Started, Applying, InstalledIsCurrent
  <2>3. CASE disk \in Configs
    <3>1. mainPc' = "apply" /\ cfg' = disk /\ todo' = DOMAIN disk \cap DOMAIN installed
      BY <1>2, <2>3 DEF Reload
    <3>2. WatcherTypeOK'
      BY <2>1, <2>3, <3>1 DEF IInv, WatcherTypeOK
    <3> QED BY <2>1, <3>1, <3>2 DEF IInv, Phases, Started, Applying, InstalledIsCurrent
  <2> QED BY <2>2, <2>3
<1>3. CASE Apply
  <2>1. PICK g \in todo : installed' = [installed EXCEPT ![g] = cfg[g]] /\ todo' = todo \ {g}
    BY <1>3 DEF Apply
  <2>2. mainPc = "apply" /\ UNCHANGED <<disk, writer, saves, watched, queue, mainPc, cfg, unseen>>
    BY <1>3 DEF Apply, file
  <2>3. g \in DOMAIN cfg /\ g \in DOMAIN installed /\ cfg \in Configs /\ installed \in Configs
    BY DEF IInv, WatcherTypeOK
  <2>4. installed' \in Configs /\ DOMAIN installed' = DOMAIN installed
    BY <2>1, <2>3, ListOf, ConfigUpdate
  <2>5. WatcherTypeOK'
    BY <2>1, <2>2, <2>4 DEF IInv, WatcherTypeOK
  <2>6. ASSUME NEW h \in (DOMAIN cfg \cap DOMAIN installed) \ (todo \ {g})
        PROVE  installed'[h] = cfg[h]
    BY <2>1, <2>2, <2>3 DEF IInv, Applying
  <2> QED BY <2>1, <2>2, <2>4, <2>5, <2>6 DEF IInv, Phases, Started, Applying, InstalledIsCurrent
<1>4. CASE Applied
  <2>1. /\ mainPc = "apply" /\ todo = {} /\ mainPc' = "wait"
        /\ UNCHANGED <<disk, writer, saves, watched, queue, cfg, todo, installed, unseen>>
    BY <1>4 DEF Applied, file
  <2>2. WatcherTypeOK'
    BY <2>1 DEF IInv, WatcherTypeOK
  <2>3. InstalledIsCurrent'
    BY <2>1 DEF IInv, Applying, InstalledIsCurrent
  <2> QED BY <2>1, <2>2, <2>3 DEF IInv, Phases, Started, Applying
<1> QED BY <1>1, <1>2, <1>3, <1>4 DEF Watcher

-----------------------------------------------------------------------------
LEMMA IInvInductive == IInv /\ [WatcherNext]_watcherVars => IInv'
<1> SUFFICES ASSUME IInv, [WatcherNext]_watcherVars PROVE IInv'
  OBVIOUS
<1>1. CASE RunAgain
  <2>1. /\ mainPc = "exit" /\ mainPc' = "load"
        /\ UNCHANGED <<disk, writer, saves, watched, queue, cfg, todo, installed, unseen>>
    BY <1>1 DEF RunAgain, file
  <2>2. WatcherTypeOK'
    BY <2>1 DEF IInv, WatcherTypeOK
  <2> QED BY <2>1, <2>2 DEF IInv, Phases, Started, Applying, InstalledIsCurrent
<1>2. CASE UNCHANGED watcherVars
  BY <1>2 DEF watcherVars, file, program, IInv, WatcherTypeOK, Phases, Started, Applying, InstalledIsCurrent
<1> QED BY <1>1, <1>2, ChangeKept, MainKept, WatcherKept, ExitKept DEF WatcherNext, Quit

LEMMA IInvAlways == WatcherSpec => []IInv
BY IInvInit, IInvInductive, PTL DEF WatcherSpec

(* Every reachable state is well typed: in particular the callback of main   *)
(* only ever touches gates that are both in the new configuration and in the *)
(* registry (main.go:221), and applies them before the next event.           *)
THEOREM TypeCorrect == WatcherSpec => []WatcherTypeOK
<1>1. IInv => WatcherTypeOK
  BY DEF IInv
<1> QED BY <1>1, IInvAlways, PTL

(* When the watcher waits and no event is left, every gate has the list the  *)
(* file gives it, unless the file last changed before the watch began or was *)
(* replaced (watcher.go:31).                                                 *)
THEOREM InstalledCorrect == WatcherSpec => []InstalledIsCurrent
<1>1. IInv => InstalledIsCurrent
  BY DEF IInv
<1> QED BY <1>1, IInvAlways, PTL
=============================================================================
