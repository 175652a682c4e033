---------------------------- MODULE ConfigWatcher ----------------------------
(***************************************************************************)
(* centauri.yml, the start of the main program (cmd/centauri/main.go), the *)
(* watcher of the file (internal/config/watcher.go) and the backend lists  *)
(* that reach the health checker of each gate.                             *)
(*                                                                         *)
(* The file changes under the program in three ways: written in place,     *)
(* which truncates it first (an editor, or os.WriteFile in the wizard),    *)
(* replaced by another file, or removed.  Only the first one makes events  *)
(* the watcher handles: fsnotify watches the file, not its name.           *)
(* Of a configuration only the lists matter here: a reload applies nothing *)
(* else.  SetAll of PulseScan is one step.                                 *)
(***************************************************************************)
EXTENDS Naturals, Sequences

CONSTANTS GateNames,
          GateLists, \* address lists
          Versions,  \* what an editor may write: lists for some of the gates
          Halves,    \* what may be found in a file that is half written
          Broken,    \* the content of a file that does not parse
          Absent,    \* no file
          MaxSaves   \* bound: changes of the file, but for the last write of a save

Configs == UNION {[S -> GateLists] : S \in SUBSET GateNames}
Empty == [g \in {} |-> <<>>]

ASSUME ConfigsAssumption ==
  Versions \subseteq Configs /\ Halves \subseteq Configs \cup {Broken}
ASSUME NoConfigs == Broken \notin Configs /\ Absent \notin Configs /\ Absent # Broken
ASSUME SavesAssumption == MaxSaves \in Nat

VARIABLES disk,      \* the content under the name centauri.yml
          writer,    \* what is being written in place, Absent for nothing
          saves,
          watched,   \* the file under that name is the one fsnotify watches
          queue,     \* Write events not yet received
          mainPc,    \* main until the watch begins, then the watcher's goroutine
          cfg,       \* the configuration last loaded
          todo,      \* gates whose new list the callback has still to apply
          installed, \* the registry: for each gate started, the list of its PulseScan
          unseen     \* history: the file changed after the last Load, without an event

file == <<disk, writer, saves>>
program == <<mainPc, cfg, todo, installed>>
watcherVars == <<file, watched, queue, program, unseen>>

WatcherInit ==
  /\ disk \in Versions \cup {Broken, Absent}
  /\ writer = Absent /\ saves = 0
  /\ watched = FALSE /\ queue = 0
  /\ mainPc = "load" /\ cfg = Empty /\ todo = {} /\ installed = Empty
  /\ unseen = FALSE

-----------------------------------------------------------------------------
(* The wizard asks for one gate and for backends until it is told to stop:   *)
(* at least one, the default if nothing is entered.                          *)
WizardFile(name, answers) == [g \in {name} |-> answers]
WizardFiles == {WizardFile(g, s) : g \in GateNames, s \in GateLists \ {<<>>}}

(* Every modification makes an event; the kernel may merge it with one that  *)
(* still waits.                                                              *)
Modify(content) ==
  /\ disk' = content
  /\ IF watched THEN /\ queue' \in {queue + 1} \cup (IF queue > 0 THEN {queue} ELSE {})
                     /\ UNCHANGED unseen
                ELSE unseen' = TRUE /\ UNCHANGED queue
  /\ UNCHANGED <<watched, program>>

SaveBegins ==
  /\ writer = Absent /\ disk # Absent /\ saves < MaxSaves
  /\ writer' \in Versions \cup WizardFiles
  /\ saves' = saves + 1
  /\ Modify(Empty)

SaveGoesOn ==
  /\ writer # Absent /\ saves < MaxSaves
  /\ saves' = saves + 1
  /\ \E h \in Halves : Modify(h)
  /\ UNCHANGED writer

SaveEnds ==
  /\ writer # Absent
  /\ writer' = Absent
  /\ Modify(writer)
  /\ UNCHANGED saves

(* Another file takes the name, or none: the events of the old file are      *)
(* neither Write nor Create, and the watch ends with it.                     *)
Replace ==
  /\ writer = Absent /\ saves < MaxSaves
  /\ disk' \in Versions \cup {Absent}
  /\ saves' = saves + 1
  /\ watched' = FALSE
  /\ unseen' = TRUE
  /\ UNCHANGED <<writer, queue, program>>

-----------------------------------------------------------------------------
Exit ==
  /\ mainPc' = "exit"
  /\ cfg' = Empty /\ todo' = {} /\ installed' = Empty
  /\ watched' = FALSE /\ queue' = 0 /\ unseen' = FALSE
  /\ UNCHANGED file

(* main: config.Load, fatal if it fails. *)
LoadFirst ==
  /\ mainPc = "load"
  /\ \/ disk \notin Configs /\ Exit
     \/ /\ disk \in Configs
        /\ cfg' = disk /\ unseen' = FALSE
        /\ mainPc' = "start"
        /\ UNCHANGED <<file, watched, queue, todo, installed>>

(* Start a PulseScan and a listener for each gate; fatal if a gate's log     *)
(* cannot be opened.                                                         *)
StartGates ==
  /\ mainPc = "start"
  /\ \/ Exit
     \/ /\ installed' = cfg
        /\ mainPc' = "watch"
        /\ UNCHANGED <<file, watched, queue, cfg, todo, unseen>>

(* config.Watch: fatal if there is no file.  What happened to the file since *)
(* LoadFirst is never looked at.                                             *)
Watch ==
  /\ mainPc = "watch"
  /\ \/ disk = Absent /\ Exit
     \/ /\ disk # Absent
        /\ watched' = TRUE
        /\ mainPc' = "wait"
        /\ UNCHANGED <<file, queue, cfg, todo, installed, unseen>>

(* Wrong variant: only Create events are acted upon. *)
ReceiveIgnores ==
  /\ mainPc = "wait" /\ queue > 0
  /\ queue' = queue - 1
  /\ UNCHANGED <<file, watched, mainPc, cfg, todo, installed, unseen>>

Receive ==
  /\ mainPc = "wait" /\ queue > 0
  /\ queue' = queue - 1
  /\ mainPc' = "reload"
  /\ UNCHANGED <<file, watched, cfg, todo, installed, unseen>>

(* Wrong variant: gates that were never started are applied as well. *)
ReloadUnknownGates ==
  /\ mainPc = "reload"
  /\ unseen' = FALSE
  /\ \/ disk \notin Configs /\ mainPc' = "wait" /\ UNCHANGED <<cfg, todo>>
     \/ /\ disk \in Configs
        /\ cfg' = disk /\ todo' = DOMAIN disk
        /\ mainPc' = "apply"
  /\ UNCHANGED <<file, watched, queue, installed>>

(* Load what the file holds by now.  A file that does not parse is skipped;  *)
(* gates that are not in the registry are, too.                              *)
Reload ==
  /\ mainPc = "reload"
  /\ unseen' = FALSE
  /\ \/ disk \notin Configs /\ mainPc' = "wait" /\ UNCHANGED <<cfg, todo>>
     \/ /\ disk \in Configs
        /\ cfg' = disk /\ todo' = DOMAIN disk \cap DOMAIN installed
        /\ mainPc' = "apply"
  /\ UNCHANGED <<file, watched, queue, installed>>

(* SetAll of one gate. *)
Apply ==
  /\ mainPc = "apply"
  /\ \E g \in todo :
       /\ installed' = [installed EXCEPT ![g] = cfg[g]]
       /\ todo' = todo \ {g}
  /\ UNCHANGED <<file, watched, queue, mainPc, cfg, unseen>>

(* Wrong variant: the events that came meanwhile are thrown away. *)
AppliedDrains ==
  /\ mainPc = "apply" /\ todo = {}
  /\ mainPc' = "wait" /\ queue' = 0
  /\ UNCHANGED <<file, watched, cfg, todo, installed, unseen>>

Applied ==
  /\ mainPc = "apply" /\ todo = {}
  /\ mainPc' = "wait"
  /\ UNCHANGED <<file, watched, queue, cfg, todo, installed, unseen>>

(* A signal ends the process at once, wherever it is; it may be run again.   *)
Quit == mainPc # "exit" /\ Exit
RunAgain ==
  /\ mainPc = "exit"
  /\ mainPc' = "load"
  /\ UNCHANGED <<file, watched, queue, cfg, todo, installed, unseen>>

-----------------------------------------------------------------------------
Change == SaveBegins \/ SaveGoesOn \/ SaveEnds \/ Replace
Main == LoadFirst \/ StartGates \/ Watch
Watcher == Receive \/ Reload \/ Apply \/ Applied

WatcherNext == Change \/ Main \/ Watcher \/ Quit \/ RunAgain

WatcherSpec == WatcherInit /\ [][WatcherNext]_watcherVars

(* The program runs; files need not change, nor a process that ended return. *)
WatcherFairSpec == WatcherSpec /\ WF_watcherVars(Main) /\ WF_watcherVars(Watcher)

-----------------------------------------------------------------------------
WatcherTypeOK ==
  /\ disk \in Configs \cup {Broken, Absent}
  /\ writer \in Configs \cup {Absent} /\ saves \in 0..MaxSaves
  /\ watched \in BOOLEAN /\ queue \in Nat
  /\ mainPc \in {"load", "start", "watch", "wait", "reload", "apply", "exit"}
  /\ cfg \in Configs /\ installed \in Configs
  /\ todo \subseteq DOMAIN cfg \cap DOMAIN installed
  /\ unseen \in BOOLEAN

(* When the watcher has nothing to do, every gate has the list the file      *)
(* gives it, unless the file last changed before the watch began or by being *)
(* replaced: however many writes a save takes, and whatever was loaded in    *)
(* between, the last one is loaded again.                                    *)
InstalledIsCurrent ==
  mainPc = "wait" /\ queue = 0 /\ ~unseen /\ disk \in Configs
    => \A g \in DOMAIN disk \cap DOMAIN installed : installed[g] = disk[g]

Serves(v) == \A g \in DOMAIN v \cap DOMAIN installed : installed[g] = v[g]

(* A configuration that stays in the file, and was not missed, is served for *)
(* good as long as the process lives, also after a save that did not parse.  *)
EditsTakeEffect ==
  \A v \in Versions \cup WizardFiles :
    <>[](disk = v /\ ~unseen /\ mainPc # "exit") => <>[]Serves(v)
=============================================================================
