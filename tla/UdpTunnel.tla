------------------------------ MODULE UdpTunnel ------------------------------
(***************************************************************************)
(* A UDP gate (internal/tunnel/udp.go).  Every datagram is forwarded by a  *)
(* goroutine of its own over the session of its client; the session map is *)
(* a sync.Map; each session has a reply pump; one goroutine evicts idle    *)
(* sessions.  A session is named after the datagram whose goroutine made   *)
(* it.  Each access to the map, to a session and to a socket is one step.  *)
(*                                                                         *)
(* Time: Age says that a session has not been used for longer than the     *)
(* idle limit; the cutoff of an eviction round is the set of sessions that *)
(* were so when the ticker fired.                                          *)
(***************************************************************************)
EXTENDS Naturals, FiniteSets

CONSTANTS Clients, NoSession,
          Dgrams,   \* the datagrams clients send
          From      \* the client of each

ASSUME FromAssumption == From \in [Dgrams -> Clients]
ASSUME NoSessionAssumption == NoSession \notin Dgrams

VARIABLES sessions,  \* t.sessions
          conn, pump, idle, \* of each session: socket, pump, age
          icmp,      \* a "port unreachable" error waits at the session's socket
          pc, cur,   \* forward: where it is, the session it found or made
          fate,      \* what became of each datagram
          evPc, evTodo, evSess, evOld  \* evict

sockVars == <<conn, pump, icmp>>
fwdVars == <<pc, cur, fate>>
evVars == <<evPc, evTodo, evSess>>
udpVars == <<sessions, sockVars, idle, fwdVars, evVars, evOld>>

UdpInit ==
  /\ sessions = [c \in Clients |-> NoSession]
  /\ conn = [s \in Dgrams |-> "none"]
  /\ pump = [s \in Dgrams |-> "none"] /\ icmp = [s \in Dgrams |-> FALSE]
  /\ idle = [s \in Dgrams |-> FALSE]
  /\ pc = [d \in Dgrams |-> "new"] /\ cur = [d \in Dgrams |-> NoSession]
  /\ fate = [d \in Dgrams |-> "none"]
  /\ evPc = "wait" /\ evTodo = {} /\ evSess = NoSession /\ evOld = {}

-----------------------------------------------------------------------------
(* The environment: time passes. *)
Age(s) ==
  /\ sessions[From[s]] = s /\ ~idle[s]
  /\ idle' = [idle EXCEPT ![s] = TRUE]
  /\ UNCHANGED <<sessions, sockVars, fwdVars, evVars, evOld>>

-----------------------------------------------------------------------------
(* forward *)
Goto(d, l) == pc' = [pc EXCEPT ![d] = l]
Ends(d, f) ==
  /\ Goto(d, "done") /\ fate' = [fate EXCEPT ![d] = f]
  /\ cur' = [cur EXCEPT ![d] = NoSession]

(* Listen reads the datagram and starts the goroutine, which looks the       *)
(* session up.                                                               *)
Load(d) ==
  /\ pc[d] = "new"
  /\ IF sessions[From[d]] = NoSession THEN Goto(d, "dial") ELSE Goto(d, "touch")
  /\ cur' = [cur EXCEPT ![d] = sessions[From[d]]]
  /\ UNCHANGED <<sessions, sockVars, idle, fate, evVars, evOld>>

(* Next returned "" or Dial failed: PulseScan may have emptied the list. *)
DropDatagram(d) ==
  /\ pc[d] = "dial"
  /\ Ends(d, "lost")
  /\ UNCHANGED <<sessions, sockVars, idle, evVars, evOld>>

(* A socket connected to the address Next answered. *)
Dial(d) ==
  /\ pc[d] = "dial"
  /\ conn' = [conn EXCEPT ![d] = "open"]
  /\ Goto(d, "store")
  /\ UNCHANGED <<sessions, pump, icmp, idle, cur, fate, evVars, evOld>>

(* Wrong variant: the goroutine that lost the race forgets v = actual. *)
ActualForgotten(d) == IF sessions[From[d]] = NoSession THEN d ELSE cur[d]
Actual(d) == IF sessions[From[d]] = NoSession THEN d ELSE sessions[From[d]]

(* Wrong variant: the loser keeps its connection open. *)
ExtraKept(d) == conn
ExtraClosed(d) == [conn EXCEPT ![d] = "closed"]

(* LoadOrStore: the first one starts the pump, any other closes its own      *)
(* connection and uses the stored session.                                   *)
Store(d) ==
  /\ pc[d] = "store"
  /\ Goto(d, "touch")
  /\ cur' = [cur EXCEPT ![d] = Actual(d)]
  /\ IF sessions[From[d]] = NoSession
       THEN /\ sessions' = [sessions EXCEPT ![From[d]] = d]
            /\ pump' = [pump EXCEPT ![d] = "running"]
            /\ UNCHANGED conn
       ELSE conn' = ExtraClosed(d) /\ UNCHANGED <<sessions, pump>>
  /\ UNCHANGED <<icmp, idle, fate, evVars, evOld>>

(* lastSeen = now *)
Touch(d) ==
  /\ pc[d] = "touch"
  /\ idle' = [idle EXCEPT ![cur[d]] = FALSE]
  /\ evOld' = evOld \ {cur[d]}
  /\ Goto(d, "write")
  /\ UNCHANGED <<sessions, sockVars, cur, fate, evVars>>

(* A write fails on a closed socket, or reports (and clears) the error an    *)
(* earlier one provoked; one to a closed port provokes such an error.        *)
Write(d) ==
  /\ pc[d] = "write"
  /\ LET s == cur[d]
     IN IF conn[s] = "closed" \/ icmp[s]
          THEN Ends(d, "lost") /\ icmp' = [icmp EXCEPT ![s] = FALSE]
          ELSE Ends(d, "sent") /\ \E unreachable \in BOOLEAN : icmp' = [icmp EXCEPT ![s] = unreachable]
  /\ UNCHANGED <<sessions, conn, pump, idle, evVars, evOld>>

-----------------------------------------------------------------------------
(* pump: Read returns a reply ... *)
Reply(s) ==
  /\ pump[s] = "running" /\ conn[s] = "open"
  /\ pump' = [pump EXCEPT ![s] = "reply"]
  /\ UNCHANGED <<sessions, conn, icmp, idle, fwdVars, evVars, evOld>>

(* ... which goes to the client; pump returns when WriteTo fails. *)
PassOn(s) ==
  /\ pump[s] = "reply"
  /\ \E failed \in BOOLEAN : pump' = [pump EXCEPT ![s] = IF failed THEN "done" ELSE "running"]
  /\ UNCHANGED <<sessions, conn, icmp, idle, fwdVars, evVars, evOld>>

(* It also returns when its Read fails: the socket was closed, or reports    *)
(* the error of a write.                                                     *)
PumpEnds(s) ==
  /\ pump[s] = "running" /\ (conn[s] = "closed" \/ icmp[s])
  /\ pump' = [pump EXCEPT ![s] = "done"]
  /\ icmp' = [icmp EXCEPT ![s] = FALSE]
  /\ UNCHANGED <<sessions, conn, idle, fwdVars, evVars, evOld>>

-----------------------------------------------------------------------------
(* evict *)
Tick ==
  /\ evPc = "wait"
  /\ evPc' = "range" /\ evTodo' = Clients
  /\ evOld' = {s \in Dgrams : idle[s]}
  /\ UNCHANGED <<sessions, sockVars, idle, fwdVars, evSess>>

(* Range visits a key; last := sess.lastSeen, compared with the cutoff. *)
Visit(c) ==
  /\ evPc = "range" /\ c \in evTodo
  /\ evTodo' = evTodo \ {c}
  /\ IF sessions[c] \in evOld
       THEN evPc' = "close" /\ evSess' = sessions[c]
       ELSE UNCHANGED <<evPc, evSess>>
  /\ UNCHANGED <<sessions, sockVars, idle, fwdVars, evOld>>

(* Wrong variant: the socket of an evicted session stays open. *)
CloseForgotten ==
  /\ evPc = "close"
  /\ evPc' = "delete"
  /\ UNCHANGED <<sessions, sockVars, idle, fwdVars, evTodo, evSess, evOld>>

(* sess.backendConn.Close(): what waited at the socket is gone ... *)
CloseSession ==
  /\ evPc = "close"
  /\ conn' = [conn EXCEPT ![evSess] = "closed"]
  /\ icmp' = [icmp EXCEPT ![evSess] = FALSE]
  /\ evPc' = "delete"
  /\ UNCHANGED <<sessions, pump, idle, fwdVars, evTodo, evSess, evOld>>

(* Wrong variant: a closed session stays in the map. *)
DeleteForgotten ==
  /\ evPc = "delete"
  /\ evPc' = "range" /\ evSess' = NoSession
  /\ UNCHANGED <<sessions, sockVars, idle, fwdVars, evTodo, evOld>>

(* ... then t.sessions.Delete(k). *)
Delete ==
  /\ evPc = "delete"
  /\ sessions' = [sessions EXCEPT ![From[evSess]] = NoSession]
  /\ evPc' = "range" /\ evSess' = NoSession
  /\ UNCHANGED <<sockVars, idle, fwdVars, evTodo, evOld>>

RoundEnds ==
  /\ evPc = "range" /\ evTodo = {}
  /\ evPc' = "wait" /\ evOld' = {}
  /\ UNCHANGED <<sessions, sockVars, idle, fwdVars, evTodo, evSess>>

-----------------------------------------------------------------------------
Forward(d) == Load(d) \/ DropDatagram(d) \/ Dial(d) \/ Store(d) \/ Touch(d) \/ Write(d)
Pump(s) == Reply(s) \/ PassOn(s) \/ PumpEnds(s)
Evict == Tick \/ (\E c \in Clients : Visit(c)) \/ CloseSession \/ Delete \/ RoundEnds

UdpNext == \/ Evict
           \/ \E d \in Dgrams : Age(d) \/ Forward(d) \/ Pump(d)

UdpSpec == UdpInit /\ [][UdpNext]_udpVars

(* Goroutines run, the ticker ticks and time passes; no backend owes a reply. *)
UdpFairSpec ==
  /\ UdpSpec
  /\ WF_udpVars(Evict)
  /\ \A d \in Dgrams : /\ WF_udpVars(pc[d] # "new" /\ Forward(d)) /\ WF_udpVars(Age(d))
                       /\ WF_udpVars(PassOn(d) \/ PumpEnds(d))

-----------------------------------------------------------------------------
UdpTypeOK ==
  /\ sessions \in [Clients -> Dgrams \cup {NoSession}]
  /\ conn \in [Dgrams -> {"none", "open", "closed"}]
  /\ pump \in [Dgrams -> {"none", "running", "reply", "done"}]
  /\ icmp \in [Dgrams -> BOOLEAN] /\ idle \in [Dgrams -> BOOLEAN]
  /\ pc \in [Dgrams -> {"new", "dial", "store", "touch", "write", "done"}]
  /\ cur \in [Dgrams -> Dgrams \cup {NoSession}]
  /\ \A d \in Dgrams : pc[d] \in {"touch", "write"} => cur[d] # NoSession
  /\ fate \in [Dgrams -> {"none", "sent", "lost"}]
  /\ evPc \in {"wait", "range", "close", "delete"}
  /\ evTodo \subseteq Clients /\ evOld \subseteq Dgrams
  /\ evSess \in Dgrams \cup {NoSession}
  /\ evPc \in {"close", "delete"} => evSess # NoSession

(* No socket leaks: an open backend socket belongs to the session in the map *)
(* or to a goroutine that has not tried to store it yet.                     *)
NoSocketLeak ==
  \A s \in Dgrams : conn[s] = "open" => sessions[From[s]] = s \/ pc[s] = "store"

(* Sticky sessions: a datagram leaves the gate, and a reply is taken, only   *)
(* through the socket of the client's current session, so two backends never *)
(* serve one client at the same time.  It is evict's closing before deleting *)
(* that gives this.                                                          *)
Sticky ==
  [][\A d \in Dgrams :
       /\ fate[d] = "none" /\ fate'[d] = "sent" => sessions[From[d]] = cur[d]
       /\ pump[d] = "running" /\ pump'[d] = "reply" => sessions[From[d]] = d]_udpVars

(* Nothing of a silent client stays: when it stops sending, its session is   *)
(* evicted for good, no socket of it is open and no pump of it runs, however *)
(* many of its datagrams raced to make a session.                            *)
IdleEvicted ==
  \A c \in Clients :
    LET mine == {d \in Dgrams : From[d] = c}
    IN <>[](\A d \in mine : pc[d] \in {"new", "done"}) =>
       <>[](sessions[c] = NoSession /\ \A d \in mine : conn[d] # "open" /\ pump[d] \in {"none", "done"})

(* The comment on pump says that it runs for the lifetime of the session.    *)
PumpLivesWithSession ==
  \A c \in Clients : LET s == sessions[c] IN
    s # NoSession => (conn[s] = "open" => pump[s] \in {"running", "reply"})
=============================================================================
