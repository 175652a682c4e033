# Proxy Centauri in TLA+

A verification development for Proxy Centauri, the reverse proxy in this repository: TLA+ models of
its concurrent core, TLC configurations that check them on small instances, and TLAPS proofs of what
matters most. Paths are relative to the repository root.

## 1. The system

One process serves several *jump gates*. A gate listens on one address, speaks HTTP, TCP or UDP, and
forwards to a list of *star systems* (backends). `cmd/centauri/main.go` reads `centauri.yml` and builds,
for each gate, one balancer, one PulseScan health checker and one gate of the right protocol.

```
             config watcher --SetAll--> PulseScan --SetBackends--> Balancer <--Next/Acquire/Release-- gate
                (fsnotify)             (5 s ticker)                                    (one goroutine per
                                            |                                       request/connection/datagram)
                                          ping --> backends <------------- traffic ---------'
   HTTP gate = FluxShield -> metrics middleware -> Stellar log -> ReverseProxy
   flush ticker (30 s) --> Store (SQLite), Oracle.Check;  Oracle ticker --> analyze --> API, Store
```

| Component | State | Operations | What is hard | What makes it correct |
|---|---|---|---|---|
| PulseScan `internal/health` | `all` (plain slice), `healthy` (sync.Map) | `check` on a ticker, `SetAll` from the watcher | the two run concurrently without a lock; pushes only on a change | the rotation is the listed, alive backends |
| LeastConn `internal/balancer` | list, a counter per address | `Next`, `Acquire`, `Release`, `SetBackends` | counters are added to outside the lock, while the map is replaced | a counter is the number of holders; the choice is a least-loaded backend |
| RoundRobin | list, atomic counter | `Next`, `SetBackends` | the counter survives list changes and wraps | even spread |
| Weighted | list with weight and tally | `init`, `Next`, `SetBackends` | bounded tallies, weights across list changes | no backend a call ahead of its share, nor far behind it |
| HTTP proxy `internal/proxy` | per request: the chosen address | `director`, `ModifyResponse`, `ErrorHandler` | which hook runs, and how often, on each path | every Acquire has one Release |
| Metrics middleware, Stellar log | gauge, counters, histogram; per request the status noted | two wrappers, each with its own response writer | panics, informational answers | the gauge counts what is active; the status recorded is the one sent |
| TCP tunnel `internal/tunnel` | per connection: backend, two copies | `handle` | half-close, resets, silent peers | the end of one side reaches the other, no early close, count given back |
| UDP tunnel | session map; socket, age, pump per session | `forward`, `pump`, `evict` | three kinds of goroutine on one session | one session per client, no leak, eviction |
| FluxShield `internal/ratelimit` | limiter per address | `Middleware`, `cleanup` | throwing a limiter away | nobody exceeds burst plus rate |
| Oracle, aggregator `internal/oracle` | `lastCall`, `lastSnaps` | `analyze` from two goroutines, `Check` | the lock is released during the API call; calls fail; the interval comes from one variable and the totals from another | a rate is that of the interval it is over and hides no request, calls keep their distance, and never stop |
| Collector `internal/metrics` | Prometheus registry | `InitGate`, `Snapshots`, `histogramP95` | interpolation at the bounds of buckets | the percentile is one |
| Store, signals endpoint | SQLite tables | `Flush`, `SaveSignal`, `ResolveSignal` | nothing reads a table back but the dashboard | not modelled |
| Config, watcher, main | gate registry, the watch | `Load`, `Watch`, callback | partial and replaced files, saves between Load and Watch, merged events | the gates serve what the file says |
| TLS, wizard | none that lasts | `AutoCert`; the dialogue | the wizard overwrites the file that is watched | the wizard's file is modelled in `ConfigWatcher`, the rest is not |

`PROJECT.json` lists the components with their status, the hazards of the code at the line where each
one bites with the properties that watch it, and the source lines of every definition.

## 2. Modules

| Module | Stands for | Built on |
|---|---|---|
| `PulseScan` | `check` and `SetAll` of one gate and the list they push | |
| `PulseScan_proofs` | theorems about it | `PulseScan`, `TLAPS` |
| `LeastConn` | operations of the least-connections balancer, no behaviour of its own | `Backends` |
| `LeastConn_proofs` | lemmas about its operations | `LeastConn`, `TLAPS` |
| `TcpTunnel` | a TCP gate over `LeastConn`, with PulseScan's pushes | `LeastConn` |
| `HttpGate` | an HTTP gate (proxy, metrics middleware, the log's wrapper) over `LeastConn` | `LeastConn` |
| `HttpGate_proofs` | theorems about it | `HttpGate`, `LeastConn_proofs` |
| `Balancer` | abstract: the contract of the `Balancer` interface | `Backends` |
| `RoundRobin`, `Weighted` | the other two balancers | `Backends` |
| `Router` | the balancer `NewFromConfig` builds, its callers, the refinement of `Balancer` | `RoundRobin`, `Weighted` |
| `Router_proofs` | theorems about all three | `Router`, `TLAPS` |
| `UdpTunnel` | a UDP gate | |
| `Tunnel_proofs` | theorems about the TCP and the UDP gate | `TcpTunnel`, `UdpTunnel`, `LeastConn_proofs` |
| `TokenBucket` | abstract: one bucket per address that lives for ever | |
| `FluxShield` | the rate limiter, the refinement of `TokenBucket` | |
| `FluxShield_proofs` | theorems about it | `FluxShield`, `TLAPS` |
| `Collector` | the series of the HTTP gates and `histogramP95`, no behaviour of its own | |
| `Oracle` | the Oracle, the aggregator, the flush goroutine | `Collector` |
| `Oracle_proofs` | theorems about both | `Oracle`, `TLAPS` |
| `ConfigWatcher` | the file, the start of main, the watcher and its callback | |
| `ConfigWatcher_proofs` | theorems about it | `ConfigWatcher`, `TLAPS` |
| `MCGate` | the parts of an HTTP gate on small instances | `FluxShield`, `Router`, `HttpGate` |
| `MCControl` | what runs beside the gates on small instances | `ConfigWatcher`, `Oracle` |
| other `MC*` | the small instances TLC checks | the module named |

Conventions. A step is one access to something another goroutine can see: a load or store of a map, a
field, an atomic, or a whole critical section when nothing in it can be observed halfway. A program
counter per goroutine (`ckPc`, `saPc`, `at`, `tun`, `stage`, `pc`, `evPc`, `mainPc`) says where it is. Variables
commented *history* are not in the code and guard nothing. Definitions under a comment that begins
*Wrong variant* are not used by any specification: each is the definition next to it with a plausible
mistake. Substituting it makes TLC report a violation of the property that `PROJECT.json` pairs with it
("mutants"), which shows that the property can fail.

### PulseScan
`all`, `healthy`, `backends` are `ps.all`, `ps.healthy` and the balancer's list. The ticker goroutine
runs `CheckBegin`, `CheckHeader` (the slice header is two words, so array and length may be of different
lists), then `CheckLoad`/`CheckPing` per address, then `CheckEnd`. `SetAll` runs its delete, mark
(Load and Store apart), assign, rebuild and push steps. Reading past an array yields any string (`Junk` or an
address). A memory fault would end the process and so the behaviour; there is no action for it.
Histories: `alone` says that the call or calls running now met no other one, `clean` that the last push came
from a call that was alone, `overlapped` that some check and some reload ever overlapped.

### LeastConn, TcpTunnel, HttpGate
`count[a]` is the sequence of counters made for address `a`: `SetBackends` appends one when an address
is listed that was not; a call that looked up an older one still adds to that one (`ptr`). `pending` is a writer
waiting at the RWMutex, which keeps new readers out; `removed` (history) holds the addresses that were ever taken out of the list. In `TcpTunnel`, `peer` is what the two ends have
done (open, FIN, reset), `copy` the two copying goroutines, and `told` whether CloseWrite has told an end that the other one is
finished (`StopCopy`: the copy returns, CloseWrite, `wg.Done`). In `HttpGate`, `stage` follows the request
through middleware, director, round trip and body; `ReverseProxy` is represented by which of the
proxy's hooks it calls on each path: headers arrive (`Headers`), the round trip fails (`RoundTripFails`),
or a 101 response passes `ModifyResponse` and then fails in the handler because the middlewares' response
writers have neither `Hijack` nor `Unwrap` (`Upgrade`, `UpgradeFails`). `over` counts the second releases.
`reply` is the status of a request three times: the one the wrappers noted (`noted`, for metrics and log), the one the client is told
(`told`) and the last one the proxy wrote (`meant`). The two wrappers, `statusWriter` of metrics and of logger, are the same code in the same
order, so one stands for both. `Hint` is an informational answer of the backend, `StatusImplied` the 200 that net/http writes when a body or an end
comes before a final status.

### Balancer, RoundRobin, Weighted, Router
The calls of `Next` hold a lock or make one atomic update, so a call is one step (`Pick`). `Router` picks the
algorithm in `RouterInit`. `installed` (history) is the list that was given last, which the balancer must answer from: it is the list of `Balancer`. The variables of the balancer that is not built hold those of an empty one.
`rrPicks` and `wPicks` record who answered since the last `SetBackends` (and the last wrap or zero of the tallies).
A weight belongs to an address: a list that names a backend twice gives both entries one weight, where the code takes weights by position.

### UdpTunnel
A session is named after the datagram whose goroutine created it. `Age` lets time pass for a session, `Tick` fixes
the set of sessions older than the cutoff, and `Touch` makes one young again; a session touched during
a round is not evicted in it unless `Visit` has already read its age. `icmp` is a pending
connection-refused error, consumed by the next read or write of the connected socket. The pump takes a reply (`Reply`), writes it to the client (`PassOn`, which may fail and
end it), and ends when its Read fails (`PumpEnds`).

### FluxShield
Time is a counter of ticks, a token `Cost` units and the rate `R` units per tick, so that fractional
tokens stay integers. `peers` is the map. `Level` is what a client finds: its tokens, or the full bucket it would be
given. A request reaches `Allow` in the tick in which it got its limiter.

### Collector, Oracle
`requests`, `buckets`, `samples` are what `Gather` returns: totals, cumulative bucket counts, sample counts, with the sample of zero seconds
that `InitGate` adds. `P95` is `histogramP95` as a fraction, `num / den`, so that nothing is rounded. The Oracle's two goroutines are `ticker`
(`Start`) and `flush` (main's flush, which calls `Check`). `Begin`, `Build`, `Decide`, `Answer` or `Fail` are the pieces of `analyze` between two
points where the lock is taken or released; the API call lies between `Decide` and `Answer`. `age` is `time.Since(lastCall)`: an age of `Interval` stands for that or longer, and
`Never`, one more, for the age of the zero time in which `lastCall` starts. `due` holds the ticks that wait in the tickers' channels, one each. `prev` and `interval` are what `analyze`
copies at its start; `lastSnaps` keeps the totals. The API is told rates: an entry of a snapshot has a rate as its two operands, `requests` over `per`, so that nothing is rounded.
Nothing increments `centauri_errors_total` in this code, so the error rate is zero and has no variable.
Histories: `atCall` holds the totals at the moment `lastCall` was set, `since` its copy of `analyze`, and `ended` in a snapshot the requests that ended since, that is in the interval
the rate is over; `met` says that another analysis stored its result during this one.

### ConfigWatcher
`disk` is the content under the name `centauri.yml`, `writer` the save in progress. `watched` says that the file of that name is the one
fsnotify watches: it becomes false when another file takes the name. `queue` counts Write events; the kernel may merge an event with one that
waits. `mainPc` is main until `Watch` returns and the watcher's goroutine after it. `installed` is the gate registry with the list each PulseScan was given last.
`Apply` is one call of `SetAll`, whose own steps are in `PulseScan`. `unseen` (history) says that the file changed after the last Load without
an event: between Load and Watch, or after it was replaced.

## 3. Runs

| Run | Instance and bounds | Shows |
|---|---|---|
| `pulsescan` | 2 backends, 3 lists (shrink, grow, replace), 2 reloads | type; `RotationMatchesHealth`, `MapTracksList`; `ReloadKeepsVerdicts`; `DeadLeaves`, `LiveReturns` |
| `pulsescan_removed` | the same, 1 reload | **violated**: `RemovedLeavesRotation` |
| `tcp_tunnel` | 2 connections, 2 backends, 1 replacement of the list | type; `CountsHolders`; `LeastLoaded`, `NoEarlyClose`; `EndPassedOn`, `EventuallyReleased`, `SetBackendsReturns` |
| `http_gate`, the proxy | 2 requests at a time, 2 backends, 2 replacements, 1 upgrade, 1 panic | type; `CountsAwaited` |
| ... the balancer | 3 backends, every weighting 0..4, 3 replacements, counter modulo 8 | type; `EvenSpread`; `TalliesAreDeviations`, `Smooth`, `Cycle`, `LoyalWeights`; `ImplementsBalancer` |
| ... the limiter | 2 addresses, rate 3/2, burst 3, idle 2, 7 ticks | type; `RateBound`; `ImplementsTokenBucket` |
| `http_in_flight` | no replacement, no upgrade | **violated**: `CountsInFlight` |
| `http_gauge` | the same | **violated**: `GaugeIsInFlight` |
| `http_status` | the same | **violated**: `StatusRecorded` |
| `router_weights` | the balancer of `http_gate` | **violated**: `ConfiguredWeightKept` |
| `udp_tunnel` | 3 datagrams of one client | type; `NoSocketLeak`; `Sticky`; `IdleEvicted` |
| `udp_pump` | the same | **violated**: `PumpLivesWithSession` |
| `control`, the file | 2 gates, 2 addresses, 3 versions and the wizard's files, 2 half-written contents, 4 changes of the file | type; `InstalledIsCurrent`; `EditsTakeEffect` |
| ... the Oracle | 1 HTTP gate and 1 gate without series, 2 finite buckets, 2 steps of traffic, interval of 2 ticks | type; `P95Share`, `NoRequestHidden`; `CallsAreSpaced`, `KeepsAsking` |
| `oracle_rate` | the same | **violated**: `RateOverLastInterval` |

Two runs have parts. The modules of a part share no variable with those of the others, so that their interleavings would show nothing: a behaviour
runs one part, and the others stay in one initial state.

Why the bounds are enough for the questions asked:

* *PulseScan*: a race needs one check and one reload, and a second reload shows what the first one left behind.
  Two addresses are enough to add, to keep and to remove at once. Verdicts flip without bound.
* *LeastConn users*: two connections give every race of look-up and add; one of the two backends comes and goes
  and the list may be empty. Connections repeat without bound, so the state after any number of them is covered.
* *Router*: lists of length 3, 2, 1 and 0. Eight is not a multiple of three, so the wrap of the counter
  falls in the middle of a rotation as 2^64 does. Weights are independent.
* *UdpTunnel*: clients share nothing but the evictor, so one client is enough. Three datagrams: one makes the session, one uses it while it is
  evicted, one makes its successor.
* *FluxShield*: seven ticks hold more than two idle periods. Requests and cleanups go on when time has come to its bound.
* *Oracle*: time saturates, so it runs for ever. Two steps of traffic, one of twenty fast requests and one slow request, put the percentile above and
  below the threshold in either order, and let requests end before, during and after an analysis. An interval of two ticks leaves one flush in between, and the two goroutines
  come due together.
* *ConfigWatcher*: four changes hold a save in several pieces followed by a replacement, or two saves around a load. The last write of a save is not counted, so a save always can end.

Deadlock is checked in every run, and none is found. In `udp_tunnel` every datagram ends, but eviction goes on for ever.

### Fairness
`FairSpec` asks only for what the scheduler and the clock give: goroutines that can run do run, tickers
tick, pings end (they have timeouts), a waiting writer gets an RWMutex that readers leave. Nothing is assumed of peers:
clients and backends may stay silent for ever, datagrams need not arrive, and a reload need not happen.
In `Oracle` each of the two goroutines runs: an API call ends, by its deadline of 30 seconds if by nothing else. Whether it answers is
left open, so `KeepsAsking` has two branches; that the ticker of the flush goes on is its premise. A tick is 30 seconds; steps other than an API call are assumed to take less, so `Tick` waits for them (`Settled`).
In `ConfigWatcher` main and the watcher run; nobody has to change a file, and a process that ended need not be started again.
`StopCopy` is fair only when the side it reads has ended: a copy blocked on a silent peer does not notice that the other one was reset. That a peer which is told of the end by CloseWrite answers it with its own is not assumed either: it is the premise of `EndPassedOn`.

### What the violated runs show

1. `pulsescan_removed`: a check reads `all`, a reload replaces it and pushes, the check sees one verdict change
   and pushes the old list. `SetAll` promises that removed addresses leave the balancer immediately
   (`internal/health/pulsescan.go:49-50`); here they stay until some verdict changes again, possibly for ever.
2. `http_in_flight`: `Release` runs in `ModifyResponse` (`internal/proxy/proxy.go:33`), when the headers are there; its comment
   (`internal/balancer/leastconn.go:59`) and `docs/SETUP.md:222` speak of the complete request. `CountsAwaited` states what is counted instead.
3. `router_weights`: a backend that goes down and returns has weight 1 (`internal/balancer/weighted.go:88`), although
   the weight "never changes after init" (line 8). `LoyalWeights` is what does hold.
4. `udp_pump`: one failing write to the client (`internal/tunnel/udp.go:110`) or one connection-refused error of a read (line 107) ends the reply pump of a session that
   lives on and, as long as the client keeps sending, is never evicted; the comment on line 102 says that the pump runs for the lifetime of the session.
5. `http_gauge`: the `Dec` at `internal/metrics/middleware.go:58` is not deferred, and the panic by which ReverseProxy ends a body that breaks off passes it by. The gauge is described as
   "Number of HTTP requests currently being proxied" (`internal/metrics/collector.go:33`) and "Requests currently in-flight" (`README.md:369`). `GaugeCorrect` shows that this is the only way.
6. `http_status`: `WriteHeader` (`internal/metrics/middleware.go:18-24`, and the same in the log) takes an informational status for the final one, and drops the real one. Line 11 speaks of
   "the status code written by the handler" and `README.md:408` of the "HTTP response status code". `StatusCorrect` shows that this is the only way.
7. `oracle_rate`: the interval is the time since `lastCall` (`internal/oracle/oracle.go:102`), which is the zero time before the first answer. `time.Since` then saturates at some 292 years, the
   guard against zero does not see it, and the first rates are all 0.00. Later ones count the requests that ended during an API call over an interval that begins after it. `GateSnapshot`
   calls the field "requests per second over the last interval" (`internal/oracle/aggregator.go:9`). What does hold is `NoRequestHidden`.

Two exceptions are in the properties of `ConfigWatcher`, by the history `unseen`: a file that is replaced by a rename, as many editors do, and a save between Load and Watch. `README.md:173`
says that the file "is hot-reloaded on save"; of these saves it is not.

## 4. Proofs
Every theorem holds for all values of the constants that satisfy the assumptions of the module it is
about (`ASSUME ...Assumption`); no finite instance is involved.

| Theorem | States | Beyond the module's assumptions |
|---|---|---|
| `PulseScan_proofs!TypeCorrect` | `Spec => []TypeOK` | |
| `PulseScan_proofs!RotationCorrect` | `Spec => []RotationMatchesHealth` | `DistinctLists`: no list names a backend twice |
| `PulseScan_proofs!MapCorrect` | `Spec => []MapTracksList` | |
| `PulseScan_proofs!VerdictsKept` | `Spec => ReloadKeepsVerdicts` | `DistinctLists` |
| `Tunnel_proofs!TypeCorrect` | `Spec => []TypeOK` | |
| `Tunnel_proofs!CountsCorrect` | `Spec => []CountsHolders` | |
| `Tunnel_proofs!AnswerLeastLoaded` | `Spec => LeastLoaded` | |
| `Tunnel_proofs!NoEarlyCloseCorrect` | `Spec => NoEarlyClose` | |
| `HttpGate_proofs!TypeCorrect` | `Spec => []TypeOK` | |
| `HttpGate_proofs!CountsCorrect` | `Spec => []CountsAwaited` | |
| `HttpGate_proofs!GaugeCorrect` | `Spec => [](aborted = 0 => GaugeIsInFlight)` | no handler has panicked |
| `HttpGate_proofs!StatusCorrect` | `Spec => [](\A p \in Conns : reply[p].noted # "1xx" => RightStatus(p))` | no informational answer came first |
| `HttpGate_proofs!AnswerLeastLoaded` | `Spec => LeastLoaded` | |
| `Tunnel_proofs!UdpTypeCorrect` | `UdpSpec => []UdpTypeOK` | |
| `Tunnel_proofs!SocketsOwned` | `UdpSpec => []NoSocketLeak` | |
| `Tunnel_proofs!StickyCorrect` | `UdpSpec => Sticky` | |
| `Router_proofs!TypeCorrect` | `RouterSpec => []RouterTypeOK` | |
| `Router_proofs!EvenSpreadCorrect` | `RouterSpec => []EvenSpread` | |
| `Router_proofs!TalliesCorrect` | `RouterSpec => []TalliesAreDeviations` | |
| `Router_proofs!SmoothCorrect` | `RouterSpec => []Smooth` | |
| `Router_proofs!CycleCorrect` | `RouterSpec => []Cycle` | |
| `Router_proofs!LoyalWeightsCorrect` | `RouterSpec => []LoyalWeights` | |
| `Router_proofs!BalancerImplemented` | `RouterSpec => ImplementsBalancer` | |
| `FluxShield_proofs!TypeCorrect` | `ShieldSpec => []ShieldTypeOK` | |
| `FluxShield_proofs!RateBounded` | `ShieldSpec => []RateBound` | `BurstRefills`, inside `RateBound`: an idle minute fills a bucket |
| `FluxShield_proofs!BucketImplemented` | `ShieldSpec => ImplementsTokenBucket` | `BurstRefills` |
| `Oracle_proofs!TypeCorrect` | `OracleSpec => []OracleTypeOK` | |
| `Oracle_proofs!PercentileCorrect` | `OracleSpec => []P95Share` | |
| `Oracle_proofs!RatesCorrect` | `OracleSpec => []NoRequestHidden` | |
| `Oracle_proofs!SpacedCorrect` | `OracleSpec => CallsAreSpaced` | |
| `ConfigWatcher_proofs!TypeCorrect` | `WatcherSpec => []WatcherTypeOK` | |
| `ConfigWatcher_proofs!InstalledCorrect` | `WatcherSpec => []InstalledIsCurrent` | |

**PulseScan.** `RotationMatchesHealth` speaks of two moments, at rest and right after a push, and says nothing of a
check halfway through the list, so it is not inductive. `CheckInv` adds what a check that is alone knows at every step:
it reads the list that is current, the verdict it has in hand is the one in the map, and its live list holds exactly the
alive addresses among those it has passed, `LiveBefore(all, ckI)`. It also keeps that a check that has seen no change so far
started from a list that matched, which is why a push may be skipped. `SetAllInv` says the same of a rebuild. For a call that is not
alone both say nothing: the theorem does not need the races to be harmless, only `clean` to be false after one.
`TypeInductive` is separate and holds for torn reads too.
`TrackInv` follows the map through the loops of an undisturbed `SetAll`: at position `saI` of the delete loop it holds the old list less the addresses
passed and not kept (`Deleting`), at position `saI` of the mark loop the kept addresses and the new ones passed (`Marking`). `KeepInv` adds the verdicts: until the
list is assigned, an old address with an entry is alive exactly if it is in the rotation, which `RotationMatchesHealth` gives at the start of the call.

**LeastConn and its users.** `LeastConn_proofs` shows, operation by operation, two invariants of the balancer and one fact about steps.
`LCInv` says which counters can exist: an address that was never removed has one counter, so a call that looked it up has that one
(`Pointers`), and an address without a counter was never chosen (`Addresses`). `KeepsSurplus` says that a step leaves the distance between
the counter of such an address and the number of its holders as it was: an addition moves both. `ScanInv` is the loop invariant of
`Next`: the best address so far is a listed one (`LeastLoaded` asks of every answer what the interface promises, `Answers`), and while nobody adds it is the first least-loaded one of those passed (`BestNext`). A gate
then decides what the distance is. For `TcpTunnel` it is zero. For `HttpGate` it is `-over[a]`, because only the second release of a failed
protocol switch adds without moving a holder (`AgainKept`); that there are at most `upgrades` of these needs `Due`, the second releases still
to come. `NoEarlyClose` needs `CopyInv`: what let a copy stop stays true. The assumption that the set of connections is finite is used for the cardinalities only.

**UdpTunnel.** The invariant names the owner of a session at each step: a session in the map, or in the
hands of a datagram, is stored and belongs to that client (`MapInv`, `CurInv`); a goroutine has a socket exactly from
Dial on (`DialInv`); the session `evict` closes is still in the map until it deletes it (`EvictInv`), which holds because `LoadOrStore` never
replaces a session and nobody but `evict` deletes one. `Sticky` is an action property: `SendIsSticky` proves it of one step from that invariant.

**Router, round robin.** Counts that differ by at most one are not inductive: a call could go to a backend that is one ahead. `Rounds` says which ones are:
there is a place `start` from which the calls went round, and exactly the places between it and the counter's next place (`Between`) have one call more. The counter moves
the remainder on by one, or from the last place to 0 (`NextRemainder`); when it reaches `start` a round is complete. A replacement keeps the counter, so `start` is wherever it stands;
a wrap begins at place 0 again.

**Router, weighted.** Sums over the list are a recursive function, and `SumsDef` shows that it has a solution; what is proved by induction over places (`SumAdd`,
`SumSingle`, `SumConstant`, `SumOfNats`) goes through `UpTo`, induction stated for a set. The invariant `WInv` says that
the tallies add up to 0 and that none is far from it (`Near`): each is above `-total`, and twice it is at most `total + (n-2)(total-1)`. One turn keeps this (`TurnKeepsNear`): the raised tallies
add up to the total, so the highest is positive and stays above `-total` when it pays; any other is at most the highest, and the rest, each above `-total`, bound the two
(`OthersBounded`). `WTallies` ties each tally to the history of calls. `WCycle` follows: when the calls reach the total, a tally is a multiple of the total above `-total`, so none is negative, and a sum of 0 makes
all 0, which starts the next cycle. `Smooth` is the bound of `Near`, read as calls. That a backend is never a whole call behind holds for up to three backends only: with the weights
1, 50, 3, 50, 1 the fourth falls 115/105 of a call behind, which is why the bound grows with the list.

**Router, the interface.** Both `Next` answer from the list (`RRAnswers`, `WAnswers`) and leave its addresses as they are; both `SetBackends` install the list they are given.
The list of `Balancer` is `installed`, what the last `SetBackends` was given. The invariant that the list in the balancer (`CurrentList`) is that one makes every
step one of `Balancer` or a stutter (`InterfaceStep`).

**FluxShield.** The argument is about `Level`, not about entries. A tick raises every level by the rate up to the
capacity (`TickLevel`), a request takes one token or changes nothing (`RequestCases`), and `cleanup` changes no level
(`CleanupLevel`): whoever was idle that long would find a full bucket anyway. The bound and the refinement
of `TokenBucket`, where nothing is ever evicted, both follow from these three lemmas. `BurstRefills` is needed by the third only. It says of a configuration
that `burst <= 60 * requests_per_second`, which the code does not check.

**HttpGate, the status.** `Noted` ties the three statuses of a reply together at every stage: nothing is told before something was written, and
what was noted first is what was passed on. `WriteHeaderNoted` shows that a write keeps it, whatever the code.

**Oracle.** The percentile needs only that bucket counts are cumulative and bounded by the number of samples (`Cumulative`, kept by every `Serve`). The first bucket
that reaches 95 % exists by well-foundedness (`FirstReached`), the target lies strictly above the count below it, and `Between` is the arithmetic: an
interpolated value lies above the lower and not above the upper bound of its bucket. `NoRequestHidden` compares two clocks: a rate counts from the totals `prev`, taken before the last
answered call, the interval from `lastCall`, set after it. The invariant says that the totals in `lastSnaps` never count a request that ended after `lastCall` was set (`Covered(lastSnaps, atCall)`),
that `Begin` copies the pair as one (`Covered(prev, since)`), and that a snapshot made of such a pair is `Sound`. It holds of overlapping analyses too, since whoever stores, in whatever order, sets `lastCall`
to now and `lastSnaps` to older totals. `Behind`, no total exceeds its counter, makes the subtraction exact: the guard against a counter reset is never needed.
`CallsAreSpaced` needs that a goroutine in a call decided on the snapshot it holds, and that the age only grows until somebody stores.

**ConfigWatcher.** `Applying` says that while the callback runs, every gate has its new list or is still to do; `InstalledIsCurrent` follows when
nothing is left, since a change of the file during the callback leaves an event in the queue. `Started` says that before the watch begins the configuration loaded is the file, unless a
change was missed, and `Phases` which variables are empty in which phase.

### What stays with TLC
Liveness (`DeadLeaves`, `LiveReturns`, `EventuallyReleased`, `EndPassedOn`, `SetBackendsReturns`,
`IdleEvicted`, `KeepsAsking`, `EditsTakeEffect`) rests on fairness, which TLAPS does not handle here.
Every other property of a passing run is a theorem, and so is the type invariant of every module a run checks.

## 5. Not modelled
* Data that no property is about: request and response contents, URLs and headers, log lines, the wording of the prompt, the changes of the rates in it, the text of a signal, TLS settings,
  the other settings of a configuration (a reload applies none of them), and the wizard's questions about them.
* The store and the endpoint of the signals: the program writes the tables `request_stats`, `events` and `threat_signals`, and only the dashboard reads them. A write that fails is logged.
* Restarts, but in `ConfigWatcher`: everything else a process keeps is in memory and starts over with it.
* The start of listeners in main: which handler a protocol gets is decided once and has no state. A listener that fails is only logged.
* The floating-point rounding of `histogramP95`: `0.95 * total` and the quotient are exact in the model. At a bucket bound a rounded result may fall on the other side.
* An overflow of the kernel's queue of file events, and events of a file system that reports none.
* A request that stalls for a minute between two statements of FluxShield.
* Overflow of the int64 connection counters and of the int weights and tallies.

## 6. Plan
Order: the path every request takes first (PulseScan and the balancers, then the gates, then the
limiter), the control plane after it.

1. *Done*: PulseScan, LeastConn, TcpTunnel, HttpGate with the recorded status, Router, UdpTunnel, FluxShield; Collector and Oracle; ConfigWatcher; the theorems of section 4.
2. *Left, model*: `ConfigWatcher` over `PulseScan` instead of over a one-step `SetAll`: a reload that meets a check is in `PulseScan` alone. Backends that are listed
   twice, which `RotationMatchesHealth` excludes.
3. *Left, prove*: the safety parts on which the liveness properties rest, such as that a goroutine that waits for a lock of `LeastConn` waits for a reader or writer that exists.
