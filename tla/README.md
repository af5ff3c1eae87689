# lantun, specified

TLA+ specifications of lantun: a host exposes a local TCP or UDP service through
a QUIC connection (iroh), and clients reach it at a local address of their own.
The specifications are translated from `src/lantun-core` and `src/lantun-cli`; the transport (iroh and
quinn), tokio and the operating system's sockets are modelled from how that code
uses them and are marked external in `PROJECT.json`.

## 1. The system

| Component | Code | State it keeps | Operations | Interacts with |
|---|---|---|---|---|
| TCP forwarders | `net/tcp.rs` | two spawned tasks with a buffer each, a shared `last_active`, clones of `stop_rx`, the halves of a socket and of a QUIC stream | read, write, time out, stop, return | peers through the stream, the socket's other end, the tunnel through `stop_rx` and `local_connections` |
| UDP forwarders | `net/udp.rs` | as above; the client's forwarder shares its socket with the listener | receive or peek, send, time out, stop | as above |
| Host tunnel | `host.rs` | `is_open`, `running_props` (endpoint, `stop_tx`, map of clients), an accept loop that is never joined | `start`, accept loop, `handle_connection`, `disconnect_local_client_connection`, `stop`, `num_clients`, `num_active_connections` | the clients through QUIC, the service through sockets, the host forwarders by awaiting them |
| Client tunnel | `client.rs` | `is_connected`, `running_props` (endpoint, connection, `stop_tx`, `local_connections`), a listener task | `connect`, TCP and UDP listener, `disconnect_local_connection`, `disconnect` | the host through QUIC, applications through its listener, the client forwarders by awaiting them |
| Control messages | `common.rs` | none: one message per unidirectional stream | `send_packet`, `receive_packet` | pairs with the bidirectional streams by order alone |
| Registries | `lib.rs`, `host.rs`, `client.rs` | tunnels by secret (host), by address and protocol (client) | `create_tunnel`, lookups | configuration |
| Configuration, CLI | `lantun-cli` | a TOML file that all processes share and nothing locks; the copy of each process | load (and create), add, remove, list, save; start everything and join | registries, tunnels, other processes through the file and the local addresses |
| Clock | `utils.rs` | none | `now_secs`, from the wall clock | forwarders |

### What is hard, and what makes it correct

* **Four concurrent loops per TCP connection** (two on each side), each a `biased`
  select of stop, read and sleep, whose write is awaited *inside* the read arm,
  where neither stop nor sleep is polled. Correct when: bytes arrive in order and
  without loss or repetition; the end of a stream is shown only after all of it;
  no task sleeps past the idle timeout although its sibling moves the stamp it
  computed its sleep from; every task ends on a stop and when nothing comes any
  more; a panic happens only when someone else gave up.
* **Failure in pieces**: QUIC loses the connection, one side notices first; a
  socket's end vanishes; a forwarder panics (`unwrap` of a write) and either takes
  the process with it (release profile, `panic = "abort"`) or leaves its sibling
  behind (`try_join!`).
* **Streams that do not exist yet**: a QUIC stream is known to the peer by its
  first frame, the ConnReq that belongs to it travels on another stream.
* **Serial loops**: the accept loop awaits the handler of one client, the handler
  awaits one forwarder, the listener awaits one forwarder. Each wait must end for
  the next client or application to be served.
* **Restarts**: loops of an earlier `start()` or `connect()` are never joined and
  live on beside the new ones; the two processes crash independently.
* **A file without a lock**: every command reads the whole configuration, changes its
  copy and writes all of it back, in two steps (truncate, fill) that other
  processes, a full disk or a kill can come between. Correct when: commands that do
  not overlap change one tunnel each or nothing; and, unless two processes were writing
  at the same moment, no entry that is run loses its tunnel to another.
* **A run of many tunnels**: they start one by one while the tasks of the earlier ones
  may fail already, and the tasks of host tunnels never end. Correct when the run comes
  up whole or ends.
* **Two clocks**: `last_active` is the wall clock, cut to seconds and set by its owner;
  the sleeps are tokio's clock. Stamping and comparing are several steps each.
  Correct when no session is ended early and none is kept late, but for the rounding
  and for what the clock was set.
* **Flags that go stale**: `is_connected`, the map of clients, entries of
  `local_connections`.

`PROJECT.json` lists these hazards by line.

## 2. Modules

| Module | Role |
|---|---|
| `Pipe` | what one direction of a TCP connection promises: a prefix of what was sent, and an end only after all of it unless cut |
| `TcpRelay` | `net/tcp.rs`, both sides, with the stream and the sockets between them |
| `TcpRelayInv` | the inductive invariant of `TcpRelay`, in named parts |
| `TcpRelayProofs` | its theorems and their proofs |
| `PipeProofs` | the proof that each way of `TcpRelay` implements `Pipe` |
| `MCTcpRelay` | bounds for TLC |
| `Sessions` | what a tunnel promises applications: the service is connected to at most once for each, in order, under the address it came from |
| `Tunnel` | `host.rs` and `client.rs`: starts, connects, accept loop, handler, listener, stops, crashes |
| `TunnelInv` | the inductive invariants of `Tunnel`, in named parts |
| `TunnelProofs` | its safety theorems and their proofs |
| `SessionsProofs` | the proof that `Tunnel` implements `Sessions` |
| `MCTunnel` | bounds for TLC |
| `UdpRelay` | `net/udp.rs`, both sides, with the UDP listener of `client.rs` and the part of `host.rs` that runs the forwarder |
| `UdpRelayInv` | the inductive invariant of `UdpRelay`, and the one of the order of its bytes, in named parts |
| `UdpRelayProofs` | its safety theorems and their proofs |
| `PostProofs` | the proof that `UdpRelay` implements `Post` |
| `MCUdpRelay` | bounds for TLC |
| `Post` | what a UDP tunnel promises those who share it: what is shown was sent, in order, once, and to the one it was meant for; anything may be lost |
| `IdleClock` | `utils.rs` and the idle timeout of the loops in `net/`, clock reading by clock reading |
| `IdleClockProofs` | its theorems and their proofs |
| `MCIdleClock` | the symmetry of the two tasks, for TLC |
| `TunnelBook` | what the commands promise the owner of the configuration: each adds or removes one tunnel, or changes nothing |
| `Commands` | `main.rs`, `config.rs` and the registries: processes, the file, the run |
| `CommandsInv` | the inductive invariant of `Commands`, in named parts |
| `CommandsProofs` | its safety theorems, and the proof that calm commands implement `TunnelBook` |
| `MCCommands` | bounds for TLC |

`TcpRelay` and `Tunnel` look at the same program at two grains. In `Tunnel` a
forwarder is the state `"forward"` of the loop that awaits it, and what `Tunnel`
assumes of it (it ends when its side is stopped, when the connection is lost, or
when the other side has ended: `HostReleased`, `ClientReleased`) is what
`StopEnds` and `Reaped` show of `TcpRelay`. In the same way `Commands` knows of a
tunnel only how far it has come (`created`, `started`, `listening`, `ended`), and
`IdleClock` takes the idle timeout of `TcpRelay` and `UdpRelay` apart: there
`idle` counts ticks since the last stamp and a turn of the loop is one step.

Operators with an underscore in their name (`LoopTop_Adds`, `AcceptBi_Newest`)
are deliberately broken variants of the definition that follows them. Nothing
refers to them; putting one in the place of its original must make a property
fail, which is how each property is shown to be able to fail (`mutants` in
`PROJECT.json`).

### TcpRelay

A *hop* is one of six byte streams: application to client, up the QUIC stream,
host to service, and back. `data[h]` is all that was written to it, `rd[h]` how
much was read, `fin[h]` whether its writer closed it, `dropped[h]` whether its
reader is gone. Sent bytes are numbered, so order and loss show in values.
Each of the four tasks has a `pc` (`top` of the loop, in `select`, in `select`
with the read arm disabled by an error (`deaf`), in `write`, or why it ended),
the bytes it `held`, and the remaining sleep (`timer`). Each side has `idle` (time
since `last_active`), `stop`, and the `session` that awaits the two tasks.

| Action | Code |
|---|---|
| `LoopTop` | the timeout computed from `last_active` |
| `StopArm`, `ReadArm`, `EofArm`, `ReadError`, `SleepArm` | the select; `ReadArm` stamps before it writes; `ReadError` is the pattern `Ok(n)` failing, which disables the arm for this select |
| `WriteByte`, `WritePanics` | `write_all(..).await.unwrap()`, byte by byte |
| `Break`, `Abort` | what ends with a task: both halves are dropped, which closes one hop and asks the peer to stop on the other; or the process dies |
| `JoinReturns` | `try_join!` and the disconnect behind it |
| `HostAccepts`, `HostRefuses`, `HostAcceptFails` | the part of `handle_connection` around one forwarder |
| `SendStop`, `CloseLink` | `stop` and `disconnect`, before and after their first effect |
| `LoseLink` and its uses, `Send`, `Receive`, `Shut`, `Vanish`, `Tick` | the environment |

### Tunnel

A *generation* is one `start()` of the host tunnel, with its own endpoint
(`open`), stop channel (`stopped`), map (`clients`) and accept loop (`loop`, and
`cur`, the connection it handles). A *connection* is one `connect()` of a client
tunnel, with its own listener (`lis`), stop channel (`halted`), backlog (`queue`)
and `local_connections` (`local`). `connect()` builds an endpoint without a
secret key, so the host sees a fresh key every time: the connection stands for
the key. That is read off the code, not checked: the branch of the accept loop that
ignores a known key (host.rs:224) cannot be taken and is left out. `net[k]` is the set of sides that hold the
connection to be up. `streams`, `reqs` are what the client opened and sent, in
order; `shown` is how many of the streams have had a frame; `taken`, `got` are
what the handler accepted and received; `entry` is the one entry a client has in
the host's `local_connections` (the key is the unspecified address for all);
`served` is what the service saw. The parts of `connect`, `stop` and `disconnect`
before and after their awaits are actions of their own.

### UdpRelay

One client's UDP tunnel in the release build. All applications send to one socket,
`sock`; the listener peeks at it and opens a *session*, a QUIC stream, for the
sender of the first datagram, and the forwarder of that session peeks at the same
socket. `turn[s]` is the session side `s` is in or was in last, `parent[s]` the loop
that awaits its forwarder; the host may lag behind. A datagram is its sender, its
number and its size; a byte is those and its place. `data`, `rd`, `fin` and `dropped`
describe the streams as in `TcpRelay`. `wire` is the queue of the session's virtual
socket on the host, and `refused` the ICMP error that an unreachable service leaves
there: the next `send` or `recv` gets it, whichever comes first.

| Action | Code |
|---|---|
| `ListenerOpens`, `ListenerFails`, `ListenerStops` | client.rs:255-297; opening the stream and sending the ConnReq are one step here (they are two in `Tunnel`) |
| `HostAccepts`, `HostAcceptFails`, `JoinReturns` | handle_connection around `bi_udp_host`, and the end of both forwarders |
| `LoopTop`, `StopArm`, `SleepArm`, `EofArm`, `ReadFails` | the select; `SleepArm` needs the arm before it not to be ready, since the select is biased |
| `ClientTakes`, `ClientSkips` | `peek_from`, the comparison of the address, `recv` |
| `HostTakes`, `WriteOut`, `WritePanics` | `recv`, and `write_all(..).await.unwrap()`; a chunk is written when there is room for all of it, and its reader may take any part |
| `ClientDelivers`, `HostDelivers`, `HostSendPanics` | a read of the stream and the datagram sent of it |

### IdleClock

One side of a relayed connection, TCP or UDP: the loops are the same. Time is in
ticks, `Second` of them to a second. The wall clock shows `start + time`, set
`ahead` and `back` by what has accumulated; `now_secs` cuts it to whole seconds.
`last` is `last_active`, `acted` the time of the last stamp, which the code does not
know. `now[t]` is what task `t` last read of the clock, `wake[t]` when its sleep ends.

| Action | Code |
|---|---|
| `LoopTop`, `LoopLoads` | `now_secs()` and then `last_active.load()`, the difference, the sleep |
| `Reads`, `Stores`, `Writes` | the read arm: `now_secs()`, then `last_active.store()`, then `write_all` |
| `Wakes`, `Rechecks` | the sleep arm: `now_secs()`, then `load()` and the comparison |
| `Leaves` | every other way out of the loop |
| `Tick`, `SetClock` | time passes, the wall clock is set |

`Tick` waits for tasks that can go on: between the reading of a clock and its use
there is no await, and the model takes that as no time. `SetClock` does not wait.
A wall clock before 1970 panics in `now_secs` and is left out.

### Commands

A *process* is one call of `lantun`; it ends as the process does (`Ends`), and its
memory, tasks and sockets with it. `file` is the configuration file, `mem[p]` the copy
of a process, `tun[p]` its tunnels. A *place* is a local address with a protocol. The
two halves of `std::fs::write` are actions of their own; between them the file is
`Blank`. Each process writes from the start of the file, so if two write at a time the
end of the longer text may stay behind the shorter one (`Fills`, `Mixtures`): some last
entries of its lists follow the new ones, and the whole parses or not, which depends on
lengths that the model leaves open. With entries of one length the border of the shorter
text is a border of the longer one, and `[B,C]` over `[A,B,C,E]` parses as `[B,C,C,E]`.
If filling breaks off, the file does not parse, or it parses with fewer tables of the
list that is printed last: toml prints empty arrays before the tables (`Parts`). A text
that does not parse (`Garbled`) is modelled with its whole entries, since another writer
may leave some of them at the end of his. Two history variables say what the properties
except: `calm`, that no two editing commands overlapped and no save was cut off so far;
`torn`, that two processes were between the halves of a write at one time.

| Action | Code |
|---|---|
| `FindsNoFile`, `CreatesFile`, `Loads`, `LoadFails` | `load_config`; looking for the file and creating it are two steps |
| `Save` (a part of the next three), `Written`, `SaveCutOff` | `save_config` |
| `CreateHostTunnel`, `AddClientTunnel`, `RemoveTunnel`, `ListTunnels` | the arms of `main`, with their early returns |
| `CreateState` | `create_state` and both `create_tunnel` |
| `Starts`, `StartFails`, `JoinFails` | the two loops of the run, and `try_join_all` |
| `Binds`, `ListenerEnds` | what the listeners of client tunnels do meanwhile |
| `Call`, `Interrupted` | the user |

A remark on `Startable`: the tunnels of a registry start in the order of a hash map,
which is any order.

## 3. Runs

All runs set `CHECK_DEADLOCK FALSE`: a relayed connection ends, a process ends, time is
bounded, and so are the starts and connects of a tunnel.

| Run | Shows |
|---|---|
| `relay_abort` | release build; idle time, vanishing ends: `InOrder`, `EofIsComplete`, `NoOversleep`, `PanicHasCause`, `ImplementsPipes` |
| `relay_idle` | unwinding build, lost network, refusing service: the same promises about the end of a stream and panics, and `Reaped`: both sides come to an end |
| `relay_live` | stops at any moment: `StopEnds`, and `Delivery` until the relay gives up |
| `tunnel_safety` | crashes, restarts, losses, refusals: `PairedRequest`, `OneHandler`, `AttachedToCurrent`, `ServesInOrder` |
| `tunnel_live` | stops, disconnects, reconnects: `PairedRequest`, `StopDisconnects`, `DisconnectEnds`, `Connects`, `AppServed` |
| `udp_safety` | idle time, a service that comes and goes, datagrams longer than the buffer, an application with two sessions that are both answered: `RightAddress`, `PanicHasCause`, `ImplementsPost` |
| `udp_live` | silence, a lost connection and disconnects: `NoOversleep`, `PanicHasCause`, `Reaped`, `DisconnectEnds` |
| `commands` | three processes that edit, list or run, saves that are cut off: `Readable`, `NoneDropped`, `ImplementsBook`, `AllOrNothing` |
| `clock` | a clock that is set forward and back while two tasks stamp and compare: `EndsOnlyIdle`, `WakesInTime` |
| `relay_greeting`, `tunnel_panic`, `udp_blocked` | disagreements between the code and what is said of it, section 6 |

**Bounds.** The relay runs with a timeout of one tick, a buffer of two bytes and a
window of one byte, and one or two bytes from an end (in `relay_live` two from the
application, while the service only closes: with bytes both ways and stops the run
takes too long). A window smaller than the
buffer makes a write wait in its middle; two bytes make a partial read, a partial
write and a read that takes both; one tick separates "just stamped" from
"expired" while the sibling's stamp falls between. The theorems of section 5 are
about all values. The tunnel runs with two starts, two connects and two
applications: enough for an old generation beside a new one, for a listener that
still holds the address beside its successor, and for a second stream to be
paired wrongly. `tunnel_live` has one start (liveness is costly). All
have one client, which connects twice. The accept loop serves one client at a time
(section 6), so a second one waits: the safety properties are proved for any number
(section 5), and `Connects` is stated under `OthersLeave`, that the loops come back from
the other clients again and again. With one client that is always so, and what the run
shows is that the client's own earlier connection does not keep the loop.
Applications of one
client are interchangeable; the safety run uses that as a symmetry.
`UdpRelay` runs with two applications. In `udp_safety` the buffer is one byte and a
datagram has two, so it is cut; one application sends twice and the service
replies twice. The first session ends by the idle timeout, and the
application's second datagram opens another: the service sees and answers both, and the
host may still be in the first while the client is in the second. With one datagram or
one reply fewer that case is lost. `udp_live` has one
session of datagrams of one byte or none, the second application's among them, and no
replies: it is about who ends and who waits. Empty datagrams are in `udp_live` only (with
them `udp_safety` has three times the states and takes too long), and so is a connection
that fails by itself; the socket errors of an absent service are in `udp_safety` only. The host's `stop()` is in no
run of `UdpRelay`: the theorems are about every set of hazards, and the host's forwarder
ends by `Reaped` in any case.
`commands` has three processes: two that race and one that runs what they left, or two
that race about a file that is being created by the third. Two names and two places
give an entry that is taken and one that is not, and two entries of one name in the two
lists. Two client entries of one place, which `create_state` refuses, come about only
where two writes overlap: every copy is checked before it is written. The file is
absent at first or holds a host and a client tunnel of the same name; the secrets of
new entries are valid, of the wrong length, or no hex.
`clock` has a timeout of two seconds of two ticks each, time for two timeouts and a
remainder, and a clock that is set by one second in all, forward or back, at any
moment. Half a second is what rounding needs; the theorems are about all values.

**Fairness.** Weak fairness of each task loop, accept loop and listener: tokio
polls every ready task. Weak fairness of the second halves of `stop`,
`disconnect` and `connect`: a call that was made is carried through. Weak
fairness of noticing a lost peer (QUIC's idle timeout) and of time. In `Commands`,
fairness of a process that starts and joins its tunnels (`Runs`) and of a listener that
has to bind: `start()` and `connect()` return one way or the other. Starting,
stopping, sending, closing, vanishing, crashing, losing, calling, interrupting
and the end of a listener are never fair.
`TcpRelay` adds `ReaderFairness`, that the two ends read what reaches them:
without it `StopEnds` and `Reaped` are false, since a task in `write_all` polls nothing
else, and an end that keeps its socket open and never reads holds the task for ever.
`AppServed` assumes `Finishing` in its statement: each forwarder ends some time,
as it does when its application leaves or falls silent for the timeout.

## 4. What the model says about the code

* The forwarding loops keep the order of bytes and never show the end of a stream
  early, under every combination of partial write, timeout, stop, panic and loss.
  What they do not tell an end is *why* its stream ended: a timeout or a stop closes
  the socket like a regular end (`Pipe`'s `cut`).
* A failed read never ends a task. It is the idle sleep that does (`Reaped`), so a
  lost connection is let go of after the idle timeout only.
* Pairing streams and requests by order is sound because both loops are serial
  and a listener ends on the first failed send. `PairedRequest` would be at risk
  as soon as forwarders were spawned instead of awaited.
* One key for all local connections of a client is sound for the same reason.

* Sharing one UDP socket between listener and forwarders by peeking is sound as far
  as addresses go (`RightAddress`, `ImplementsPost`), because there is one reader at a time. For
  the same reason a second application brings everything to a halt (section 6).
* A UDP service that is away for a moment can end the host: the error of a lost
  datagram fails the `unwrap` of the next one, even if the service is back by then
  (`HostSendPanics`; `PanicHasCause` shows that nothing less does).

* Commands that load before another saves can lose each other's changes and, if they are
  killed, the file; they cannot make a run drop an entry (`NoneDropped`): host entries
  have fresh keys, and two client entries of one place stop the run (`Unusable`). Only two
  writes at the same moment can (section 6).
* `AllOrNothing` rests on `try_join_all`: `join_all` would wait for the host tunnels'
  tasks for ever. The price is that one refused bind ends every other tunnel of the
  process.
* The idle timeout survives a clock that is set back behind the stamp because the
  difference saturates (`Elapsed`); the session then lasts as much longer as the clock
  was set, which is what `WakesInTime` allows. A clock that is set forward by the
  timeout ends every session at once.

## 5. Proofs

### TcpRelay

`TcpRelayProofs` proves, for every timeout, buffer size, window, number of bytes,
set of hazards and panic strategy allowed by `RelayAssumption`:

| Theorem | States |
|---|---|
| `Invariance` | `Spec => []IInv` |
| `TypeCorrect` | `Spec => []TypeOK` |
| `ByteOrder` | `Spec => []InOrder` |
| `CompleteAtEof` | `Spec => []EofIsComplete` |
| `SleepBound` | `Spec => []NoOversleep` |
| `PanicsExplained` | `Spec => []PanicHasCause` |

None of the properties is inductive. `IInv` adds, as named parts:

* `Counts`, `Counting`: what was read of a hop is no more than was written, and the
  bytes of a hop are the numbers 1, 2, ... in order;
* `Accounted`: what a task's target has been given, followed by what the task holds,
  is what was read from its source. With `Counting` this is `InOrder`;
* `HeldWhileWriting`: a task holds bytes exactly while it writes;
* `Spawned`: tasks are unborn exactly while their session waits or has failed;
* `ClosedByEnding`: a QUIC stream is closed or dropped only by the end of the task
  that owns the half, by a refusal, or with a task that is gone;
* `EofIsFinal`, `CloseFollows`: a task that ended by end of stream saw its source
  closed and drained, and closed its own target behind everything it wrote. With
  `Accounted` this is `EofIsComplete`.

The proof goes one conjunct at a time. Lemmas state what every step does to a
hop (`ByteSteps`: nothing, append one byte, take a slice, or lose a tail),
`OtherSteps` and `TaskOutcomes` sort the actions by what they do to a task, and
one `...Step` lemma per part of `IInv` carries it through. TLC finds `IInv` true on the
bounds above; only `RelayAssumption` is assumed.

`PipeProofs` proves two more theorems of the same specification:

| Theorem | States |
|---|---|
| `SocketClosedWithTask` | `Spec => []ClosedWithTask` |
| `RelayIsTwoPipes` | `Spec => ImplementsPipes` |

A *way* is the near task, which reads the sending end, and the far task, which writes to
the receiving end (`Ways`). Under the mapping the state of a pipe is that of the two
outer hops and of how the two tasks ended, so `WayStep` has one disjunct per action of
`Pipe`: `Send`, `Close`, `Deliver`, `Cut`, `Finish`, or none. That each byte the far
task writes is the next one sent (`NextByte`) is `Counting` and `Accounted`. That a way
finishes only with everything delivered (`EofMeansAll`) is `EofIsFinal` and
`CloseFollows`, and it needs to know that nothing but the far task closes the receiving
socket, and that it does so whenever it ends: `ClosedWithTask`, the invariant that `IInv`
lacked. That a cut way stays cut (`CutStays`) is that a task that broke off never leaves
that state.

### UdpRelay

`UdpRelayProofs` and `PostProofs` prove, for every set of applications, every number of
sessions, sends and replies, every timeout, buffer, set of sizes and set of hazards
allowed by `UdpAssumption`:

| Theorem | States |
|---|---|
| `Invariance` | `Spec => []IInv` |
| `TypeCorrect` | `Spec => []TypeOK` |
| `RightAddresses` | `Spec => []RightAddress` |
| `SleepBound` | `Spec => []NoOversleep` |
| `PanicsExplained` | `Spec => []PanicHasCause` |
| `Ordered` | `Spec => []OrderInv` |
| `KeepsThePost` | `Spec => ImplementsPost` |

`IInv` adds:

* `Serial`: the host's session is never later than the client's, and a task runs only
  while its side's loop awaits it. Everything below speaks of "the session a side is
  in", which only this gives a meaning; it is what listener and handler owe to
  awaiting their forwarders instead of spawning them;
* `HeldWhileWriting`, `Reading`: as in `TcpRelay`; a task that goes on to its next
  session holds nothing of the last one;
* `Routed`: the sender of a byte at each station. `AtSockets`: what is at the socket of
  the client is of an application, what is at the virtual socket of the host is a reply
  to the host's session; `InHand`: what the client's writer holds is of the owner of its
  session, which is the comparison of the peeked address; `OnStreams` and `AtEnds`
  carry that through the tunnel. `RightAddress` is the last of them and is not inductive
  without the others;
* `GivenUp`: who closed a stream or stopped reading it has ended, for which reasons, or
  is at a later session. This is `PanicHasCause` for a write, seen from the stream;
* `Missed`: an error waits at the virtual socket only behind a datagram of the same
  session that the service was not shown. This is `PanicHasCause` for a send: the
  error of one session cannot reach the next, whose socket is another one.

`OrderInv` is about the order of bytes, and says it once for both ways. A *line* is what
must stay in order: upwards the datagrams of one application, downwards those of the
service, through all sessions. `Queued` (the sockets hold the datagrams of a line in the
order they were sent), `InOrder` (what the writer holds, what the stream of each session
carries, ascends and comes before what is still queued of its line; what an earlier
session's stream carries comes before that of a later one of the same line) and
`ShownWasRead` (what an end was shown ascends and was read from its stream). Only four
kinds of step move anything along a line: a datagram arrives at a socket (`SendMoves`),
is taken (`TakeMoves`), is written (`WriteMoves`), or is lost; the two ways share the
lemmas about them. `OrderPromises` draws from `OrderInv` what the actions of `Post` ask
for, `HostShows` and `ClientShows` show that a delivery is `ShowService` or `ShowApp`
(or a stutter, when nothing was delivered), and `PostSteps` that every other step is
one of the other actions or a stutter.

### Commands

`CommandsProofs` proves, for any number of processes and any set of commands, names,
places and secrets allowed by `CommandsAssumption`:

| Theorem | States |
|---|---|
| `Invariance` | `Spec => []IInv` |
| `TypeCorrect` | `Spec => []TypeOK` |
| `ReadableFile` | `Spec => []Readable` |
| `NoneReplaced` | `Spec => []NoneDropped` |
| `KeepsTheBook` | `Spec => ImplementsBook`, if the first file has no place twice in a list |

The assumption is about what is given: commands have the fields of their kind; the file
at first is absent, blank, garbled or a configuration in which no two host tunnels have
one secret; the secret that a process draws is none of those (a fresh key of iroh: 256
random bits). `KeepsTheBook` needs more of the first file, since `TunnelBook` starts
from a book that is in order: that it is there and parses or is absent, and that no list
has a place twice. `lantun` itself writes no other file, as long as the calls are calm.

* `OneWriter`: as long as no two processes wrote at one time (`torn`), the one that
  writes fills a file that is blank, so nothing of another's text is left behind it.
* `EachMade` is what `NoneDropped` rests on, and it is about all files and copies, as
  long as the file is not torn: in each of them no secret is repeated and every secret was
  drawn before. A process draws before it saves and ends after that (`Drawn`), so what it
  adds is new to any copy it could have, however old. That this survives broken saves is
  `PartsOf`: what they leave is the beginning of a list, if the file was blank, which is
  `OneWriter`. `Tunnels` says that what runs was opened from such a copy, and that
  `create_state` did not refuse it.
* `Alone`, `Whole`, `Apart`, `Current` hold while the commands are calm: one process at
  most has a copy that it may write back, the file is blank exactly while it is between
  the two halves of a write, never garbled and not torn, and what that process has read is
  what the file holds still. None of them can be proved without the others: `Current`
  would break if another process wrote, `Whole` if two did. `Whole` is `Readable`.
* For the refinement, `EachPlaced` says the same of places as `EachMade` of secrets. It
  is not a part of `IInv`, since a first file may not be so; `Apart` makes both hold of
  calm commands. An edit that is calm starts
  from the book (`EditsTheBook`), and its four forms (`AddsHost`, `AddsClient`,
  `DropsHost`, `DropsClient`) are the four actions of `TunnelBook` (`EditsAsBook`); every
  other calm step leaves the contents alone (`OtherStepsKeepContents`), the second
  half of a write because the mapping already counts what is being written as written;
  once the calls are not calm, `Spoil` allows everything.

The lists of the configuration are sequences; `InsertedAt`, `RemovedAt`, `Adding`,
`Removing` and `Heading` state what `InsertAt`, `RemoveAt` and `SubSeq` do to them, and
`CountDistinct` that a list without repetition has as many entries as elements. The
sort by name is not part of any theorem: wherever `Inserted` puts an entry, it is in the
list once.

### IdleClock

`IdleClockProofs` proves, for every timeout, length of a second, setting of the clock
and set of tasks allowed by `ClockAssumption`:

| Theorem | States |
|---|---|
| `TypeCorrect` | `Spec => []TypeOK` |
| `SleepsAreShort` | `Spec => []WakesInTime` |
| `IdleOnlyWhenIdle` | `Spec => EndsOnlyIdle` |

The inductive invariant adds `StampIsRecent` (the stamp is the wall clock of the moment
of the last stamp, but for a second and what the clock was set) and `ReadingIsFresh`
(what a task has read of the clock is of this very moment until it is used, since time
does not pass meanwhile). Without them neither property is inductive: a reading that
could be old would end a session early, a stamp that could be ahead would make a sleep
long. All that is used of the rounding is `Rounding`: `now_secs` is less than a second
behind the wall clock.

### Tunnel

`TunnelProofs` and `SessionsProofs` prove, for every set of clients and applications,
every number of starts and connects and every set of hazards allowed by
`TunnelAssumption`:

| Theorem | States |
|---|---|
| `TypeCorrect` | `Spec => []TypeOK` |
| `Handled` | `Spec => []OneHandler` |
| `Attached` | `Spec => []AttachedToCurrent` |
| `Paired` | `Spec => []PairedRequest` |
| `Implements` | `Spec => ServesInOrder` |

`PairedRequest` is where several parts meet, and it is not inductive for any of three
reasons: the request that is received must be that of the stream (`SentInOrder`, which
needs `InStep`: as long as the host hears the client, at most the newest stream has no
request yet); the host must have taken as many requests as streams (`OneByOne`, which
needs `HasConn`: a connection is never taken twice, not even when a handler failed
between the two counts); and what the client sends next must not move what was taken
(`Behind`). `AttachedToCurrent` needs `OpenIsCurrent` and `HasConn` for the moment a
client's handshake ends while the host stops. `NotYet` says that a connect() starts from
nothing. Every step but those of connect() and of the listener leaves the counts alone
(`TalksOn`, `CountedBy`), and the nine steps of an accept loop are of four kinds
(`LoopKinds`).

For the refinement, `SInv` adds where an application is (`WaitsOnce`, `OpenedOnce`,
`WaitsOrOpened`: in one backlog at one place, or given one stream) and `ServedAsked`:
what was served is a request before the one in hand. Then `AcceptApp` is `Open`,
`DialService` is `Serve` (`OpenImplements`, `ServeImplements`), and every other step
leaves both sequences alone (`SessionKinds`).

### What stays with TLC

Every invariant and every refinement that a run checks is also a theorem. The liveness
properties (`Reaped`, `StopEnds`, `Delivery`, `StopDisconnects`, `DisconnectEnds`,
`Connects`, `AppServed`, `AllOrNothing`) are model-checked only: the prover does not
reason about fairness and `ENABLED`. So are the three disagreements of section 6, which
are counterexamples.

## 6. Where the code and its descriptions part

Each of the first three is a run that TLC finds violated.

1. `relay_greeting`: the host connects to the service when the first byte of the
   application arrives, or when the client's side gives up. A service that speaks first,
   and an application that waits for it, wait for each other until the idle timeout
   (README.md:18): `ServiceReached`, that the host has taken the stream before the
   client's side times out, fails.
2. `tunnel_panic`: `disconnect()` unwraps a send whose receivers went with the
   listener (client.rs:348).
3. `udp_blocked`: a datagram of a second UDP application is left at the head of the
   shared socket; the comment in the branch of a failed `recv` leaves it to "the thread
   corresponding to the unknown IP" (udp.rs:255). There
   is none while the forwarder runs, and the forwarder runs for ever: its peek is always
   ready, so the biased select never reaches the sleep. Only `disconnect()` ends it.

Visible in the models without a run of their own:

* A second client is not answered while the first one stays (common.rs:89), though "A
  tunnel can have multiple connected clients" (host.rs:136): `Connects` fails with two
  clients if `OthersLeave` is dropped from it. The same holds for a second application of one
  client (host.rs:143): `AppServed` fails without `Finishing`.
* A single refused connection to the service leaves its client connected and unserved:
  `AppServed` fails with the hazard `"refuse"` (host.rs:115).
* `lantun remove` says that it takes "The secret of the tunnel" (main.rs:61); it compares
  names, and of several tunnels of one name it removes one, a host tunnel first.
* `enabled` of an entry (config.rs:48, 58) is written and never read: a run starts every
  entry.
* The greeting of (1) has a sequel: when the application's side times out, its dropped
  stream does reach the host, which connects to the service and writes the greeting to
  a stream whose reader is gone; the `unwrap` at tcp.rs:119 fails, and in the release
  profile the host process ends. `PanicHasCause` lists the timeout among the causes.
* `stop()` and `disconnect()` do not reach a forwarder that is in `write_all`
  (`StopEnds` needs `ReaderFairness`), against "Terminates all connections"
  (client.rs:337).
* In an unwinding build `try_join!` leaves the other task running behind a removed
  entry, against "closes all related streams and sockets" (host.rs:350); it ends by
  itself (`Reaped`).
* Two saves that overlap can leave a file that parses and holds one host tunnel twice;
  a run then replaces one by the other (host.rs:101), against "This value is unique for
  every existing HostTunnel" (host.rs:121). `NoneDropped` fails without `~torn`.
* The accept loop of a stopped tunnel spins (`AcceptNone`, `Continue`); its
  `JoinHandle` never completes.
* `tunnel_clients` never loses a key while its process lives, so `num_clients`
  counts the departed (host.rs:395); `DialRefused` leaves an `entry` that
  `num_active_connections` counts (common.rs:94).
* `is_running()` of a client tunnel stays true when the host is gone (common.rs:90).

## 7. Not modelled

`create_tunnel` over a tunnel that runs, `get_tunnel` and other calls that only a
program other than `lantun-cli` could make. A configuration file that was edited by
hand. An entry that is spliced from two, when a save breaks off in the middle of an entry
over another process's text; the lengths of texts. The branch that ignores a known client
(host.rs:224), since each connect draws a fresh key. The `unwrap` of `send_to` in the
client's UDP forwarder (udp.rs:213): a datagram to an application is taken to be sent.
A panic of `PublicKey::from_bytes` ends the process like an error of
`create_state` does (`Unusable`). The UDP forwarders of a
debug build, where a panic leaves a sibling task at the socket. Parsing, printing and serialisation: pure.
The bytes of control messages: a message is the address it carries. Stream and
connection flow control above one window per hop, the limit of concurrent QUIC
streams (100, never approached by serial loops), relays and hole punching: below
the interface the code uses. A wall clock before 1970, and a task that the scheduler delays between
reading the clock and using it by a time that matters.

## 8. Plan

1. `TcpRelay` with its proofs and the refinement of `Pipe`: done.
2. `Tunnel` with its proofs and the refinement of `Sessions`: done.
3. `UdpRelay` with its proofs and the refinement of `Post`: done.
4. `Commands` with its proofs and the refinement of `TunnelBook`: done.
5. `IdleClock` with its proofs: done.
6. What a step of `TcpRelay` may assume of `IdleClock`, and `Tunnel` of `TcpRelay`, is
   argued in section 2; a theorem that composes them would need one of the models to
   carry the state of the other.
7. `create_tunnel` over a running tunnel, and what becomes of the forwarders whose
   `stop_tx` is dropped: only if a program comes to call it.
