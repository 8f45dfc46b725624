# Verification of the elastic-agent v2 proof of concept

TLA+ modules, TLC runs and TLAPS proofs kept beside the Go code in `src/`.
Line numbers are those of the source; `PROJECT.json` maps every definition to
its lines, lists the hazards with the properties that watch them, and names for
every property a fault in the code's model that TLC finds through it.

## 1. The system

An *agent* starts a chain of *nodes*, each with one component: an input,
processors, a spooler, an output. A node is a process of its own; for
benchmarks all of a chain's nodes may also live in the agent's process. Every
node reads its connection information from stdin, opens two bidirectional gRPC
streams back to the agent (check-ins and actions) and serves or dials the gRPC
endpoint on which events pass from one node to the next.

| Part | State | Operations | Talks to | What is hard |
|---|---|---|---|---|
| **Actions**, agent side (`elastic-agent/server/server.go` 365-500, 616-642, 761-826) | `pendingActions` (channel of 100), `sentActions`, `actionsConn`, `actionsDone`, `actionsLock` | `PerformAction`, the handler of a stream and its three goroutines, expiry by the watchdog, `Destroy` | client, callers, watchdog | five goroutines move one action between four places; two bounded channels that their consumers refill; streams that break half-way |
| **Actions**, client side (`elastic-agent-sdk/pkg/control/client.go` 340-482) | `actionResults` (channel of 100), the stream | reconnect loop, receiver, sender, one goroutine per action | agent | results outlive streams |
| **Check-in**, agent side (`server.go` 252-363, 536-612, 700-759, 829-837) | expected state, configuration and index, observed status, `pendingExpected` (unbuffered), `checkinConn`, `checkinDone` | handler, sender, receiver of a stream; `UpdateConfig`, `Stop`, `Destroy` | client, callers | messages dropped when nobody waits for them; indexes given away under two locks; competing streams |
| **Check-in**, client side (`client.go` 126-330) | `cfgIdx`, `cfg`, `expected`, `observed` | reconnect loop, receiver, sender, `Status` | agent, runner | what is reported versus what is applied |
| **Status and watchdog** (`server.go` 655-744, 839-889) | status, message, payload, `statusTime` | `updateStatus`, `SetStatus`, the watchdog's round, `OnStatusChange` | receivers, handler of the agent | read under one lock and written under another; notifications outside the lock |
| **Registry and server life** (`server.go` 117-250, `pkg/utils/listener/listener.go`) | `apps`, the listener, the goroutines that serve, watch and wait for the context | `New`, `Run`, `Register`, `Get`, `FindByInputType` | managers, pipeline, handlers | a socket file that outlives its server or belongs to the next one; a server stopped before it is served |
| **Component runner** (`pkg/component/runner.go`) | configuration, receiver, sender, canceller | `Run`, `OnConfig`, `OnStop` | client, component | a first configuration that fails half-way |
| **Pipeline** (`elastic-agent/pipeline/*.go`) | nodes and their processes | validation, start from the tail, restart of a process that exits, in-process variants | registry, operating system | restarts with the token and the expectations of the process before; runners that are run twice |
| **Delivery** (`pkg/events`, `pkg/component/processor.go`, fake input, host processor, spooler, elasticsearch output) | batches in hand, the spooler's queue | `Send` and `Receive` of every hop, the two goroutines of input and spooler | next node | partial success of a batch; lost answers; shutdown |
| **Event** (`pkg/events/event.go`) | bytes, fields cut out of them, fields decoded | `Get`, `Put`, `PutEncoded`, `Delete`, `Contents`, `MarshalJSON` | components | three representations of one document |
| **Agent** (`elastic-agent/agent/*.go`) | the end component's channel and events | the managers of the run command and of the benchmarks, `quickStart`, `EndComponent` | server, pipeline, nodes | managers that follow each other in one process; a batch that may arrive before anybody waits for it |
| **Debug command** (`pkg/cmd/debug.go`, `pkg/debug/*.go`) | a controller that plays the agent, a receiver that logs | `RunE`, `SimpleController`, `LogReceiver` | the component's own client and runner | a pipe and a channel between goroutines of which each may wait for the other; one interrupt for all |
| **Commands, utilities** | none | flags, TLS options, URLs, JSON | all | see section 8 |

What makes each correct, in a sentence: an action is executed at most once and
its caller hears exactly once; an application comes to run with the
configuration the agent expects, is told to stop, and has one stream at a time;
the status the agent holds is one that was reported or earned by silence, and
the handler hears of it; a batch is delivered in order, what is reported as
sent is in the queue and what leaves the queue was answered for; a node gets
over what failed, reports the configuration it runs with and stops for good
when it is told to; an event is one document however far it has been decoded;
a server that starts alone keeps its socket, is there when it is served and
shuts down; a debug session configures its component once and ends when it is
interrupted.

Nothing of the agent is persisted; the spooler's queue on disk is libbeat's.
Crashes are those of processes, which the agent executes again, and broken
streams. `PerformAction`, `UpdateConfig`, `Stop`, `Destroy` and `SetStatus` are
the public interface of the server and have no caller in the repository; the
models let any number of threads call them at any time, which is what a public
method must stand.

## 2. Modules

```
ControlStream            what the code relies on of a gRPC stream (external)
 +- ActionWire           messages of the Actions stream
 |   +- ActionServer     server.go: PerformAction, handler, sender, receiver, watchdog, Destroy
 |   +- ActionClient     client.go: startActions
 |       Actions         the two composed; properties, fairness
 |       |   INSTANCE ActionCall       what PerformAction promises, no stream in it
 |       +- MCActions
 |       +- ActionsProof
 +- CheckinWire          messages of the Checkin stream
     +- CheckinServer    server.go: handler, sender, receiver, UpdateConfig, Stop, Destroy
     +- CheckinClient    client.go: startCheckin, Status
         Checkin         the two composed; properties, fairness
         |   INSTANCE Instructions     what an application takes, no stream in it
         +- MCCheckin, CheckinProof
StatusWatch              server.go: the status record, the watchdog, SetStatus
 +- MCStatusWatch, WatchProof
Hop                      a call of Events.Send through a processor
 +- FakeInput            the input's two goroutines
 +- BulkOutput           Receive of the elasticsearch output
     +- Spooler          Receive, the consumer, restarts; libbeat's queue (external)
         Delivery        FakeInput and Spooler composed
         |   INSTANCE Custody          events that are taken, held and let go
         +- DeliveryProof
Pipeline                 which chains are accepted, what their nodes are told
 +- Runner               runner.go and events.Receiver: OnConfig step by step
     +- Nodes            start, exec, exit and restart of a chain's nodes
         +- MCNodes, NodesProof
AgentServer              listener.New, Server.Run and its goroutines, Register
 +- Bench                the managers, their chain and EndComponent
     +- BenchProof
CheckinClient            (above)
 +- Debug                the debug command: controller, receiver, runner, one interrupt
     |   INSTANCE Instructions         as of the agent's check-in
     +- DebugProof
EventDoc                 event.go as operators on one event
 +- Journey              one event through the components of a chain
     |   INSTANCE Document             the eager document an event stands for
     +- MCJourney, JourneyProof
```

An action of a module is what a goroutine does from one point where others can
interfere to the next: a channel operation, the acquisition of a lock, a `Send`
or `Recv`, a timer. A lock that is held over no such point does not appear;
`actionsLock`, which the sender holds over `Send` until the action is recorded,
does (`actionsLock`, `LockFree`), and so does the read lock under which
`SetStatus` writes (`ReadLocked`). A definition called `Bad...` is a faulty
variant of the next one, used only to show that a property can fail.

**ControlStream.** `link`, `up` and `down` of every stream. Delivery is in
order and without duplicates. A broken stream may deliver what was sent, or
lose it (the receiver that fails empties the direction it reads), and `Send`
on it fails or is accepted and lost. The client opens the streams of `Stream`
one after the other, so `Stream` bounds the reconnections.

**ActionServer / ActionClient.** An action is its caller (`Call`), because
`PerformAction` makes one action with a fresh id per call. `call[c]` is where
the caller is: before the push, blocked on the channel (`pushing`), blocked on
`resChan` (`waiting`), returned. `sender[s]` is `select` at the loop's select,
`holding` between taking an action and `Send`, `sent` between `Send` and the
entry in `sentActions`, `requeue` while it puts the action back. Time is
`Expire`: a call's `expiresOn` passes at any moment after it began. A round of
the watchdog uses the `now` it took when it began (`wdNow`). Names, parameters
and results of actions are reduced to success or failure.

**CheckinServer / CheckinClient.** Configurations are model values, and
`expectedConfigIdx` is what the server compares a client's index with. It counts
the updates, until a client that has an index connects: then the server expects
the index after the client's (`ForceReload`, server.go 306-310), and that may be
one it gave away before. Two observers follow this: `wanted`, the configurations
that were expected, each with its index, and `spent`, the last index before a
reload took it back. A sender is *parked* when it waits in its
select; `sendExpectedState` hands over to a parked sender or drops the message
(`Try`), except for the reply to a stream's first check-in, for which the
handler waits (`HandlerOffer`). `UpdateConfig` has two locks and hence the
steps `UpdateRead`, `UpdateCommit`, `UpdateTry`. The client's check-in timer is
"the server has read what I sent, so another may be due" (`Due`), which bounds
the check-ins on their way. `ClientExit` is the process that ends and is
executed again by the agent with the same token.

**StatusWatch.** Times are ages in ticks. `SetStatus` writes status and message
in two steps, `SetStatus` and `SetMessage`, because calls share the read lock
(server.go 678); the observer `crossed` says that one began while another was
between the two, and that nobody who has the lock to himself has written since.
A round of the watchdog is `WatchBegin` (takes `now`), `WatchRead` (under the
read lock), `WatchMark` (under the write lock), `WatchNotify`. `recv[r]` is a
receiver between the release of the lock and its call of `OnStatusChange`.
`silence` is an observer variable: ticks since the last check-in, which `age`,
the age of `statusTime`, is not, because the watchdog sets `statusTime` too.

**Delivery.** Events are numbered in the order the input makes them. A call of
`Send` by the input is one element of `Call`: the processor answers it within
the same context it sends on with, so a single context covers both hops, and a
handler whose context is done (`gone`) goes on until it looks at it, before the
next event. `log` is the queue: `freed` and `read` are the consumer's positions
in it, `acked` the positions whose batch was ACKed. `Offer` is the consumer's
`Send` with its outcomes: an answer with some ids, with none, an error before
or after Elasticsearch executed the request. What the queue does is libbeat's
and taken from how the spooler uses it: `Publish` waits for space, what is ACKed
from the front is freed, a restart reads again what is not freed and may lose
what had not been flushed.

**Nodes.** A component is the two interfaces the code asks it for
(`[receiver |-> , sender |-> ]`); `NewPipeline` is the code's validation over
such chains. `applying[n]` is the step at which `OnConfig` is; `given` is the
index the client reports (`cfgIdx`), `cfg` the index of the configuration the
runner has kept. `due[n]` says that the server expects another index than the
client has, so that the configuration comes: to begin with, after
`UpdateConfig`, and whenever the client connects again, in a new process
(`Again`), with a runner that is run again (`InsideAgain`) or on a new stream
(`Reconnect`). In the last two the client still has an index, the server makes
it load the configuration again, and `OnConfig` runs a second time with what it
had. `proc[n]` is the process, or the goroutine that calls `Run`
in the agent. `receiver[n]` is the endpoint: `opened` listens and does not
serve yet, `doomed` is one whose context was done before it served, which the
code closes through a nil server.

**AgentServer / Bench.** `Session` k is one manager with its server, in a
process in which the sessions follow each other; all servers listen on the same
unix socket. `file` is whose socket is at the path, `listening` which listeners
are open, and the two may differ: closing a listener takes away whatever is at
the path, and a process that was killed may have left a file (`Stale`).
`listener.New` is `ListenStat`, `ListenRemove`, `ListenBind`, `ListenChmod`.
`Run` leaves three goroutines behind: `Serve`, which looks `s.server` up when it
runs; the watchdog, of which only the end matters here; and `Closing`, which
waits for the context, calls `Stop`, sets the server to nil and waits for the
watchdog. `Register` is lookup and store, with the nodes registered from the
tail. `main[k]` is where the manager is. Its mode is `direct` or `inside` (the
benchmarks' managers) or `process` (the run command's, which waits for an
interrupt). A node is as many steps as others can see (`dialing` to `ready`);
its details are those of Checkin and Nodes. `recv` is `EndComponent.Receive`
against `Done`: the meeting at the channel, then the events are stored.
`crashed` records how the process ended: that a server was served after it was
set to nil, that the host processor was called before its sender was dialled, or
by `Exit`: the run command's process ends when `Manager.Run` has returned
(cmd/run.go 40-44, main.go), wherever the other goroutines are, and that of the
benchmarks some time after the last of them.

**Debug.** One process: `command` is where `RunE` is, `writer` the goroutine
that writes the connection information into the pipe and then its error into
`errChan`, `serve` and `endpoint` the goroutines of controller and receiver,
`handler[s]` the controller's side of a check-in stream. The client is
`CheckinClient`, the same that faces the real agent in Checkin. `Interrupt` may
come at any step, `Break` breaks a stream, and `ConfigFails` is a component that
refuses its configuration. `PerformAction` is a single step because the first
action ends the process: `sentActions` is never made (`debug/control.go` 160).

**EventDoc / Journey.** A document is a function from keys to values; encoded
values are model strings and `Decode` says what a value becomes when it is
decoded and encoded again, which need not be the value itself ("wide", an
integer a float64 rounds; "null", which becomes nothing). `parsed` and
`decoded` are the two maps of `Event`. `Journey` takes one event through the
components of a chain, over the wire, directly, or with `EncodeSend`; it
records the last `call` and the document `out` that the output makes.

**Abstract specifications.** Four modules without streams, goroutines or
processes say what a component promises, and the detailed modules implement
them, checked by a run and proved.

- `ActionCall`: a call returns once, was executed at most once, and its outcome
  is not invented.
- `Instructions`: an application is given an index with a configuration that was
  wanted under that index (`given`), runs with it from some later step on, and is
  told to stop only when it is to stop, after which it takes nothing. It may miss
  configurations. Checkin implements it with the observer `wanted`, to which
  `UpdateConfig` and a forced reload add the pair they make expected; the debug
  controller implements it too, with the one configuration it has. That an index
  has one configuration is not part of it, because the code does not promise
  that: it is `Agreement`.
- `Custody`: an event is taken once, reported only when it was taken, offered
  only while it is held, gets one document, and is let go when it was answered
  for or was lost. In Delivery what is held is what lies in the queue.
- `Document`: a map that is written key by key, in which only reading changes a
  value, to what it decodes to.

## 3. Runs

| Run | Instance | Question | Outcome |
|---|---|---|---|
| ActionsSafe | 1 call, 2 streams, channels of 1, Destroy | `HeldOnce`: a waiting action is in exactly one place, an answered one in none; `AnsweredOnce`; `OneStream`; `ExecutedOnce` over retried sends and reconnections; `NoAnswerDropped` | holds |
| ActionsLive | 2 calls, one of an action the client does not know, 1 stream, room for both, no Destroy | every call returns, by timers and watchdog alone; both ends leave a broken stream; the protocol implements `ActionCall` (`KeepsPromise`) | holds |
| CheckinSafe | 2 streams, 2 updates, clients that reconnect with and without a configuration, Destroy or Stop, restarts | `OneStream`; `Agreement`: a client at the expected index has the expected configuration, whatever two updates do to each other, unless a reload took the index back and it has not passed the old one since; the protocol implements `Instructions` (`Obeys`) | holds |
| CheckinLive | new client or configured service, an update or Stop | a connected client comes to run with what is expected; it is told to stop | holds |
| CheckinOffer | 1 stream, 1 update | a broken stream lets go | **fails**: the handler waits for a sender that ended |
| WatchTimed | 2 receivers, 3 SetStatus that may cross, rounds of up to 2 ticks | `Whole`: only two calls of SetStatus that write at once leave a message that is not the status's, and the next writer mends it; who falls silent is FAILED and the handler knows; nobody is who checked in within a timeout less a round | holds |
| Delivery | 3 events in batches of 2, a queue of 2, one event refusable, one malformed, 1 restart | nothing spooled twice, out of order, freed unanswered or reported and missing; the pipeline implements `Custody` (`KeepsCustody`); the stopped input ends; a full queue gets space | holds |
| DeliveryUnsent | 2 events | what was reported unsent is kept | **fails**: a batch of which one event was sent is ACKed whole |
| Nodes | 3 nodes, 4 configurations of which 1 is refused and 1 unreadable, 1 fault (a death, a socket that cannot be opened, an early call, a stream that breaks) | accepted chains load; what a process reports is applied; a configured process is equipped; a process that was told to stop runs no further and takes no configuration (`ProcessStopIsFinal`); processes settle; a runner in the agent's process that has not been configured yet is, however often it failed and is run again (`StartsOver`) | holds |
| Journey | 5 keys, 8 values, 2 edits, 3 chains over the wire, 4 in the agent | `Get` finds what would be sent; the three forms implement `Document` | holds |
| Bench | 2 managers in every combination of modes, an empty path or the file of a killed process | `ServerThere`: no server of a benchmark is served after it is gone; `AloneKeepsSocket`: a session that begins alone starts, and the socket at the path is its own; `AloneReturns`: it ends; `ShutsDown`: so does every server of a benchmark, whose process goes on | holds |
| Debug | 2 streams one after the other, a component that sends or does not | `ConfiguredOnce`: one `OnConfig`, with the debug configuration; `Configured`: it comes, on one stream or the next; `InterruptEnds`: an interrupt at any step ends the command; the session implements `Instructions` (`Obeys`) | holds |

The runs that fail are the findings of `PROJECT.json`, each with the line of
the source that says otherwise.

The type invariant of every module is proved (section 5), and no run repeats it.

Six more configurations are kept for use by hand; the comment at the head of
each names its variants. Except for `DeliveryDrops`, each ends with a behaviour
that a comment, a message or a document of the repository rules out, or that
shows why a run above has the assumption it has.

| Configuration | Shows |
|---|---|
| ActionsFull | no client, a channel of 1: the watchdog drains `pendingActions`, a caller fills it, and putting back an action that has not expired blocks the watchdog for good (`server.go` 793 against 773). Variants: `Destroy` racing with `PerformAction` leaves a call that never returns; the client's sender blocks on the channel it puts its own response back into; the first reader of a stream that timed out is leaked ("go func will not be leaked", 377) |
| CheckinCollide | a client with a configuration that reconnects takes the index back (309 against 306-307 and 698), so that one index stands for two configurations: `Agree`, which is `Agreement` without its exception, and is refuted in CheckinSafe's instance too. Variants: `Stop` returns nil for a client whose connection was lost and that was never told; a check-in names a configuration that `OnConfig` is still applying; the reply to a first check-in is overtaken by an update, and the client goes back to the older configuration until its next check-in (`NeverBack`) |
| WatchRace | "Missed last check-in" (873) of an application whose check-in arrived between the two locks (858). Variants: the promise of `control.proto` 113 of FAILED within the timeout; `OnStatusChange` calls that overtake each other; an application that reports DEGRADED and misses one check-in is FAILED for two; two `SetStatus` tear the record (`NeverTorn`) |
| DeliveryDrops | the same as Delivery with an event the processor drops and a queue of 1: holds |
| NodesInside | a runner in the agent's process that is run again reports an index it has not applied (control.proto:27). Variants: a context that is done before the receiver serves crashes the agent (receive.go:115); a runner that failed once and is told to stop is run again, because the error stays in `r.err` (`StopIsFinal`, runner.go:86); a runner that failed to reload has lost its receiver for good, although the same configuration is sent to it again (`EquippedOnceConfigured`, runner.go:100-127). With processes instead: a component's `Receive` before its `Run` (spooler.go:72, processor.go:74); a process that was told to stop is executed again (server.go:537) |
| JourneyDirect | the input-host-spooler-output chain in the agent's process: `Contents` leaves out what `PutEncoded` put (event.go:120). Variant: `PutEncoded` for a key that was decoded or put; the decoded value shadows it and the write is lost (event.go:140) |

The cfg of `DeliveryUnsent` names two more variants: a batch the output returned
an error for is not sent again by this process (output.go:104), and the last
batch of a stopped input is not sent (input.go:101). Two other listed runs have
invariants to try by hand as well; each is refuted in the run's own instance.

| Configuration | Invariant | What refutes it |
|---|---|---|
| Bench | `SessionsSucceed` | the server before removes the socket's file between the next one's `Stat` and `Remove`, or before its `Chmod` (listener.go 38-53) |
| Bench | `ServerAlwaysThere` | the agent is interrupted before the goroutine that serves has run, and this finds a nil server (server.go 158, 175) |
| Bench | `StoppedBeforeExit` | the agent's process is over before the goroutine that waits for the context has stopped its server (cmd/run.go 40-44, server.go 169-179): the socket's file and the connections are left to the system |
| Bench | `NoEarlyCall`, `ResultHosted` | quick sends while the host processor listens and has not been run (runner.go 93-113): it has no client, or passes the batch on as it is |
| Bench | `DoneHasEvents` | `Done` returns between `Receive`'s signal and its store (end.go 55-57) |
| Debug | `InterruptIsHandled` | the context is done before the receiver serves (receive.go 106) |
| Debug | `NoActionCrash` | the first action is written into a nil map (debug/control.go 160); the debug command itself never calls `PerformAction`, only a program of its own that uses the controller could |

*Bounds.* Channels of capacity one or two stand for capacity 100: what matters
is full, not full and empty. ActionsSafe has channels of one, which its call
fills; ActionsLive has room for as many results as there are calls, for without
it the client's receiver waits on the channel that its own sender empties
(`client.go` 468; ActionsFull shows that end). One call hides what two do to
each other, and for that there are the proofs: every invariant of ActionsSafe
is proved for any number of calls. Two streams are enough for the two that
compete and for what is carried over from one to the next; a third adds only
more of the same since a closed handler never acts again. `UpBound` bounds the
check-ins on their way in one stream. `Parts` lets the agent update, destroy or
stop the application in one behaviour (stop it with one stream only). With
updates one message at most is on its way down a stream, and once the second
update has begun one stream is served at a time, and neither streams nor
processes end any more: what a client brings from the stream before, and a
stream that broke with a sender at work, comes before it. `Service` has one
update or a stop, for a new client or one that an earlier agent configured. The
proofs of `OneStream`, `Agreement` and `Obeys` have none of these restrictions.
In StatusWatch ages are capped just above the largest value a guard compares
(`MaxAge`, `MaxSilence`), so the cap loses nothing; `Delay` bounds what a round
takes.

In Delivery, `OneStopped` stops the input or the spooler in one behaviour; a
batch of two with one event that Elasticsearch may refuse makes the answers
"all", "some" and "none", and a third event without a document makes the batch
that fails whole. `Rejected` is empty in the run, because `PutEncoded` cannot
fail on an event of the fake input, and is exercised in `DeliveryDrops`.
`MaxRestarts` 1 reads a batch twice. In Nodes three nodes are one that only
sends, one that does both and one that ends the chain; one node is updated
through a refused, a good, an unreadable and a good configuration (any of which
it may miss) and may be stopped at any of them; `MaxFaults` bounds processes
that die, sockets that cannot be opened, calls that come early and streams that
break, after which the last restart must succeed. Runners that are run again
because their configuration was refused are not counted. `InsideAgain` takes it
that half a second is enough for the goroutines of a receiver to end. In Journey
two edits reach every combination of two calls on the same and on different
keys; chains without the wire have neither spooler nor output, as in the
benchmarks, because these do not keep what `Document` says (JourneyDirect; and
without the wire the output also refuses an event whose `_id` was deleted). In
Bench two sessions are one that lingers and one that finds it in its way, and
three nodes are the benchmarks' chain. In Debug a second stream is the
reconnection, and `UpBound` 1 leaves one check-in on its way.

Deadlock checking is off where the system may stop: all streams are used up and
all callers have returned, the events are delivered, the chain has ended, the
sessions or the command are over or the process has crashed. In StatusWatch it
is on.

## 4. Fairness

Weak fairness of goroutines that can run, lock grants and timers, per
goroutine, and never of the network, of a client's decision to answer,
reconnect or restart, nor of callers.

- `Running` (Actions): every goroutine of the server, the expiry of a call, the
  handler's five seconds, the rounds of the watchdog, and the client's loop,
  receiver and sender. The senders are in it because one may hold an action
  that it must record or put back before the watchdog can see it. Go's
  scheduler and `time.Timer` justify it. Nothing says that a client that
  executes an action answers.
- `Running` (Checkin): the goroutines run, `OnConfig` returns, and a client
  sends the next check-in once the server has read its last (the 30 s timer).
- Weak fairness suffices for a `select` because a sender that has something to
  take and a stream that is over goes on being enabled until one of its cases
  is chosen, and every case ends its wait.
- `Running` (Delivery): the input's goroutines, calls that end, the spooler's
  consumer and its requests. Not handlers, connections, restarts or stops, nor
  that Elasticsearch accepts anything: `SpaceIsMade` therefore excepts a
  process of which some batch came back without a single id (`failed`).
- `Running` (Nodes): what a node does by itself. `Settles` asks only for nodes
  of which, from some point on, a good configuration is expected for good.
- `Timed` (StatusWatch) is not fairness but time: no tick passes while a
  goroutine has something to do (`Prompt`), which is how a timeout compares
  with a round of the watchdog. Only the proofs about silence need it; the
  others are of `Spec`, where only a round has a bound, `Delay`.
- `Running` (Bench): the manager, the goroutines of its server, and the clients
  and runners of its nodes. Quick's call fails as long as an endpoint is not
  there or a connection is backing off, and its runner is then run again, so
  `Send` is enabled again and again and not for good: it has strong fairness.
  Nobody has to interrupt the agent. When the run command's `Manager.Run` has
  returned, the process ends (`Exit`, fair in mode `process`), and a goroutine
  that is ready need not have run by then. `ShutsDown` is therefore about the
  other modes, whose process runs on after the manager; the end of the last
  one's process is no fair step, but may come before its server is down.
- `Running` (Debug): every goroutine of the process. Neither an interrupt, nor a
  call, nor a broken stream, nor a refused configuration need happen.
- Journey has no fairness: it has no liveness property.

## 5. Proofs

Checked by TLAPS for every value of the constants, from the named assumptions
in the modules alone (`NoneAssumption`, `PendingCapAssumption`,
`ClientAssumption`, `ConfigAssumption`, `WatchAssumption`, `HopAssumption` and
those of input, output and spooler, `RunnerAssumption`, `NodesAssumption`,
`EventDocAssumption`, `JourneyAssumption`, `ServerAssumption`,
`BenchAssumption`; `DebugAssumption` is only checked). Every run evaluates
those of its instance. Every safety property of a passing run is proved, and
the four refinements with them.

**ActionsProof** proves `AnsweredOnce` and `HeldOnce` for the server alone,
for any behaviour whatsoever of client and network (`ServerAnswersOnce`,
`ServerHoldsOnce` of `ServerSpec`), and lifts them to the composition
(`SpecIsServerSpec`). `HeldOnce` says that channel, hands, map and the
watchdog's slice partition the waiting calls. It is not inductive: a hand may
be filled only in `holding`, `sent` and `requeue`, at most one sender is `sent`
and holds the lock, and the watchdog's slice is empty unless it drains or puts
back. The inductive invariant adds those, and `AnsweredOnce` follows since a
callback is only reached from one of the places and takes the action out of it
(`CallbackOnce`). The type invariant needs `ClientFits`, what a client's
channel and hands hold.

It goes on from there. `OneStream`, again for the server alone against any
client, needs that no `actionsDone` is closed while an application is
connected, since only `Destroy` closes one (`Stops`). The rest is about
*traces*: a request on its way, an execution, a response are all the client has
of an action, and whatever it has the server knows of (`TracesKnown`), because
the sender holds `actionsLock` from before its `Send` until the action is
recorded (`LockHeld`) and the receiver takes the same lock for every response:
that is `NoAnswerDropped`. A request on its way is on one stream, once, and was
not executed (`SentOnce`), so no action is executed twice (`ExecutedOnce`). A
response, wherever it is, is of an action that was executed or the refusal of
one the client does not know (`Earned`), so every step that calls a callback is
a step of `ActionCall` (`CallbackReturns`); every other step is a call, an
execution or a stutter (`QuietPromise`): the theorem `ActionsKeepPromise`.

**CheckinProof** proves types, `OneStream`, `Agreement` and `Obeys`. `OneStream`
needs that `checkinDone` is set from the moment the handler connects until it
returns or is destroyed, and that the handler that does return was past its
sender's end (`ServingInv`). `Agreement` and `Obeys` are proved for any number
of updates that interleave, of streams, restarts and reconnections with or
without a configuration, with `Stop` and `Destroy`, from one strengthening,
`AgreementInv`. An expected state *fits* when the pair of its index and its
configuration was wanted, or when it is the word to stop and the application is
to stop (`Fits`). Every expected state fits, wherever it is: with `UpdateConfig`
or `Stop`, in the hand of handler, receiver or sender, on the stream down; and
what the client has was wanted, too. What fits goes on fitting as `wanted` grows
(`StillFits`, `Later`), so a step need only look at what it makes or takes.

`Agreement` needs to know of `wanted` itself that the expected pair is in it,
that no index is above both the expected one and `spent`, and that an index
above `spent` has one configuration (`WantedInv`). The first bound is why
`UpdateCommit` makes an index that is new unless it is spent: it adds one to the
index under the same lock it read it with, and not to what `UpdateRead` saw. A
reload adds the expected configuration under the client's index plus one. If
that index is higher than the expected one, it is new; if it is the same, the
pair is not; and if it is lower, `spent` is made at least what was expected,
which is exactly the case that the unrestricted `Agree` fails in (`ReloadLater`). For
`Obeys`, each step is a step of `Instructions` or leaves its variables alone:
the client's receiver takes or learns, `OnConfig` applies, an update or a reload
wants, `Stop` stops, a new process begins again.

**WatchProof** proves types; `Whole`, for any number of `SetStatus` calls, from
`WholeInv`: as long as none has crossed another since the record was last
written by one alone, at most one is under way and it wrote the status that
stands; and `FailedWasSilent`, from `LateInv`: `statusTime` is ahead of the last
check-in by at most a round, and while the watchdog waits for the write lock and
the status is degraded, what it read is still true, since a check-in would have
changed the status. That is why a stale read costs one mark and never two. The
property itself is about applications that do not report DEGRADED and whose
status nobody set; without that it is vacuous, and `WatchRace`'s variants show
that it has to be.

It also proves both halves of what a silent application meets. `SilentStatus`,
of the record, holds for any timeout and rounds under `Timed`, where no tick
passes while a goroutine has something to do. `SilenceInv` bounds the silence at
every step of a round: while the status is healthy its time is the last check-in
and a round that began before it grew old marks it in the next; while it is
degraded, its time is that of the first mark, at most a timeout and a round
after the check-in. The watchdog's own update of `statusTime` therefore delays
the second mark by one timeout and never restarts it. `SilentIsFailed`, of what
the handler has heard, needs `HeardInv` as well: once time has passed no
receiver has an older status left to tell, and none comes after the mark. It has
two hypotheses, and TLC refutes it without either, each time in the same way: a
check-in that arrives between the watchdog's two locks is followed by FAILED
before the receiver has told the handler of it. The receiver's word then comes
last and nothing corrects it, since FAILED is not marked again. If the client
reports DEGRADED, the round under way is enough for that; if a round takes
longer than the timeout (`Delay > Limit`), it marks a healthy client DEGRADED
with a time so old that the next round fails it at once.

**DeliveryProof** proves types, `FreedIsAnswered`, `CreatedOnce`,
`ReportedIsSpooled`, `SpooledOnce`, `InOrder` and `KeepsCustody`, for any number
of events, batches and restarts. The inductive invariant is
`Types /\ AckInv /\ Kept /\ CreatedOnce /\ DistinctInv /\ HandledInv`. `AckInv`
is about every ACKed position and not only the freed ones, because batches are
ACKed out of order after a failure. `SpooledOnce` is a fact about the input as
much as about the spooler: the batches of different calls and the one being
filled are disjoint (`DistinctInv`), a call publishes only what its handler has
been through and what is in the log was published by a call (`HandledInv`), so
what is about to be published is not there yet. `InOrder` needs `OrderInv` on
top: a batch is in the order of the input and so are the batches of successive
calls, and a handler that is at work and whose call was not cut is that of the
last call. What it publishes is hence behind everything in the queue that is not
of a cut call. `KeepsCustody` maps every step to one of `Custody`. Publishing is
taking, and that nothing is taken twice is the lemma `PublishesNew`, which
`SpooledOnce` uses as well, with the fact that what a restart loses had been
published (`LostInv`), so that no event comes back under another call. An ACK
and an offer are answers because of `AckInv`, a restart loses what was held, and
a call that returns reports what its handler has spooled.

**NodesProof** proves types (`TypeInv` adds that the chain was accepted, without
which a process that loads is not seen to succeed), `AcceptedLoads` from the
operator lemma `PipelineLoads`, and `ConfiguredIsEquipped` and
`ProcessReportsApplied` from `OrderInv`: as long as its context is alive, what
`OnConfig` has done before the step it is at still stands, because only a
context that is done takes anything away and a process has exactly one. In the
agent's process it has another for every `Run`, and `NodesInside` shows the
same property to fail there. `ProcessStopIsFinal` follows from `StopInv`: the
word to stop comes when `OnConfig` is at nothing, it ends the process's one
context, and a client that was told takes no configuration any more.

**BenchProof** proves types, `ServerThere` and `AloneKeepsSocket`, for any
number of sessions and whatever file is at the path. `ServerThere` rests on a
chain of causes (`Served`): unless it is a process's, a server has been served
before the first of its nodes is connected, so before anything is sent,
received and returned, and only what has returned is closed. `AloneKeepsSocket`
needs what the file is at each step of `listener.New` (`Needs`), that the
sessions come one after the other (`Order`), that a file of this process is
that of a listener which is open (`Owned`), and that a session that has let go
of everything never touches the file again (`QuietLeaves`), which is what makes
"alone when it began" enough for the whole of the session.

**DebugProof** proves types, `ConfiguredOnce` and `Obeys`, for any number of
streams that the client opens one after the other, with any of its messages
delayed or lost. The invariant is about what may be on the wire given what the
client has: only a client that has index 1 reports it, hence the empty
configuration of a later reply, which carries index 1 too, is sent only to one
that has the index already (`WireInv`, `ReplyInv`), and the client applies a
configuration once and keeps it (`ConfigInv`). The debug controller's shortcut -
no index is ever counted and no configuration kept - is thereby shown to be
enough for a component that only ever gets one.

**JourneyProof** proves types, `GetIsSent` and the refinement of `Document`,
for any keys, values, decoding and chains over the wire, and for processors
that encode nothing over what they have decoded (`Overwrites = {}`; the variant
of JourneyDirect shows what happens otherwise). The inductive invariant says
that the fields cut from the bytes are those of the bytes until something is
decoded (`CutIsBytes`), that a component receives bytes only (`ArrivesAsBytes`)
and that the output is last (`MadeLast`). The refinement then rests on lemmas
about single calls: what is sent is the overlay of both maps (`SentIsOverlay`),
`Put` and `PutEncoded` write one key of it, `Get` changes at most the key it
reads, to what it decodes to, and so on for the spooler and the output.

Left to TLC: liveness and everything under fairness (`EveryCallReturns`,
`BrokenStreamLetsGo`, `ClientLeavesBrokenStream`, `Converges`, `StopReaches`,
`InputEnds`, `SpaceIsMade`, `Settles`, `StartsOver`, `AloneReturns`,
`ShutsDown`, `Configured`, `InterruptEnds`), which TLAPS does not reach.

## 6. Mutants

Every property of a passing run has a faulty variant of a definition under
which TLC finds it violated: a send that fails but is recorded, a handler that
does not look whether another one serves, an index that is not counted up, a
timer that does not fire, a mark without the lock, a batch that is ACKed before
it is sent, a receiver that is said to run and does not listen, a runner that is
not cancelled when it is told to stop, a socket file that is not removed before
it is bound, a token that is not stored, an overlay in the wrong order, and so
on (`mutants` in `PROJECT.json`).

## 7. Plan

1. *Done:* actions, check-in, status and watchdog, delivery, nodes, event, with
   their first proofs.
2. *Done:* the debug command against the client it shares with the agent; the
   life of a server, its registry and its socket; the managers and the end
   component.
3. *Done:* the proofs of `NoAnswerDropped`, `ExecutedOnce`, `OneStream` and of the
   refinement of `ActionCall`; of `InOrder`; of what a stopped process does; of
   the server's socket.
4. *Done:* the proofs of `SilentIsFailed`, of the debug command, and of the
   refinements of `Instructions` (twice) and `Custody`.
5. *Left:* a composition of Nodes with Checkin, in which a restarted process
   meets the expectations of the one before down to the messages (Nodes has them
   as the configuration that is expected, Checkin as a client that connects
   anew); abstract specifications of Nodes and Bench.

## 8. Not modelled

Generated protobuf code and build files; flags, roots and the info command;
certificates, TLS options and the configuration of the output's client, URLs and
JSON (functions of their input, without state and without interleaving); address
formats; logging. `LogReceiver` keeps nothing. `SetInputTypes` and
`FindByInputType` are called by nothing in the repository; the latter reads an
application's input types without the lock that the former writes them under
(server.go 207), which is a race once somebody calls both. What the debug
controller's `Actions` does after its first action is left out, because nothing
is left of the process. Every manager's `OnStatusChange` is empty
(`agent/manager.go` 95-97), so nothing acts on FAILED. gRPC, sockets, Go's
channels and locks, and libbeat's queue are taken as given and stated where they
are used; in particular the queue keeps the contents of an event as they are.
Errors of malformed bytes in an event are left out: every component of the
repository makes events of values. Actions that the client does not know or
whose parameters it cannot decode are refused (`Undefined`).
