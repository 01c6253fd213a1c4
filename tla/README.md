# FastSearch: a verification project in TLA+

FastSearch is an Android browser with a built-in VPN. `app/` is the user
interface (browser, connect button, advertising, event reporting); `core/` is
the shadowsocks library, whose services run in a process of their own, `:bg`,
and start native programs (`sslocal`, `tun2socks`, `redsocks`). This directory
holds TLA+ modules of the parts where interleavings, failures and crashes
decide whether the program is right, the TLC configurations that check them,
and proofs checked by TLAPS. `PROJECT.json` maps each definition to the lines
it models and lists components, runs, mutants, findings, hazards and theorems.

Paths: `bg/`, `net/`, `aidl/`... are below
`core/src/main/java/com/github/shadowsocks/`; `main/`, `server/`, `ad/`,
`browser/` are below `app/src/main/java/tool/browser/fast/`; `badvpn/` is below
`core/src/main/jni/`.

## The system and its modules

| Part | Module | What makes it hard | What makes it correct |
|---|---|---|---|
| Proxy service (`bg/BaseService.kt`, `VpnService.kt`, `ProxyService.kt`, `TransproxyService.kt`) | `BaseService` | starts, stops and suspended jobs interleave on one thread | a stop joins the connecting job, releases everything, and ends; Connected means complete |
| Process pool (`bg/GuardedProcessPool.kt`) | `GuardedProcessPool` | exits race with cancellation and timeouts | no process outlives its guard; the join returns |
| Hand-over of the tun device (`VpnService.sendFd`, `wait_for_fd` of `tun2socks.c`) | `TunFd` | two processes, retries, crashes in the middle | tun2socks runs on the device or not at all |
| Network listener (`net/DefaultNetworkListener.kt`) | `DefaultNetworkListener` | late and reordered callbacks, races with `establish()` | listeners, actor and system agree; waiters are answered |
| Connection (`aidl/ShadowsocksConnection.kt`) | `ShadowsocksConnection` | death in the middle of anything, across processes | the app has the service's state; the `check`s hold |
| Traffic (`bg/TrafficMonitor.kt`, `bg/ProxyInstance.kt`) | `TrafficMonitor` | a socket thread and the main thread share fields without order | no update lost, none counted twice |
| Bandwidth listeners (Binder of `bg/BaseService.kt`) | `Bandwidth` | oneway and waiting calls overtake each other, clients die | one loop just while somebody listens |
| Local sockets (`net/LocalSocketListener.kt`, `ConcurrentLocalSocketListener.kt`, `bg/LocalDnsWorker.kt`) | `LocalSocketListener` | shutdown anywhere in the accept loop | a shutdown ends, and then nothing runs on |
| Server manager and button (`server/manager/ServerManager.kt`, `main/MainViewModel.kt`) | `ServerManager` | timeouts, stale captured values, activities that go away | the button returns and shows the truth |
| Ads (`ad/request/RequestTransmitter.kt`) | `RequestTransmitter` | callbacks that ask again, screens that are gone | each request is answered; no destroyed ad is shown |
| Browser tabs (`browser/`) | `TabManager` | delayed loads, page reports of other tabs, hosts that overlap | a tab is always there; incognito stays out of the history |
| TCP relay (`badvpn/tun2socks/tun2socks.c`, the TCP of `badvpn/lwip` that calls it) | `Tun2socks`, `BytePipe` | call backs that free what their caller works on | two byte pipes, no use after free, no lost wake-up |
| SOCKS handshake (`badvpn/socksclient/BSocksClient.c`, `BConnection_unix.c`) | `BSocksClient` | the stream is cut anywhere, either side fails | the protocol is followed, parts are freed once |
| UDP relay (`badvpn/tun2socks/SocksUdpGwClient.c`, `BPending.c`, `BDatagram_unix.c`) | `SocksUdpGwClient` | the order of jobs, a table at its limit | packets and answers go where they belong |

The button calls the manager; the manager sends start intents and CLOSE
broadcasts and listens through the connection; the service owns the pool, the
sockets and the VPN interface, follows the network through the listener, and
hands the tun device to tun2socks, which relays TCP through SOCKS and UDP
through its own gateway to sslocal.

Modules that end in `Proofs` hold theorems. Modules that begin with `MC` put
components together for TLC. An operator named `Bug...` is a plausible mistake,
written before the definition it would replace. It is used by no specification;
the mutants of `PROJECT.json` put it in place of that definition to show that a
property notices.

A *history variable* records that a behaviour has left the circumstances in
which the code keeps a promise (for instance that two starts overlapped).
Properties conditioned on one say what holds otherwise: the exceptions they name
are the only ones. Where the repository states the unconditional promise, a run
that expects a violation shows that it does not hold.

### How state and actions correspond to the code

**BaseService.** The code runs on the main thread of `:bg`, so the code between
two suspension points is one step, with one exception: the system calls
`onRevoke` on a Binder thread. There `stopRunner` tests the state (`RevokeTest`),
some time later sets it, whatever it is by then, and posts its coroutine
(`RevokeStop`), which begins when the main thread gets to it (`StopBegin`).
A step of the main thread tests the state once and then may set it, so that an
assignment by the Binder thread in the middle of one is the same as one before or
after it; the one step that tests it twice, `StartWithoutProfile`, has the case in
between. `isVpn`, which never changes, says
which class the service is of: `VpnService` or one of the other two. `Start`
names the start commands in flight (and all that each creates), `Stop` the
coroutines of `stopRunner`; both are reused. `state`, `connectingJob`, `proxy`,
`closeReceiverRegistered` are the fields of `Data`; `slot` is the field for each
resource and `live` what really exists. `StartUnprepared`, `StartIgnored`,
`StartWithoutProfile`, `StartAccepted` are `onStartCommand` by its exits;
`JobBegin`, `JobPreInit`, `JobFlattened`, `JobSendFd`, `JobCancelled` the
connecting coroutine from one suspension point to the next, with a failure at
any of its steps; `StopRunner`, `StopCleanup`, `Closed`, `StopFinish` the stop.
`state` stays Stopped while connecting: the code has no transition to
Connecting, which is why a second start can be accepted (`overlapped`). A revoke
that passes its test and then waits while another stop is launched makes a second
one (`crossed`: the first to end sets Stopped, and calls `stopSelf`, while the
other still releases things or a new start runs). A job that ends before the
posted stop begins sets Connected over its Stopping (`outrun`); the stop goes on
all the same. `AtRestAfter` lets the history start again when a stop leaves
nothing behind.

**GuardedProcessPool.** `pc` is where a guard is suspended, `waiter` its stdout
thread, `delivered` an exit code handed over to a guard that has not run yet. In
that window a cancellation or a timeout wins and the code is `lost`, as in
kotlinx.coroutines 1.5.2. `sdk` selects the steps of the clean-up.

**TunFd.** `proc` is where tun2socks is between its start and its event loop,
`path`, `backlog` and `conn` its socket, `sender` the two callers of `sendFd`
(the connecting job and the guard that restarted the process). Time is left out
but for one fact: a sender gives up after 6.35 s and tun2socks waits for 10 s.

**DefaultNetworkListener.** The actor is unconfined with a rendezvous channel,
so a message is one step on its sender's thread. For API 26 to 30 that is the
main thread; otherwise a system thread, which may deliver between the statements
of `startVpn`. `Removed(s) == {}` is what `DefaultNetworkListener.stop(this)`
removes: inside `scope.launch` the key is the coroutine scope, not the service.

**ShadowsocksConnection.** `main` is the app's main queue, in order; `wire` the
oneway calls from the service; `sysDeath` and `died` the two notices of a death.
`announced` is the window in `changeState` between broadcast and assignment.

**TrafficMonitor.** Every read and write of `current` and `dirty` is a step of
its own, on the socket's thread (`sock`) or on the main thread (`main`). `row` is
the profile in the database, which the app rewrites (`WriteToDatabase`:
`writeToDatabase` of the manager also sets its totals to 0) while `persistStats`
is between its fetch and its update (`fetched`). If `getProfile` finds nothing,
`persistStats` returns (`late`). An exception of the database is not caught outside
direct boot and ends the process; the module has no action for it, because a process
that has ended takes no step and the properties here are all safety.

**Bandwidth.** `IShadowsocksService.aidl` makes register and start calls that
wait (`calls`), stop and unregister oneway (`oneway`): a call of one kind may
overtake one of the other. `posted` are the changes on their way to the main
thread, `looper` the field and `loops` the jobs that really run. A start that
finds the service connected also tells its client the traffic so far, outside
any `try`: if that client has died meanwhile, the exception ends the service's
process (`StartThrows`). No property forbids this, since nothing in the repository
promises otherwise; afterwards nobody is served and no loop runs.

**LocalSocketListener.** `thread` is where the accept thread is, `conn` what
became of each connection, `main` how far the shutdown is. A coroutine launched
in a scope that is already cancelled never begins (`dropped`): its connection is
left to the garbage collector.

**ServerManager.** A `BaseActivity` creates its view model outside a store, so
nothing clears it and a flow outlives its activity: `Models` are the view models
of successive activities, `phase` where the flow of each is. `service.state` is a
remote call without a handler: a service that dies between the binding and this
read ends the app. The module has the crash as an outcome, and no property forbids
it, since nothing in the repository promises otherwise.

**RequestTransmitter.** `mCallbacks`, `mIsLoading`, `mCachedResult` are the
fields; `asks` the requests the SDK has not answered; `held`, `posted`, `shown`
what a screen has. The list of ads is well-formed: an entry whose type is none of
"o", "n", "i" would never be answered.

**TabManager.** `tab` holds for each tab its host, its position (home or page)
and what its web view will still report; `delayed` the loads that wait 100 ms;
`viewPost` and `viewDirty` the LiveData that the host has not shown. The web view
is external: it takes up a page and reports its start and its end, and it can go
back unless it may be at the page it reported first (`first`). That page is the
placeholder, or an address whose load stopped the placeholder before it began; Back
at an address that came first shows the home page and leaves the address in the web
view, so `HomeAsPage` lets a tab stand at its home page there.

**Tun2socks.** One connection: `state`, `rcv_wnd`, `unacked`, `cb` are the lwIP
pcb; `client_closed`, `aborted`, `buf`, `socks_up`, `socks_closed`,
`socks_recv_buf`, `tcp_pending` the fields of `struct tcp_client`; `send_len`,
`send_job`, `recv_op` the operations of the SOCKS connection. `Segment(k, n,
fin)` is a segment that acknowledges k bytes and brings n bytes and perhaps a
FIN; `input` are the call backs that `tcp_input` still has to make for it, in the
code's order (sent, received, end). Jobs that a call back posts run before it
returns (`SYNC_COMMIT`), and `dead` is what the call back finds in
`dead_aborted`. The ASSERTs of the code are compiled out (`-DNDEBUG` in
`Android.mk`) and stated as invariants. What the code does and one might not
expect is in the model: `tcp_close` with data the client has not taken resets the
app and drops what is queued for it, also when the call back of an
acknowledgement closes the client while data of the same segment is still to be
reported; a hang-up of the SOCKS socket is silent until its next operation; an
app that closes its window can hold a client for ever. The error branch of
`client_free_client` after `tcp_close` cannot be taken. The last ACK of the
three-way handshake is taken to carry no data.

**BytePipe** is the abstract specification of one direction of a relay: bytes
come out in order, none lost or doubled, at most `Capacity` are inside, and after
the writer's end the pipe is done only when everything has come out, unless the
reader broke. `Tun2socks!Up` and `Tun2socks!Down` instantiate it with the history
variables of the two directions; `end` maps which sides are closed, and why.

**BSocksClient.** The bytes of the messages keep their protocol values, because a
client that lost its place in the stream would misread them. The handshake has no
time-out of its own. This app passes no user name, the module keeps both methods
of the code.

**SocksUdpGwClient.** `jobs` is the stack of BPending: the job set last runs
first. The first packet of a connection is sent by a job that reads it from the
device's buffer. A connection's socket keeps the gateway it was opened with
although `is_dns` changes with each packet (`find_connection` tests `!con &&
con->is_dns != is_dns`, which is never true): `retyped` records a local address
that sent both kinds, `remixed` one that asked two DNS servers, whose answers are
all attributed to the last. Packets are taken to fit their buffers. A `sendmsg` or
`recvmsg` that fails (`SocketFails`) is only logged by `dgram_handler`, so that
`BDatagram_unix.c` leaves the socket busy: it sends, or receives, nothing until the
descriptor has an error event (`ErrorEvent`) or the connection is evicted, and packets
that its queue has no room for are dropped. What the properties call sent is therefore
what was queued for the socket, or has left it.

## Runs

Components that share no state are checked in one run: an `MC` module extends one
of them, instantiates the others, and has a variable `part` that never changes
and says which of them moves; the others keep their initial state. This is sound
because a behaviour of independent components is an interleaving of behaviours of
each, no property of one reads the state of another, and the fairness conditions
are those of each component, conjoined with `part`. Properties with an eventuality
that the resting components would break are conditioned on `part`.

| Run | Expect | Question |
|---|---|---|
| `services` | pass | with and without a VPN interface: does a stop join and release, is Connected complete, does a stop end? |
| `support` | pass | the pool (no orphans, joins, restarts), the tun device (arrives after any crash), the network (everyone knows the current one) |
| `reports` | pass | does the app have the service's state across deaths; are bytes counted once and the user's edits kept? |
| `clients` | pass | does the bandwidth loop run just when it is needed; does a shutdown of a local socket end? |
| `app` | pass | what do the button and the browser show; does the history keep out of incognito tabs? |
| `waits` | pass | are ads fresh and requests answered; does the button return? |
| `relay` | pass | is the TCP relay two pipes that touch no freed memory and lose no wake-up; is the handshake right, and are its parts freed once; do packets go where they belong? |
| `service_join` | violation | does a stop always join what is connecting? |
| `service_listener` | violation | does a stop release the network listener? |
| `pool_answered` | violation | is the clean-up always answered? |
| `connection_end` | violation | is a callback told of the end on detach? |
| `traffic_data_loss` | violation | are totals persisted again only if they are unchanged? |

Bounds, and why they are enough to meet the interesting cases:

- Service: both kinds; two starts and two stops in flight (the smallest number with an
  overlap, and a stop beside a restart); one undelivered start request; one revoke
  between its test and its assignment. The names are reused, so sequences are
  unbounded. `OneTroubleAtATime` ends a behaviour where an overlap of starts and a
  race of stops come together before the service is at rest again: the properties
  except what follows either (the proofs have no such constraint, and TLC has also
  checked their invariant without it).
- Pool: two guards, one with a restart callback, each API class, one retry. Tun
  device: three processes in a row, so that a restart follows a restart, and the
  code's five retries. Listener: two services, one after the other, two networks,
  three callbacks on their way (a replacement makes two), API 23, 26 and 28.
- Connection: two deaths (the second while the first is being reported), three
  calls on the wire. Traffic: two bytes each way and one restart of sslocal; a torn
  copy needs one byte more in one direction than in the other.
- Bandwidth: two clients and the notification, two sessions, so that calls of an
  earlier session meet a later one (three were also checked). Local sockets: three
  connections, one in hand, one launched and one in the backlog.
- Button: two view models, two taps and one fault; one tap in `waits`, which has no
  symmetry. View models are symmetric in `app`, which has no liveness
  and ends a behaviour at `orphaned`, since its properties except what follows. Tabs: two
  tabs, two hosts and one load (also checked: three tabs with one host and one
  load, and two tabs with one host and two loads).
- Ads: two screens, a list of two ads, two deliveries, three registered callbacks.
- TCP: five bytes up and four down through a window and a send buffer of three and
  a read buffer of two: each fills, and more is sent than fits. Handshake: three
  servers that grant the request (both kinds of address and of method) and nine that
  end it at each of its points. UDP: three local addresses for two places, two
  remote ones, three packets.

Deadlock is checked for the services. Elsewhere the system may stop: all guards
done, an app that has crashed, or a bound used up.

Fairness, and why the code justifies it:

- Service: weak fairness of what is posted to the main looper, of `sendFd` (which
  gives up after its retries) and of socket threads whose socket is shut. None of a
  pool's join or of a blocking read in `flatten`: `StopCompletes` names them as the
  only ways to hang.
- Pool: weak fairness of the looper and the waiter threads, of the end of a process
  that was sent SIGKILL, and of the close by a service that stops.
- Tun device: tun2socks goes on with what it can do, and so do the senders and the
  guard; a process that has got no descriptor exits.
- Listener: posted callbacks are delivered and `establish()` returns.
- Bandwidth: the service's main thread, its Binder threads and the kernel's death
  notices make progress; clients need not.
- Local sockets: the threads run (each request has one: the 64 of `Dispatchers.IO` are
  taken to be enough), the resolver has a timeout, and the stop that shuts
  the listener also kills the processes at the other end.
- Ads: the SDK answers every request. Button: the timers fire; neither the service
  nor the ad need ever answer.
- TCP relay: lwIP makes the call backs it owes and the reactor runs its jobs. Nothing is
  assumed of the app and of sslocal, which no time-out of tun2socks or lwIP makes act (an
  app that answers probes with a closed window is never given up): `ClientEnds` says that
  a client with one side gone ends, or that it is one of these two that keeps it.
- SOCKS handshake (`HandshakeEnds`): an operation goes on, or fails. This is an assumption
  on sslocal, which runs on the same device: the handshake has no time-out.

## What the violations show

- `service_join`: two starts before the first has connected; the field keeps one job,
  the stop joins at most that one and releases while the other runs.
- `service_listener`: after a stop the network callback stays registered.
- `pool_answered`: a guard cancelled with its exit code on the way waits for a thread
  that has ended. `PoolJoins` holds for all others.
- `connection_end`: `disconnect()` drops the callback without a word, against its
  comment.
- `traffic_data_loss`: totals are persisted at the shutdown broadcast and, grown, once
  more at the end; the check that should notice compares an object with itself.

## What the conditions leave out

The history variables are set by steps the models do take. A property that
excludes one says nothing about what follows such a step:

| Variable | Set when | So this is not promised |
|---|---|---|
| `overlapped` (service) | a start is handled while another connects | all but type, `FieldsRefToOpen` and `StopCompletes` |
| `crossed` (service) | a revoke and another stop both launch a stop | all but these and `StopJoinsConnectingUnlessOverlapped` |
| `outrun` (service) | the job sets Connected over a revoke whose stop has not begun | that Connected is left through Stopping, and that no stop is in flight in it |
| `lateStart` (service) | a start is accepted after `stopSelf` | that the system holds the service as started |
| `lost` (pool) | a code is lost to a cancellation or a timeout, or a restart callback is interrupted | that this guard's clean-up, and so the stop, ends |
| `overlap` (tun device) | a restart sends while the start still does | that a sender that gives up leaves a working tun2socks alone |
| `service = "dead"` (tun device) | the app's process dies | that tun2socks runs on a descriptor: `wait_for_fd` times out and the variable it returns was never assigned |
| `raced` (listener) | a network is reported between the builder and `establish()` | that the system has the right underlying network |
| `missed` (connection) | a registration and its read fall between broadcast and assignment, or a call of an earlier registration comes last | that the app has the service's state |
| `missed` (traffic) | `dirty` is set between its test and its reset | that the next update is handed out before more traffic comes |
| `late`, `overtaken`, `reset`, a restart, a second persist (traffic) | a report is still being stored at the end, or the profile is not found; the app writes the profile between fetch and update, or after a persist; sslocal is restarted; totals are persisted twice | that the profile grew by the traffic; for `overtaken`, that an edit survives |
| `overtaken` (bandwidth) | a call of one kind overtakes an earlier one of the other | that this client is served as it asked |
| `orphaned` (button) | an activity is destroyed in the middle of a flow | anything but type and `ButtonReturns` |
| `late` (button) | the service takes a start request whose flow has given up | that a connection is shown |
| `upset` (button) | the service fails, is stopped while the clock runs, is bound in the middle of a flow or with earlier news still to come, or a flow ends out of touch | that the connection is shown and the clock agrees |
| `again` (ads) | a screen asks again before it was answered or showed the answer | that it is not given an ad it destroyed itself |
| `moved` (tabs) | another tab takes the foreground before a delayed load | that the address stays in the tab, and the mode, it was opened for |
| `crossed` (tabs) | a background tab's page report turns the foreground tab | that a tab's position is that of its page |
| `overtaken` (tabs) | the tab is changed with a view on its way | that the screen shows the foreground tab |
| `overlap` (tabs) | a host is created before its predecessor is destroyed | that the new host keeps its tabs |
| `retyped`, `remixed` (UDP) | a local address sends both kinds of packets; asks two DNS servers | that packets go to the gateway, and answers come from the address, they should |

`overlapped` and `lost` have runs of their own that show the violation, because
the repository states the unconditional promise. Three more comments are true only
with the exceptions above, which the models reach and the notes of the hazards
describe: "wait for the file descriptor sent from JVM" (`tun2socks.c`, the dead
app), "Bytes for the current session" (`TrafficStats.kt`, a restart of sslocal) and
the streams that are "closed automatically" (`LocalSocketListener.kt`, a coroutine
launched after the cancellation).

## Proofs

TLAPS proves the following for every value of the constants that satisfies the named
assumptions. These are weak: bounds are naturals and buffers are not empty
(`PoolAssumption`, `SupportAssumption`, `ConnectionAssumption`, `TrafficAssumption`,
`BoundsAssumption`, `ButtonAssumption`, `TabsAssumption`, `SizesAssumption`,
`RelayAssumption`), a null reference is not a start, a network or a view model
(`BaseServiceAssumption`, `SupportAssumption`, `ButtonAssumption`), and the clients are
finitely many (`ClientAssumption`, because the jobs of the loop are numbered).

| Module | Theorems |
|---|---|
| `BaseServiceProofs` | `TypeOK`, `FieldsRefToOpen`, `StopJoinsConnectingUnlessOverlapped`, `NothingLeaked`, `StoppedIsClean`, `ConnectedIsComplete`, `RunningIsStarted`, `LegalTransitions`, for both kinds of service and any number of starts and stops in flight |
| `SupportProofs` | `NoOrphan`, `ExitIsCurrent`, `CleanUpAnsweredUnlessLost`, for any number of guards; `RunsOnTunUnlessOrphaned`, for any number of restarts and attempts; `NetworkKnown`, for any networks, services and callbacks on their way |
| `ReportsProofs` | `SyncedUnlessMissed` and `ChecksHold`, for any number of deaths and calls on the wire; `MonitorCurrent`, `CountedOnce` and `EditSurvives`, for any traffic and restarts of sslocal |
| `ClientsProofs` | `LoopAsNeeded` and `ServedAsAsked`, for any clients and sessions; `DoneIsDone`, for any connections |
| `WaitsProofs` | `AdsFresh`, and that no expired ad is posted, for any screens, ads, callbacks and list to try |
| `AppProofs` | `ButtonAtRest` and `NoHiddenConnection`, for any view models, taps and faults; `TabsServed`, `ScreenRight` and `PrivateUnlogged`, for any tabs, hosts and loads |
| `Tun2socksProofs` | `MemorySafe` (with the bounds of every buffer), `NoWakeUpLost`, `QueuedDataSent`, and `UpPipe`, `DownPipe`, `Pipes`: Tun2socks implements `BytePipe` in both directions, for every window, buffer and number of bytes |
| `RelayProofs` | `HandshakeCorrect`, for the servers of `MCRelay`, every cut of their bytes and every portion the owner reads; `AnswerFromAsked`, and of `PacketsSent` all but the order of the table, for any addresses, table and queues |

None of the properties is inductive. Each proof has an invariant that is, shows that
Init implies it and that every action preserves it (one lemma or step per action),
and concludes. Where a component is instantiated in an `MC` module, the invariant is
proved for that module's specification, whose other parts leave the component's
variables alone. What the invariants add:

- Service: three layers. `ResourceInv` holds always: fields refer to open resources,
  only running jobs are cancelled, closing belongs to a stop that is closing. `OneJob`
  holds while starts have not overlapped, stops that cross or not: at most one job, the
  field refers to it and so does every stop that waits. `SerialInv` holds while stops
  have not crossed either: at most one stop, in Stopping or behind a Connected that
  outran it (`OneStop`); while a job runs the stop releases nothing, and has cancelled
  it once it waits (`StopWaits`); what a suspended job has opened (`JobHolds`), what is
  left after a clean-up (`CleanedUp`). `StoppedIsClean`, for one, needs that no job is
  running that the stop did not see. The step that ends a stop is where the history may
  be forgotten: it is shown to leave a clean service whatever happened before.
- Pool: `Watched` says which guard has a waiter, a delivered code or neither, in each
  phase.
- Tun device: `Followed`: a process that still waits for the descriptor has a sender
  that tries or a connection to accept, so only an orphan times out.
- Listener: `NetInv` follows a network on its way. The last message about it says what
  the system has (`Actor`), a service has what the actor has or will be told (`Told`),
  and the system has what the service was told last (`Underneath`).
- Connection: `ConnInv`. `Binding` orders what is posted about one death and the next
  connection, `Sending` says that the last call of the present registration carries the
  state the service is about to have, `Arriving` that the main thread ends up with it.
- Traffic: `TrafficInv`. `Flagged` says what `dirty` promises between its test and its
  reset, `Grown` that numbers only grow on their way to the listeners, `Ledger` and
  `Stored` how often totals were persisted and which.
- Bandwidth: `LoopInv` ties `looper`, the running jobs and the listeners together.
  `ServedAsAsked` is about clients at rest; `Calling` says for every other client which
  of its calls are under way, and what the posted changes will lead to (`Will`).
- Local sockets: `Stopped` and `Worked`: the element of the channel says that the
  thread has ended, and a join stays true because the scope was cancelled before.
- Ads: `AdInv`: one load at most, and while no screen asked again each is registered
  once, has no ad on its way when it is, and the cached ad is alive (`Fresh`).
- Button: `ButtonInv`. A flow under way is that of the activity there is (`Sole`); what
  the app is told is true until it is upset (`Link`); the clock runs for a connection the
  app knows of (`Clocked`); whatever runs was asked for by the flow, is shown, or has a
  CLOSE on its way (`Traced`), which needs a count of the requests still to be sent
  (`Counts`).
- Tabs: `Secret` says where a private address can be while `moved` is false: in what an
  incognito tab has seen or will report, and in delayed loads made for one. `TabInv` has
  the host that is attached and its tabs (`Hosting`, `Making`, `Listing`) and where the
  last view of the foreground tab is on its way to the screen (`Showing`).
- TCP relay: lwIP and the client do not account for the same bytes at the same time. A
  segment moves `rcv_wnd` and `unacked` at once, while `buf` and `tcp_pending` follow
  one call back at a time, and any of these may close the client before the next.
  `InFlow` names the acknowledgement, the data and the FIN that the call backs still to
  begin carry; `Owned` and `Called` say who refers to what, `Awake` what makes each
  direction go on. `Bounded` adds that the call backs still to come are those of one
  segment the app could send (`Due`), which bounds every buffer.
- Refinement: `PipeInv` says where the numbered bytes are: those that left are 1, 2, ...
  and those in a buffer are the ones after them (`UpOrder`, `DownOrder`), and a side
  that closed while the other lives on had a reason to (`Reasons`). A step of the pipe is
  then a matter of lengths (`UpMoves`, `DownMoves`); each action of `Tun2socks` is shown
  to keep the order and to close a side only for a reason or with nothing left.
- Handshake: `HandInv`. The client keeps a count of the bytes it has of a message; the
  rest is known from its place in the server's stream (`Synced`). `Parts` says what is
  allocated in which state, `Placed` which part of the buffer an operation is for,
  `Told` and `Reported` what the server and the owner have been told.
- UDP relay: `UdpInv`. The jobs left are those of the packet in the device's buffer
  (`JobsAre`), and each queued message, and each answer, is of the packet it was made
  of (`AllHeld`, `AllAnswered`).

TLC has checked these invariants too, on the instances of the runs.

Only model-checked:

- all liveness (the prover does not handle fairness): `StopCompletes`, `PoolJoins`,
  `Restarted`, `TunArrives`, `GetAnswered`, `LoopEnds`, `ShutdownCompletes`, `Answered`,
  `AdsAnswered`, `ButtonReturns`, `ClientEnds`, `HandshakeEnds`;
- of `PacketsSent`, that the table drops the connection used longest ago: the list is
  filtered with `SelectSeq`, a recursive definition about which nothing can be proved
  without induction over data;
- the handshake with servers other than the twelve: which replies are possible is a
  list, not a parameter;
- the violations, which are counterexamples.

## Not modelled

- Proxy instance, receivers, permission screen: their effects are inside the actions of
  `BaseService` and `ServerManager`.
- Access control lists and subnets, profiles, URIs, JSON, preferences, plugins: pure
  functions on text and bytes, or single queries through Room and content providers.
  The tests of the repository cover the former. The device-protected copy of a profile
  is written and never read by a running service: `Core.currentProfile` reads the
  database only.
- Subscriptions: declared in the manifest, started by nothing in this app.
- DNS resolution: one query and one answer; the loop around it is `LocalSocketListener`.
- Showing ads, event reporting, server list, browser lists, other screens: SDK and view
  code with no state that another part reads.
- The traffic callbacks of the connection (the same registration protocol is `Bandwidth`
  and `ShadowsocksConnection`), the choice of a node, the time shown.
- `SocksUdpGwClient_Free` (at the end of the program), and `UdpGwClient.c`, which is
  compiled for Android and not used.
- Of lwIP: sequence numbers, retransmission, out-of-order segments, IP. The module has
  what TCP delivers to the client, in order, and when it gives up.
- The other vendored programs, shadowsocks-rust, redsocks and libevent, and the parts of
  badvpn that this app does not run. They appear as processes that start, die and answer.

Nearly all C under `core/src/main/jni` is vendored (libevent, redsocks, badvpn with lwIP
and NCD, more than 300,000 lines), and most of it is not part of any program the app runs.
The map names the part that is: the relay of tun2socks with the code that calls it back.
Measured against all C files it therefore covers little; what it covers of the app's own
code is the table at the top.
