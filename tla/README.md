# Formal models of dbusqml

dbusqml exposes D-Bus to QML: services written as QML objects (`DBusAdaptor`),
remote objects used as property maps (`DBusProxy`), and the plumbing under
both. This directory holds TLA+ models of the parts of it whose correctness
depends on the order of events, the TLC configurations that check them, and
proofs of what must hold whatever the number of adaptors, names, paths, calls,
peers and properties.

Everything of the library runs on one thread (src/docs/PARITY.md, "Threading
contract"). What makes it hard is not parallelism but interleaving by the
event loop: answers and signals that come after the world has changed, calls
that block while the bus goes on, handlers of the application that call back
into the library or delete what it is working on, and shared registries with
several owners. The models are about that. What the data looks like is left
out, a name, a path or a value being a model value, except in two modules that
are about data: `WireData` and `ServedNames`.

- [1. Inventory](#1-inventory): the parts, their state, what is hard, what must hold
- [2. Plan](#2-plan): what is done, what comes next
- [3. ServiceClaim](#3-serviceclaim), [4. PathRegistry](#4-pathregistry),
  [5. OneReply and HeldReplies](#5-onereply-and-heldreplies),
  [6. ProxyProperties](#6-proxyproperties), [7. PendingReplies](#7-pendingreplies),
  [8. Followers](#8-followers), [9. Delivery, WireData and ServedNames](#9-delivery-wiredata-and-servednames)
- [10. Runs](#10-runs), [11. Where the code falls short](#11-where-the-code-falls-short)
- [12. Proofs](#12-proofs), [13. Not modelled](#13-not-modelled)

Run a model: `tlc -config claims_single.cfg MCServiceClaim.tla`; check the
proofs of a module: `tlapm ServiceClaimProofs.tla`.

## 1. Inventory

| Part | Source | State | Operations | Module |
|---|---|---|---|---|
| A. Service-name claims | dbuspathdispatcher.cpp | one claim per (connection, name): holders, reference count, owned, queued, pending, token, what was last told; a mailbox of notes and a wake flag | attach, detach, the RequestName answer, owner changes, loss of the connection, the relay | ServiceClaim |
| B. Path registry | dbuspathdispatcher.cpp | a dispatcher per path: its adaptors, whether it captures the subtree, captured children, the capturing root | attach, detach, routing a call, introspection | PathRegistry |
| C. Method dispatch and held replies | dbusadaptor.cpp, dbusheldreply.cpp | a stack of dispatch contexts; handles with a settled flag and a timer | handleMessage, holdReply, send, sendError, expire, unregister, destruction | OneReply, HeldReplies |
| D. DBusProxy property cache | dbus.cpp | target, status, property map, subscription, introspection cache, re-fetch epoch, a pending Set per property | setters, introspection, GetAll, PropertiesChanged, re-fetch, writes | ProxyProperties |
| E. Pending replies and promises | dbuspendingreply.cpp, dbusconnection.cpp 1322-1415, dbus.cpp 501-596 | per reply: settled, handed to the collector or not, receivers; the owner and the waiters of a shared Get | completeLocalError, onFinished, completeFromReply, delivery, calls with a promise, deletion | PendingReplies |
| F. Connection and loss probe | dbusconnection.cpp 1253-1304, dbus.cpp 258-314 | connected, a probe that is out, a timer to send the next; the proxy's own for the default connection | armLossProbe, disconnected, ensureSessionDisconnectWatch, onBusDisconnected | Followers; its outcome is an input of A |
| G. Subscriptions and signal watcher | dbussubscription.cpp, dbussignalwatcher.cpp | revoked flag, match rules | create, revoke, deliver | Followers, ProxyProperties |
| H. Object manager | dbusobjectmanager.cpp | the map of objects, ready | setup, GetManagedObjects, InterfacesAdded, InterfacesRemoved | Followers |
| I. Service watcher, the proxy's presence and owner trackers | dbusservicewatcher.cpp, dbus.cpp | registered; serviceAvailable; m_currentOwner | setup, owner changes | Followers |
| J. File descriptors | dbustypes.cpp, dbusutils.cpp 260-322 | ownership of a descriptor, decode budget | duplicate, take, close, decode | WireData for decoding and writing |
| K. Signatures, the slot pool, marshalling | dbusutils.cpp, dbusconnection.cpp 450-1250, dbussignatureslots.h | 64 slots, assigned once | validate, read, write, signatureSlotForSignature | WireData |
| L. Type catalog, introspection XML | dbuscatalog.cpp, dbusintrospection.cpp | a table of interfaces | parse, lookup | not planned |
| M. Adaptor names, options, served properties | dbusadaptor.cpp 294-709, 858-1440 | declared members, signals and options; a relay per signal | naming, option filter, introspection XML, a PropertiesChanged per notify signal | ServedNames for names, WireData for options |
| N. Plugin, build, tests, examples, fuzzers, types/*.xml | | none | | not planned |

How they interact. An adaptor attaches itself to B for its path and to A for
its name when its component is complete, and detaches from both when it is
unregistered or destroyed. QtDBus hands a call to the dispatcher registered
for its path (B), which routes it to an adaptor, which runs a QML handler (C).
A's relay calls `nameAcquired` and `nameLost` of the adaptors, whose handlers
may unregister, delete or create adaptors there and then. F tells A that the
connection is gone. D uses G for its signals; E is what D and the connection
give to QML for a call; I and D's own watchers ask the daemon who owns a name
and follow its changes; J and K sit under everything that is marshalled.

What is hard, and what makes each part correct:

- **A.** Three sources tell of ownership: the answer to RequestName, owner
  changes, and a blocking registration that may time out. They come in any
  order, and for claims that may be gone, torn down or adopted by a new
  adaptor. Correct: every holder is told of every net change, in alternation
  and never twice; the registry agrees with the daemon when all is handled; a
  name nobody holds is released; no wake is lost.
- **B.** Dispatchers appear and go in any order, and a capturing root and its
  children know of each other from both sides. Correct: both sides agree;
  nothing outlives its last user; a captured path answers and is introspected
  exactly as if it were registered alone.
- **C.** A handler may hold its reply, call its own adaptor, unregister it,
  throw after holding; a timer, the destructor or the end of the engine may
  come first. Correct: exactly one reply per call that wants one.
- **D.** Replies and signals of an earlier target, a write in flight, a write
  behind it, a re-fetch. Correct: when all is quiet the map is what the target
  holds; writes of a property are serialised and go to the object they were
  meant for; the proxy does not end up deaf or loading for ever.
- **E.** A reply settles once; the handler that runs at delivery may destroy
  it; delivery is direct or queued. Correct: finished is emitted once, after
  the caller could connect, to the owner and to every waiter.
- **F.** The probe re-arms itself by timer. Correct: a loss is reported once
  to every wrapper, and is reported at last.
- **G, H, I.** An answer has no identity, and the element may have been pointed
  elsewhere, turned off and on, or cut off. Correct: at rest it shows what holds
  where it points, and each change reached it once.
- **J, K.** Budgets, pools, and two passes over one value. Correct: a message is
  decoded whole or leaves no descriptor open; a value is written whole, as its
  signature says, or not at all; a slot is assigned once.
- **M.** Names are worked out in one direction for introspection and in the
  other for dispatch, and once and for all for signals. Correct: what is
  advertised is what answers.

PROJECT.json lists each hazard at its line, with the properties that cover it
or the reason why none does.

## 2. Plan

Done, in this order, the most central first:

1. `ServiceClaim` (A) with its daemon, `ServiceClaimProofs`.
2. `PathRegistry` (B).
3. `OneReply`, the promise to a caller, and `HeldReplies` (C), which
   implements it.
4. `ProxyProperties` (D).
5. `PendingReplies` (E) with the coalesced Get of D.

6. `Followers` (F, G, H, I).
7. `WireData` (J, K, the option filter of M) and `ServedNames` (the names of M),
   composed with C in `Delivery`.
8. Proofs of A to I, each in a module of its own, and `EntriesProofs` under
   them (section 12).
9. What holds at rest: the proofs of `OwnershipAgrees` and `NoGhostOwner` of A
   and of `RightAtRest` of F to I.

`HeldReplies` instantiates `OneReply`, which it implements, and `Delivery`
puts it beside `WireData` and `ServedNames`. The others share no state. Their
interfaces are B's route to an adaptor (C's `Deliverable`), A's handlers
(`UserMayRun`, which lets the application attach and detach in them) and F's
report.

All modules but those of the runs are parameterised by constants with named
assumptions, have one action per operation, and use no RECURSIVE operator, so
that each can be proved about. `Entries` is the one operator on queues that
several of them need and the library has only in a recursive form. The exception is `WireData`, whose readers and
writers recurse over values as the code does; `Delivery` and its run use it,
and no module of proofs does.

## 3. ServiceClaim

The claim of each well-known name on one connection, the daemon and one
competing client beside it.

| Module | Code |
|---|---|
| `claims[n]` | `ServiceClaim` of the registry; `exists` says whether there is a record |
| `nextToken`, `armed` | `nextRequestToken()`, whether the connection has an `OwnerChangeReceiver` |
| `notes`, `drainPosted`, `relay` | the mailbox, its wake flag, `OwnerChangeRelay::event` in progress: the holders it copied and still has to tell |
| `mainQ` | events posted to the main thread: owner changes, RequestName answers, wakes, the loss of the connection |
| `main` | idle, or inside a blocking `registerService` / release, or between RequestName and the creation of its watcher |
| `life`, `heard` | ghost view of each adaptor: attached or not, and what it was told last |
| `up`, `broker`, `link` | external: calls sent, the daemon's owner and waiter of each name, the connection |

`AttachJoin`, `AttachFlagged` + `WatchReply` and `AttachPlain` +
`RegisterReturns` are `attach`; `DetachOne`, `DetachLast` + `ReleaseReturns`
are `detach`; `HandleOwnerChange`, `HandleReply`, `HandleConnectionLost` the
handlers of those names; `TakeWake`, `RelayNote`, `RelayDeliver`, `RelayDone`
the steps of the relay between which application code runs. A blocking call is
two actions because the bus goes on while the thread waits; everything else of
a handler is one action. `UserMayRun` is where the application may attach,
detach and delete: from the event loop, and in the handlers of the relay, not
inside a blocking call. The note of a name is never in the mailbox twice to any
effect, so `notes` is a set, which also leaves their order open.

Assumptions on the outside: the daemon answers calls in order and sends the
owner change before the answer of the call that caused it; one competitor is
enough, for the code only asks whether the owner is this connection; the loss
of the connection is noticed behind every event posted before it (the loss
probe's call is the last in its queue) and only once.

What must hold: `OwnedIsAnnounced` is the source's invariant A5;
`NoLostWake`, `RefsCountHolders` relate the registry to the mailbox and to the
adaptors; `OwnershipAgrees`, `NoGhostOwner`, `HoldersInformed` compare it, once
nothing is under way, with the daemon and with what the adaptors heard;
`ToldInTurn` is about what one adaptor hears;
`NoticeSettles` says that what waits for the relay is dealt with.

Fairness (`FairSpec`): the event loop takes what was posted to it and handlers
and blocking calls return (`MainStep`), and the daemon answers (`DaemonStep`).
Nothing is assumed of the application, the peer or the connection.

## 4. PathRegistry

| Module | Code |
|---|---|
| `disp[p]` | `DBusPathDispatcher` of path p: `adaptors` is m_adaptors in order, `captures`, `requestedCapture`, `capturedBy` is m_root, `children` m_children |
| `qt[p]` | external: QtDBus's object tree: free, a single path, a SubPath, or the application's own object |
| `at`, `refused` | where each adaptor is, and whether its attach returned false |

`AttachShared`, `AttachMismatched`, `AttachCaptured`, `AttachRoot` and
`AttachRejected` are the outcomes of `attach`, `Detach` is `detachAdaptor` with
`Dying` for the dispatchers that go with it. Routing is not an action, for it
changes nothing: `Answer(p, m)` is what a call m to path p gets, through
QtDBus's lookup (external), `handleMessage` and `routeToAdaptors`;
`Advertised` and `NodesBeneath` are what introspection shows. The properties
compare these in every reachable registry.

`LooksDeep` is the assumption on QtDBus that matters most: does it refuse a
capturing path when a path deeper than a child is registered? The run takes it
to be so, as src/API.md:602 says ("Refused if paths are already registered
beneath the prefix"). With `LooksDeep = FALSE` `AnswersAsPlain` does not hold:
a path registered before, two levels down, is hidden by the capture. A root
that lost its own adaptors and lives on for its children answers calls to its
own path with an error rather than as absent; the properties speak of paths
that adaptors serve. What QtDBus answers to each member of a path that answers by
itself is taken to be what the code's fallback answers in a captured one: the two
share a predicate (`Answer`), and the properties test which of them a path meets.

## 5. OneReply and HeldReplies

`OneReply` is what a caller is promised (src/docs/PARITY.md, section 5): a
call that wants a reply gets one and only one, a call that wants none gets
none. `HeldReplies` is how one adaptor keeps that, and implements it
(`ImplementsOneReply`, with `CallerOf` as the mapping).

| Module | Code |
|---|---|
| `call[c]` | external: the message: whether it wants a reply, whether it comes over the adaptor's own connection, how many replies reached its caller |
| `stack` | m_currentCall and m_callStack: the dispatches in progress, inner first, each with `held` and its handle |
| `handles` | the `DBusHeldReply` objects: of which call, settled, timer armed |
| `adaptor`, `engine` | attached, detached, destroyed; the QML engine alive, gone with the teardown posted, gone |

`Answered` is every delivery for which no QML handler runs, `StartHandler` one
for which it does, possibly inside another handler; `ReturnHeld`,
`ReturnUnheld`, `ThrowHeld`, `ThrowUnheld` are the ends of `handleMessage`;
`HoldReply`, `Send`, `Expire`, `Unregister`, `Destroy`, `EngineGoes`,
`EngineTail` are the methods and events of those names. A thrown `undefined`
counts as a return, which src/KNOWN_ISSUES.md documents as undetectable. A
local call that was not answered in the delivery is answered by QtDBus
(src/API.md:820). A handle is not collected within the dispatch that made it.

Fairness: handlers return, timers fire, what was posted runs. A handle without
a timer may wait for ever while its adaptor and engine live, as documented; so
`TimedHoldEnds` is of those with a timer.

## 6. ProxyProperties

One proxy, the objects it can point at, and a FIFO in each direction to the
service of each object.

| Module | Code |
|---|---|
| `target`, `PlaceOf` | m_service, m_path, m_iface and the connection; the first three alone |
| `signalsOn`, `propertiesOn` | m_signalsEnabled, m_propertiesEnabled |
| `status`, `queued` | m_status, m_introspectQueued |
| `introspected` | m_introspectCache |
| `subscribed` | the target of m_propertySubscription |
| `cache` | the property map; `Null` is the placeholder |
| `epoch`, `sets`, `failedSets` | m_refetchEpoch, m_pendingSets, m_failedSetRefetch |
| `requests`, `inbox`, `server` | external: calls and answers on their way, what the objects hold |

`Repoint` is the four setters, `SetSignalsEnabled` and `SetPropertiesEnabled`
the two switches, `DoIntrospect` the zero timer's function,
`IntrospectReply`, `GetAllReply`, `OnPropertiesChanged`, `GetReply`, `SetReply`
the handlers of answers and signals; `Write` is `setProperty` or, when the map
takes the value at once, `updateValue`; `SetFinished` is `finishPendingSet`
with the re-fetch of a failed write, and `WrittenAgain` the case that the
`propertyWriteFailed` handler, which runs between the two, writes the property
again; `WriteDropped` is `updateValue` with a value that cannot be marshalled:
no Set is sent, and the map has the value nevertheless; `SetTimesOut` a timeout after which the service may still carry out the
write. A queued write is sent to the place it was made for, over the connection
the proxy has when it is sent (`OverLiveConnection`). `for` in the record of a write is a
ghost: where the proxy pointed when the application wrote.

Assumptions: a service signals every change of a property's value, by value or
by name, to who is subscribed, in the order of its answers; it need not signal
a write that changes nothing. It may refuse Introspect, GetAll and Set, but
answers Get (a failed re-fetch keeps the old value, as documented). All targets
have the same properties. The two targets belong to one service: then a GetAll
answer of the old target comes before the new one's. With two services nothing
orders them, and the code does not look at the identity of a GetAll answer.

The run `proxy` is restricted to what the code handles: one name per
invalidation (`MaxInvalidated = 1`), optimistic writes only (`WriteKinds`), and
no write of a property at the new target while the Set to the old one is
unanswered (`CrossWrites = FALSE`). The two violation runs lift the first and the
last; section 11 tells of the other. All runs have one connection; with two, a
queued write may reach the old place on the new one (section 11).

`Converges` says that once all is quiet the proxy is loaded and, with both
switches on, shows what the target holds, or a value that could not be sent
(section 11); `NeverDeaf` that at any time it is
subscribed to its target or on the way to be.

Fairness: the zero timer fires, each service serves, and the connection
delivers. Nothing is assumed of the application or of timeouts.

## 7. PendingReplies

The replies of calls, from the call to their deletion: who is told that they
have finished, and when they may and must go.

| Module | Code |
|---|---|
| `reply[r]` | a `DBusPendingReply`: `owner` is its parent or the collector, `settled` m_finished, `receiver` who is connected to finished, `promise` that m_gcHandoff is off; `told` is a ghost |
| `wire`, `gets` | watchers that have not finished, m_pendingGets: the owner first, then the waiters |
| `finishing` | the rest of `finishPendingGet`'s loop |
| `emitting` | the reply whose finished is being emitted: a handler may be running |
| `caller` | a call has returned, and the application has not connected yet |
| `events` | what was posted to replies: queued emissions and deferred deletes, in order |
| `engine`, `creators` | the QML engine; which of the proxy and the connection are alive |

`Call` is `DBusProxy::call`, `callMethod` and `DBusConnection::asyncCall`, each
of which sends or fails locally; `Promise` is `asyncCall` with callbacks,
`GetProperty` is `getProperty`. `Returned` is the rest of the caller's turn.
`OnFinished` and `FinishGet` with `Complete` are the ways a reply ends, each
through `settle`: `SettleLater` is its queued form, `SettleNow` its direct
form, which `EmissionReturns` ends. The application runs, makes calls and
destroys things from the event loop and in handlers (`UserMayRun`), as the
repository's tests do (tests/test_dbusconnection.cpp:6606 and 6952).

Left out: values and errors, which no step depends on but the choice between
resolve and reject; a reply the application keeps for good, for it only stays;
handlers that run an event loop of their own.

`DestroyReply` and `DestroyCreator` are the application's: it may destroy any
reply it was given, or the proxy or connection with what is still their child,
whether settled or in flight, from the event loop or in a handler. (A promise's
reply it was not given.) The owner and the waiters of a shared Get are plain
pointers (src/dbus.h:228-232) that nothing takes out of the record when their
reply is destroyed: `finishPendingGet` comes upon one that is gone. What the
program does then is undefined, and the model stops there (`Undefined`); this is
the violation run replies_destroyed (section 11). Two properties are left of
it. `OnlyDestroyedDangle`: a pointer of a Get dangles by the application's own
deletion only, never because the collector, the end of the engine, a deferred
deletion or an answer took a reply that a Get holds; a reply that is there has
not settled. And what `HandlersAreTold`, `PromisesEnd` and `NothingAccumulates`
promise, they promise of replies that are not destroyed, in runs that do not
come to `Undefined`.

Fairness: calls and handlers return; the event loop runs what was posted;
QtDBus ends every call with an answer or a timeout; the collector runs now and
then, without which nothing can be said of collected replies. Nothing is
assumed of the application.

## 8. Followers

Five elements have one shape: they subscribe to changes, ask for what holds
now, and can be pointed elsewhere, turned off and cut off. `kind` says which of
them a behaviour is about.

| `kind` | Element | follows |
|---|---|---|
| ServiceWatcher | `DBusServiceWatcher` | whether a name has an owner; asks with a blocking call |
| Presence | `DBusProxy::serviceAvailable` with watchServiceStatus | the same, asked without blocking |
| OwnerTracker | `DBusProxy::m_currentOwner` | who owns the proxy's service |
| ObjectManager | `DBusObjectManager` | the set of objects of a service |
| SignalWatcher | `DBusSignalWatcher` | signals; asks nothing |

| Module | Code |
|---|---|
| `el.complete`, `enabled`, `peer`, `name` | componentComplete, watchServiceStatus / signalsEnabled / enabled, the connection (for H and G: the service), what is followed |
| `el.sub`, `at`, `matched` | m_watcher, m_serviceWatcher, m_ownerWatcher or m_subscription: which one, the place it was made for, whether the peer has its match rule |
| `el.blocked` | inside the blocking question of a service watcher |
| `el.known`, `ready` | registered, serviceAvailable, m_currentOwner, the map of objects, the last signal; ready |
| `probe` | m_connected, m_lossProbe, m_lossRearm of each connection object; m_sessionDisconnectWatched and the gate timers of the proxy |
| `net`, `up`, `truth` | external: messages each way, live connections, what each peer would answer |
| `el.failed`, `orphaned`, `told`, `said`, `heard` | ghosts: the last answer was an error; the connection died under it, and how often it was told; signals sent to this receiver and heard by it |

`SetPeer`, `SetName`, `SetEnabled` are the setters, `ComponentComplete` and
`Introspected` the two moments that start an element; `ChangeArrives`,
`AnswerArrives`, `PongArrives` the handlers, `BlockingCallReturns` the end of
the service watcher's question, `ArmLossProbe` and `SessionGate` the timers of
the probes. What differs between the kinds is in the operators `ServiceWatcherSetup`,
`EnsureServiceWatcher`, `SetupOwnerTracker`, `ObjectManagerSetup` and
`Resubscribe`: the functions of those names, the first and the fourth being
`setup` of their classes.

`RightAtRest`: once every question is answered and every change heard, an
element shows what holds where it points, unless it was refused the answer.
`ExactlyOnce`: a receiver hears every change its peer sent it and no other.
`ProbeStands`: a probe neither stops nor doubles while its connection lives.
`LossIsNoticed`: a proxy whose connection died under it is told at last, once,
and shows nothing of the service from then on.

Assumptions: messages between an element and one peer stay in order, and
nothing is said of two peers; a call on a dead connection is answered with an
error. The names followed are well-known ones: for a unique name the owner
tracker takes the name itself (src/dbus.cpp:872) and follows nothing.

Two switches leave out what the code does not get right (section 11):
`CrossAnswers` lets an object manager turn elsewhere while an answer is
awaited, `MoveWhilePinged` lets a proxy leave the default connection while its
ping is.

Fairness: QML completes the element, peers answer, the connection delivers,
timers fire, a blocking call returns. Nothing of the application, of changes or
of deaths.

## 9. Delivery, WireData and ServedNames

`Delivery` puts together the three models of a call that reaches an adaptor:
which member it is for, what is done with its data, how it is answered. They
meet in one place each, an `Answered` of `HeldReplies` that says "no such
member", "does not decode" or "option refused", and share nothing else. So
`Delivery` is their sum: a behaviour is of one of them.

**WireData.** A `job` is a piece of data and what is to be done with it.

| Job | Code | Must hold (`AllOrNothing`) |
|---|---|---|
| parse | `validateSignature`, `firstCompleteType` and its callers | `Parsed`: accepted is exactly what spells a legal type, and the walkers take it for one |
| options | `filterOptions` and the coercions of dbusadaptor.cpp | `FilteredAsDeclared`: what passes is typed as declared; what conforms passes unchanged |
| write | `writeProbe`, `appendStaged`, `writeBySignature`, the slots | `WrittenAsDeclared`: all of the value, as its signature says and with its descriptors open, or not a byte; slots never taken away or doubled, and no failure while there is room |
| decode | `decodeMessage`, `readBySignature`, `takeReceivedFd` and the rollback of dbusutils.cpp | `DecodedWhole`: all arguments, or an error and every duplicated descriptor closed; an error only for what the bus would not pass or the budget does not cover |

The reference is apart from the code's parsers: types and wire data are trees,
`Legal` and `Passes` count the nesting of a tree, `Str` spells it, `ReadsTo`
reads a written stream back by the type's tree. Decoding goes argument by
argument (`DecodeArgument`); the others are one step of the code and are
checked in the state that holds the job. Bounds stand in for the code's: nesting
of 2 for 32, length 7 for 255, two slots for 64, two descriptors for the
budget; the operators take them as constants, and each is reached from both sides.

**ServedNames.** `served` holds the members of an adaptor in the order of their
declaration, `aliases` (m_members), `signals` (m_signals), `options`
(m_options), what the `catalog` says, and the names of its signal `relays`,
which are fixed in `ComponentCompletes`. `AdvertisedName` is the naming ladder,
`CandidateQmlNames` and `Resolved` the way back. `ServedAsAdvertised` says that
whatever the tables are set to, and when, every member answers to the name that
introspection gives it, and no other member does in its place unless names fold
alike; and that until a table changes on a completed adaptor its signals go out
under names in its introspection, and no option is left that rules nothing.

## 10. Runs

| Run | Checks | Bounds and why they do |
|---|---|---|
| claims_single | `TypeOK`, `HoldersInformed`, `ToldInTurn`, `NoticeSettles` | one adaptor slot, used again and again with a token each (`MaxToken = 4`: a claim, its adoption and one more), plain, queueing or replacing; the peer pauses at two queued events (`MaxQueue`), enough for a loss and a regain to wait together; blocking calls time out, the link dies. 463806 states |
| claims_shared | `OwnedIsAnnounced`, `NoLostWake`, `RefsCountHolders`, `OwnershipAgrees`, `NoGhostOwner` | two flagged adaptors, five tokens: a second generation of both; a release may time out and a new claim follow it. 1298511 states |
| claims_joiner, claims_ghost | violation, section 11 | smaller |
| paths | `TypeOK`, `CaptureAgrees`, `NothingLeaks`, `AnswersAsPlain`, `AdvertisedIsServed`, `Discoverable` | a chain of three paths and one beside it, four adaptors, three of one interface: nested capture, two adaptors on a path, two interfaces. Unbounded in time; the three are interchangeable, hence the symmetry. 7704 states |
| held | `TypeOK`, `NobodyForgotten`, `ContextIsOwn`, `AllOrNothing`, `ServedAsAdvertised`, `ImplementsOneReply`, `TimedHoldEnds`, `TeardownAnswers` | three calls, two nested, three handles: an inner and an outer held reply and one more. Data: every string of up to five of six signature characters and longer ones at the limits; values two deep under types of up to three levels; wire data up to one level too deep, descriptors around the budget. Names: four adaptors whose names fold alike or clash, tables of at most two entries, changed before and after completion. 93340 states |
| proxy | `TypeOK`, `Converges`, `OneSetOnTheWire`, `WritesGoWhereAimed`, `NeverDeaf` | two targets, one property of two values. One of four mixes: two writes, refused or timed out, a change and one restart or repoint at any point; four restarts or repoints and two refusals, an abandoned introspection on top of another; the switches, once or twice, with a change, a restart or repoint and a refusal. One value cannot be marshalled. 1768795 states |
| followers | `TypeOK`, `RightAtRest`, `ExactlyOnce`, `ProbeStands`, `LossIsNoticed` | two peers, two names at each, two owners or objects; the budgets are alternative mixes of moves, changes, refusals and deaths (up to three moves), for each kind. 423756 states |
| replies | `TypeOK`, `OnlyDestroyedDangle`, `GetsAreShared`, `DeletedWhenDone`, `HandlersAreTold`, `PromisesEnd`, `NothingAccumulates` | three calls of any kind, from the event loop or from handlers: enough for an owner, a waiter and a Get made by the handler of the first. Plain calls are the proxy's, promises the connection's; handlers refer to their reply or do not; the engine is there, is not, or goes; any reply, the proxy and the connection are destroyed at any time. 120465 states |
| proxy_invalidated, proxy_cross, replies_destroyed | violation, section 11 | smaller |

The two claims runs check what holds in each: with plain claims the registry
and the daemon may differ for good (claims_ghost), so `OwnershipAgrees` and
`NoGhostOwner` are checked where all claims are flagged; with two adaptors
`HoldersInformed` fails (claims_joiner), so it is checked with one.
Deadlock is not checked where the bounds on tokens, writes or calls end a run.

Every property of a passing run has a mutant in PROJECT.json: a plausible bug,
the operator `X_Y` beside `X`, under which the same run finds the property
violated.

## 11. Where the code falls short

- **claims_joiner.** Name lost and regained before the relay runs; an adaptor
  that joined in between is not told directly, because the claim was not owned,
  and the relay sees no net change. It never hears `nameAcquired`.
- **claims_ghost.** A flagged claim is detached and its name claimed again by
  a plain adaptor; the owner change of the first release, handled after the
  registration, sets `owned` to false. At the last detach nothing is released:
  the process owns a name that no adaptor serves.
- **proxy_invalidated.** One signal invalidates several properties; each
  re-fetch raises the same epoch, so that all answers but the last are dropped
  as stale, and those properties keep their old values. Two signals of one name
  each, or two failed writes, of different properties do the same if the second
  is handled before the first's re-fetch is answered (`MaxInvalidated = 1` with
  two changes; `MaxInvalidated = 0` with two writes).
- **proxy_cross.** A write at the new target, made while the Set of the same
  property to the old target is unanswered, is folded into the old record and
  sent to the old target.

- **replies_destroyed.** The application destroys a reply of a shared Get
  before the answer comes, or in the handler of one that is completed before it.
  The record keeps the plain pointer, and `finishPendingGet` completes an object
  that is gone (src/dbus.cpp:590-595); its null tests are never false. Elsewhere
  a watched reply is the receiver of its own connection, which ends with it, and
  `settle` and `deliverFinished` hold a QPointer. A handler that destroys the
  proxy, and with it the waiters that are still its children, is the same case.

Met while modelling, and found again by turning a switch of the model or
changing a constant (no run keeps them):

- **A refused value that nobody re-reads** (src/dbus.cpp:840 and 660). An
  optimistic write is refused while a `setProperty` of the service's own value is
  queued behind it, or is made by the `propertyWriteFailed` handler. That write
  succeeds, changes nothing, is not signalled, and does not re-fetch: the map
  keeps the value that was refused, against src/dbus.h:137-138, "the map converges to
  the server's value, never a local inference". `WriteKinds = {TRUE, FALSE}` in
  proxy.cfg: `Converges` fails.
- **An answer of GetManagedObjects has no identity** (src/dbusobjectmanager.cpp:88).
  Pointed at another service while the answer of the first is awaited, the
  manager may end up with the objects of the first. `CrossAnswers = TRUE`:
  `RightAtRest` fails.
- **The probe of the default connection goes on in a proxy that has left it**
  (src/dbus.cpp:287-289). The answer that comes after `setConnection` leaves
  m_sessionDisconnectWatched set, so that no ping is sent when the proxy comes
  back; and a failure tears down the follower of the new connection.
  `MoveWhilePinged = TRUE`: `ProbeStands` fails.
- **A queued write is drained over the live connection** (src/dbus.cpp:793) to
  the snapshot of service and path. With two targets of one `PlaceOf` and two
  services, `WritesGoWhereAimed` fails.
- **Properties switched on after a failed introspection** (src/dbus.cpp:239).
  With `propertiesEnabled` off, a refused introspection gives up; switched on,
  the proxy sends GetAll and becomes Ready, but does not subscribe until it is
  pointed again or the service restarts. With two switches and a refusal in one
  budget, `NeverDeaf` and `Converges` fail; the run's budgets have the one or
  the other. Between two services one switch does: properties are switched off
  and the proxy pointed elsewhere with a GetAll unanswered; the introspection of
  the new target is refused, and then the GetAll answer of the old one makes the
  proxy Ready, without a subscription (two targets of one `PlaceOf` and two
  services; `NeverDeaf` fails).
- **A capture two levels above** an existing path: `LooksDeep = FALSE`, section 4.
- **A value that could not be sent stays in the map** (src/dbus.cpp:699-703).
  `updateValue` drops the write with a warning, and returns the value, so that
  the map shows it as if it were written. Nothing is re-fetched; the next answer
  or signal of the property puts it right. src/API.md:172-173 says of such
  writes that they "are dropped with a warning", and nothing of the map.
  `Converges` without its `Unsendable` fails.
- **Signals keep their names** (src/dbusadaptor.cpp:841). When `_members`,
  `_signals` or the catalog change on a completed adaptor, introspection shows
  the new names and the relays emit the old ones; the comment at
  src/dbusadaptor.cpp:1180 says "emission and introspection can never diverge".
  They also diverge when the catalog declares a method and a signal that differ
  in the case of the first letter only. `ServedAsAdvertised` without
  `~served.renamed` or without `OneSpelling` fails.
- **Crossed aliases.** With `_members: { OpenFile: "open", Open: "doOpen" }`
  and `open` declared first, `Open` runs `open`: dispatch takes the first
  declared method among all candidates of a name, not the first candidate
  (src/dbusadaptor.cpp:1635), while introspection gives `Open` to `doOpen`.
  src/API.md:513 says that the first tier which declares a name wins, and that
  "the wire and the XML can never disagree". `ServedAsAdvertised` without
  `Apart` fails.
- **Two options of one method.** If `_options` names a method both by its own
  name and by its wire name, the second entry is kept and never looked at.

Seen in the code while modelling, and not checked: a proxy pointed at a
connection that is already dead keeps its serviceAvailable until the next
answer; serviceAvailable is not reset when its watch is disabled, nor
`registered` when the service of a `DBusServiceWatcher` is emptied; an object
manager is not told of a restart of its service; an option declared `ai`
that is given a byte array is delivered as an empty list; the integer types
`y`, `n` and `q` are not narrowed in options; a struct that lacks members is
written with empty ones, and surplus members are dropped; the value of a local
call has no variants left, so its depth may differ from that of the same call
over the wire.

## 12. Proofs

Each component has a module of proofs that extends it. A theorem there holds
for every value of the constants that the named assumptions allow, however many
adaptors, calls, peers or values, and with no bound on the length of a run;
TLC evaluates the assumptions on every run. A hypothesis beyond them is written
into the theorem, and given below with the reason for it.

Every proof has the same shape: an invariant `IInv` that is inductive and
implies what is to be shown; `Init => IInv`; `IInv /\ [Next]_vars => IInv'`,
with a lemma for each action and lemmas on the operators that the actions are
built from; and a temporal step. What makes `IInv` different from the property
is told for each.

| Theorem | States | Hypothesis |
|---|---|---|
| ServiceClaimProofs `TypeCorrect` | `TypeOK` | |
| `EveryOwnerAnnounced` | `OwnedIsAnnounced` | |
| `WakeNeverLost` | `NoLostWake` | |
| `RefsAreRight` | `RefsCountHolders` | |
| `ToldInTurnAlone`, `InformedAlone` | `ToldInTurn`, `HoldersInformed` | `OneAdaptor` |
| `RegistryKnowsOwner`, `NoNameLeftBehind` | `OwnershipAgrees`, `NoGhostOwner` | `AllFlagged` |
| PathRegistryProofs `TypeCorrect` | `TypeOK` | |
| `CaptureAgreed` | `CaptureAgrees` | |
| `NoLeak` | `NothingLeaks` | |
| `AllDiscoverable` | `Discoverable` | |
| `CapturedAnswersAsPlain` | `AnswersAsPlain` | `LooksDeep` |
| `AdvertisedServed` | `AdvertisedIsServed` | `LooksDeep`, `OwnInterfaces` |
| HeldRepliesProofs `TypeCorrect` | `TypeOK` | |
| `ContextNeverMixed` | `ContextIsOwn` | |
| `NobodyIsForgotten` | `NobodyForgotten` | |
| `EachCallAnsweredOnce` | `ImplementsOneReply`, the refinement | |
| ProxyPropertiesProofs `TypeCorrect` | `TypeOK` | |
| `OneSetAlways` | `OneSetOnTheWire` | |
| `WritesAimed` | `WritesGoWhereAimed` | `Straight` |
| `HearsItsTarget` | `NeverDeaf` | `Steady` |
| `HearsForProperties` | `propertiesOn => NeverDeaf` | `Tame` |
| `MapInStep` | `Converges` | `Simple`, `Tame` |
| PendingRepliesProofs `TypeCorrect` | `TypeOK` | |
| `GetsShared` | `GetsAreShared` | |
| `DanglingIsDestroyed` | `OnlyDestroyedDangle` | |
| `DeletionWaits` | `DeletedWhenDone`, an action property | |
| FollowersProofs `TypeCorrect` | `TypeOK` | |
| `ForwardsOnce` | `ExactlyOnce` | `~MoveWhilePinged` |
| `ProbesStand` | `ProbeStands` | `~MoveWhilePinged` |
| `ShowsTheTruth` | `RightAtRest` | `~MoveWhilePinged`, `~CrossAnswers` |
| ServedNamesProofs `NamesAgree` | `ServedAsAdvertised` | |

**ServiceClaimProofs.** `IInv` strengthens A5 and the wake with what the code
keeps in between: an absent record is blank and one that is no tombstone has
holders (`ClaimInv`); a claim inside a blocking registration stays on record
(`RegisteringIsRecorded`); and the chain that A5's "waits" hangs on: a claim
that waits has its note in the mailbox (`NoticeHasNote`), a mailbox with notes
has a wake posted or the relay draining (`NoteHasWake`), a set flag has a wake
in the queue (`WakeIsPosted`). `HoldersInv` is for the count of references:
the count is the number of holders (`Counts`), whoever is attached or on the
way is a holder somewhere (`AttachedIsHolder`), of one name only
(`HoldsOneName`), and an attach that blocks is by an adaptor that is recorded
already (`AttachingInside`). `SoleInv` is for what adaptors hear. What a holder
was told is what the claim says was told last, except to those the relay still
has to tell (`HolderKnows`); the relay tells only who still holds something
and never inside a blocking call (`TellsHolders`, `TellsBetweenCalls`); an
answer that is pending is for an attach under way (`PendingInside`), which
found nobody told (`RegistersUntold`); and a loss nobody was told of is in the
mailbox (`LossAnnounced`). With two adaptors `HolderKnows` is false, as
claims_joiner shows; `OneAdaptor` is that case left out, and it leaves any
number of names and any sequence of claims, adoptions and deletions.
`OwnInv` is for the registry and the daemon. Their agreement is claimed for the
moments when nothing is under way, so it has to be followed through the queues
(`FollowsAll`): the last owner change that waits is what the daemon records,
and where none waits the claim says the same; an answer that grants the name
has the signal of it ahead, or finds it handled, or a loss since noted
(`Explained`), and so has the answer a watcher carries (`Watched`). That an
answer is matched to the right request needs each token to be in one place at a
time (`Tokens`). The daemon seats the connection at a name only while somebody
holds it or a release of it is on the socket (`Seats`). A release that timed out
stays there, and a new claim may send its request behind it and its own release
behind that: `Requests` says that the requests of a name have a release between
them, and that each finds the connection outside by the time it is served. Until
an old release is served the daemon may record as owner a connection whose new
claim does not own yet; that is `going` in `Follows`. Nothing arrives before the
registry listens (`Arming`), and if the link dies nothing is claimed.
`AllFlagged` leaves out the plain registration, as claims_ghost demands.

**PathRegistryProofs.** `IInv` says of each dispatcher that it is blank when
gone, has a user when there, does not capture while captured, and was captured
from above (`DispatcherInv`); that its list holds, once each, the adaptors that
are at its path (`ListsInv`); that QtDBus has a registration for every
dispatcher that is not captured, of the right kind (`TreeInv`); and
`CaptureAgrees`, from both sides. Paths are a tree of any shape and depth: all
that is assumed of `Above` is that above an ancestor is what follows it in the
list (`AboveAssumption`). Under `LooksDeep` nothing is registered beneath a
SubPath object (`SubpathAlone`), so that a captured path's nearest answering
object is its root; this is what makes a captured path answer like a plain one,
and section 4 says why `LooksDeep` is assumed. `OwnInterfaces` is that no
adaptor calls its interface `org.freedesktop.DBus.Introspectable` or
`.Properties`, which every object has already.

**HeldRepliesProofs.** Three sources may answer a call: the delivery itself,
QtDBus for a local call, and a handle. That none answers twice and one does at
last needs to know who still can: `CallInv`, `HandleInv` and `DispatchInv` say
what has been sent for a call, a handle and a dispatch; a call has one handle
and one dispatch (`OneHandleEach`, `OneDispatchEach`), and a running call has
one (`RunningIsDispatched`). Nothing runs without the adaptor and the engine,
and their end settles every handle (`LivingWhileRunning`, `GoneIsSettled`).
`EachCallAnsweredOnce` maps each action to a step of `OneReply` or a stutter;
it is the safety part of `OneReply`, which has no other.

**ProxyPropertiesProofs.** The messages are typed first (`Outgoing`,
`Incoming`): an answer carries what was asked for. `OneSet` says of each
property that among all services and both directions the awaited Sets of it are
as many as its record stands for; the proof counts messages, and follows the
count through sending, serving, delivery, timeouts and abandoned calls.
`Aim` says that those go where the record says and that the record says where
the application meant; it needs `Straight`: all targets over one connection
(`OneConnection`), because a queued write goes out over the live one, and no
write at a new target while one to the old is unanswered (`~CrossWrites`), as
proxy_cross shows. `Listens` is `NeverDeaf` without its way out for proxies of
methods only, and `Lenient` says that no refused introspection reaches such a
proxy; they are inductive where nothing is switched or nothing is refused
(`Steady`). With one switch (`Tame`), what is off stays off, and a proxy that
still has its properties listens (`Attends`); that one without them does, or
gives up in error, is left to the run's last mix of budgets: it depends on the
order of answers, and over two streams it is false, as it is with two switches
(section 11).
`Converges` is claimed for the moments when nothing is under way, so its
invariant follows what is under way. `Synced` reads the queues of one property
from the far end: a GetAll to the target is the last one asked; or none is
asked, and a re-fetch that counts or a signal that will cause one is under way,
or the last GetAll answer is a refusal, or the proxy is not Ready, or the last
word that sets the property in the map is the target's value, or there is no
such word and the map has it already. There are two excuses: an optimistic value
whose Set is still to be served or has failed (`Excused`), where the failure has
the property read again, and a value that could not be sent, which stays until
something is said of the property. `InStep` claims this of a proxy with both switches on and
its introspection behind it; `GetsThere`, that a proxy that is loading has
something under way that ends it; and `Attends` that it listens. `Simple` leaves out what the code does not handle: streams
that are not ordered among themselves, a write that goes astray, two kinds of
write of one property (section 11), and, unless nothing is written and nothing
changes by name, a second property, whose re-fetch voids the first one's
(proxy_invalidated). `Simple` and `Tame` hold of all instances of the run
`proxy`.

**PendingRepliesProofs.** `ReplyInv` ties a reply's owner, its receivers and
what it told to the events posted for it; `EventsInv` says that an emission is
posted once and a deletion behind it; `WaitingInv`, that the replies of a Get
are in one list, unsettled, the first on the wire and the others not (`GetInv`),
and so those of the Get that is being finished (`FinishingInv`), but for those
that the application destroyed, which stay in the lists (section 7);
`CallerInv` and `EmittingInv`, what a caller and a handler have in hand.

**FollowersProofs.** The messages are typed by who they are for. `HeardInv`
counts them: what a receiver was sent and has not forwarded is under way from
its peer, and none is under way for one that is not made yet. Of pings and
timers there is one for each connection (`WrapperProbes`), none where nothing
is probed (`QuietProbes`), and no failure while the connection lives
(`LossesInv`); `SessionProbes` is the proxy's own book of the default
connection, and `Hooked` that an element with somewhere to look has a receiver
there. The last two are false with `MoveWhilePinged` (section 11).
For `RightAtRest` there is the chronicle (`ChronicleInv`): an answer or a change
that does not agree with the truth is followed by a change that turns the difference
(`AnswersTrue`, `ChangesTrue`), compared mark by mark, an item or the absence of
one, since an object manager's changes add up; before the peer knows a receiver
the rule to it is ahead of its question (`Unhooked`); and the element's question
is open, was refused, or what it shows agrees up to the changes under way
(`Knowing`, `Tracking`). An object manager takes any answer, so its receiver's
must be the last word (`LastWord`), which `CrossAnswers` would break
(section 11). `RoutedNet` and `SoleNet` say whose answers are under way where. An attempt
at the proof showed that the cases of `Init` for the kinds overlapped, so that
a kind could start in another's state; the module was put right.

**ServedNamesProofs.** A fold of a name is its own plain fold
(`FoldedTwice`), and the name with a capital that the ladder ends in folds back
(`CasedAndFolded`). `Ladder` says where an advertised name comes from; so a
member answers to it (`AnswersToIt`), and another that does has a fold in common
with the first (`FoldsMeet`). The invariant is that the tables name what
`WireNames` lists, that aliases of private names are stripped, and, from
completion to the first renaming, that relays and options are what the tables
make of them (`Emitted`, `Ruled`). That a QML signal does not begin with a
capital is an assumption (`SurfacesAssumption`): the engine refuses such a
name. The theorem is about `ServedSpec`, the part of `DeliverySpec` in which
`served` moves.

**EntriesProofs.** Lemmas on queues: taking entries out keeps the order and
the rest (`EntriesKept`), and how many entries of a kind there are after each
operation (`CountAppend`, `CountTail`, `CountConcat`, `CountWithout`,
`CountTraced`). `Entries` exists for them: the library's `SelectSeq` is
recursive, and nothing can be proved of it here, while `EntriesAt` takes
entries by rank.

Only model-checked:

- liveness (`NoticeSettles`, `TimedHoldEnds`, `TeardownAnswers`,
  `LossIsNoticed`, `HandlersAreTold`, `PromisesEnd`, `NothingAccumulates`): the
  prover does not do liveness under fairness, nor ENABLED;
- `AllOrNothing`, which is about what recursive definitions compute.

## 13. Not modelled

- Of D: dynamic methods, calls and signals to QML; that two callers of
  `getProperty` share a Get by property name, whatever the target was when each
  asked (PendingReplies has no targets); a `propertyWriteFailed` handler that
  points the proxy elsewhere.
- Of F: naming, sharing and closing connections.
- Of J: the handle in JavaScript and the collection of garbage under pressure
  of descriptors: reference counts of Qt and of the engine decide there.
- Of K: `DBus.*` typed wrappers, conversions between JavaScript and D-Bus. The
  slots are taken under a mutex, so that two threads take them in some order
  and one caller at a time is enough.
- Of M: the types in introspection, Properties.Get, Set and GetAll and the
  PropertiesChanged of a notify signal, which read the metaobject and the
  catalog and keep nothing.
- Adaptors of several connections, and more than one consumer thread, which
  the threading contract excludes.
- L: introspection XML and the catalog's parser, functions of large data
  without state, which the repository's fuzzers cover.
- N: registration code, build files, tests, examples.
