# Revel in TLA+

TLA+ specifications of [Revel](https://github.com/revel/revel), a web framework
in Go: how the server starts and stops, how a request gets its objects and
returns them, finds its action and its answer, what happens around an action
when anything panics, what is kept between requests, and how sources and routes
are reloaded under running requests.  TLC checks the specifications on small
instances; TLAPS proves the safety properties of all ten components for every
instance.

    tlc -config SimpleLockStack.cfg MCSimpleLockStack.tla
    tlapm RequestPoolsProofs.tla

Contents: [the system](#the-system), [the modules](#the-modules),
[the runs](#the-runs), [the proofs](#the-proofs),
[what disagrees](#where-code-and-documentation-disagree),
[the plan](#the-plan).

## The system

| Component | State it keeps | Operations | Correct when |
|---|---|---|---|
| Lock stack, `utils/simplestack.go` | doubly linked nodes, `Current`, `len`, `capacity`, `active` | `Pop`, `Push` | an object is handed to one client at a time; what is stored was destroyed; a full stack forgets, an empty one creates |
| Contexts, controllers, application controllers: `server_adapter_go.go`, `server-engine.go`, `controller.go`, `http.go` | three kinds of lock stacks; the links between context, request, controller, receiver | `handleMux`, `handleInternal`, `SetTypeAction`, the `Destroy` methods | a request reaches its own objects only, whatever became of the requests before and beside it |
| Filter chain, `filter.go` and one file per filter | `Result`, `Status`, session, flash, validation errors, cookies | one call down and one way back (or a panic) per filter | hooks run at their moment, a panic is answered as one, cookies carry what they should and nothing else |
| Watcher, `watcher.go` | `forceRefresh`, `lastError`, timer, result channel, event channels | `Notify`, `NotifyWhenUpdated`, `notifyInProcess` | no request is served from files older than those it could know of; nobody waits for ever |
| Filter configuration, `filterconfig.go` | filter chains by controller and action | `Add`, `Remove`, `Insert`, lookup | an action's chain is the one that was configured for it |
| Cache, `cache/` | a key-value store with expiry, in memory, redis or memcached | `Get`, `Set`, `Add`, `Replace`, `Delete`, `Increment`, `Decrement`, `Flush` | a reply tells the truth, an undisturbed call keeps the contract, counters add up and stop at 0 |
| Session, `session/`, `session_*.go` | values in three places: the map, the JSON text, what was made from it; the cookie with a timestamp | `Get`, `Set`, `Del`, `Load`, `Serialize`, expiry | what was stored is read, also over a cookie, and for as long as configured |
| Server life cycle, `server.go`, `event.go`, `revel_hooks.go`, `revel.go` | hooks, event handlers, the engine and its muxes, a goroutine for signals | start, stop, events | hooks run in order, requests only once the startup hooks have; told to stop, the process ends |
| Router, `router.go`, `namespace.go`, `controller_type.go`, `module.go` | routes, route tree, registered controllers, path cache | `Refresh`, `Route`, `Reverse` | first line wins; reverse routing inverts routing; the cache follows the file |
| Response, `compress.go`, `results.go`, `http.go` | status, type, header and its buffer, writer | header calls, writes, results | the same response with and without compression, but for the encoding and what a file or an early head makes different; header and body agree |
| Templates, `template*.go`; messages, `i18n.go` | a runtime swapped atomically; catalogues | `Refresh`, `Template`; lookup with fallback | a request sees one version |
| Binding, validators, loggers, test support | none that outlives a call | conversions and output | - |

Components interact by calls.  `net/http` calls `handleMux` on a goroutine for
each connection, which pops a context and calls `handleInternal`, which pops a
controller and calls the first filter; `RouterFilter` calls `SetTypeAction`,
which pops the application controller.  Every filter calls the next; in
development mode `WatchFilter` in front calls the watcher, which calls the
`Refresh` of its listeners.  The session is decoded and encoded by
`SessionFilter`; `CompressFilter` puts its writer into the response the result
is applied to.  What goroutines share are the lock stacks, the map from
controller names to lock stacks (with no lock), the route tree and the path
cache (locked for writing only), the watcher, the templates (an atomic pointer)
and the cache.

The hard behaviours: interleavings on the shared pools; objects reused with
something left in them; panics, which user code may raise in ten places and
which leave a filter in the middle; waiters that share one channel, flags that
are written under two different mutexes; a routing table rebuilt in place;
headers and a status that are buffered until the first write; a shutdown beside
requests, signals and callers of `StopServer`.

## The modules

| Module | Models |
|---|---|
| `BoundedPool` | abstract: what a pool of reusable objects promises |
| `SimpleLockStack` | `utils.SimpleLockStack` node by node; implements `BoundedPool` |
| `RequestPools` | the pooled objects of requests, over `BoundedPool` |
| `RequestPoolsProofs` | the theorems about both: `Isolation`, blank pools, bound receivers; the linked list and its refinement |
| `FilterChain` | the filters around an action and a browser's cookies |
| `FilterConfig` | configured filter chains as slices of shared arrays |
| `FilterChainProofs` | the theorems about both: hooks, answers, temporary files, cookies; the configured chains |
| `Watcher` | the watcher with requests and eager goroutines |
| `WatcherProofs` | the theorems about it: waiters, edits, requests served fresh |
| `Cache` | the three cache backends under concurrent clients |
| `CacheProofs` | the theorems about it: honest replies, the contract, counters that add up |
| `Session` | a session, its cookie, the browser and the clock |
| `SessionProofs` | the theorems about it: honest reads, durations |
| `ServerLifeCycle` | start, serving, stop and end of the process |
| `ServerLifeCycleProofs` | the theorems about it: hooks around requests, prefixes |
| `Router` | routes file, tree, path cache and reversing |
| `RouterProofs` | the theorems about it: first line wins, the path cache, reversing |
| `Response` | filters, results, compression and the header of net/http |
| `ResponseProofs` | the theorems about it: the type found, the same response, honest headers |
| `MC...` | instances for TLC |

`SimpleLockStack` and `FilterConfig` name what every module has (`Init`, `Next`,
`TypeOK`, ...) `StackInit` and `FCInit` and so on, so that the theorems about
them can stand beside those about another component.

Some definitions are *slips*: variants that no action uses, marked as such,
with a mistake the code could have.  Each property is shown to be violated when
a slip takes the place of the definition that follows it (`PROJECT.json`,
"mutants").

### SimpleLockStack

`current`, `value`, `next`, `previous` are `Current` and the fields of the
nodes, which are numbered as they are allocated; `len`, `capacity`, `active`
and `maxsize` are the fields of the same names.  `held[c]` is what goroutine
`c` has popped.  A `Pop` is one step, for it holds the lock all along.  A
`Push` is two: `Destroy` calls the object's `Destroy` before the lock is taken,
and `Push` is the rest, with an action for each of its branches.
Popped values stay in their nodes, as in the code.  `Use` stands for whatever
a request writes into an object.  That `Creator` is not nil is assumed: every
stack of the framework has one.

`BoundedPool` is what the stack is used for: a sequence of stored objects, the
last returned handed out first.  `Implements` says that the stack implements it
with `maxsize` (at least one: an empty stack always takes an object) as room
and the values from the first node to `Current` as the stored objects.

### RequestPools

The pools of contexts and controllers are `BoundedPool`s, the stacks of
application controllers use its operators.  `phase[r]` says how far goroutine
`r` is with a request.  `TakeContext`, `Upgrade` and `PushContext` are
`handleMux`; `TakeController` and `PushController` are `handleInternal`;
`LookUpStack`, `InstallStack` and `PopApp` are the three steps on `CachedMap`
in `SetTypeAction`, which has no lock, so other requests come in between;
`ReturnApp` and `DestroyController` are `Controller.Destroy`.  A panic and an
ordinary return go through the same deferred calls, so `RouteFails` and
`Finish` stand for both.  An object nobody can reach any longer is blank, and
may be made again: the garbage collector is implicit.

Blank is what `Destroy` makes of an object, and that is not all it was made
with: a pooled context keeps the last connection it was a websocket on (`conn`,
`GoRequest.WebSocket`), a pooled controller its `Request.WebSocket` and the
context its headers point into.  `StoredBlank` names these exceptions and
`Isolation` says that they do no harm: each is set anew before it is read, or
never read.

Action and result are a single state here (`acting`), `FilterChain` has them.

### FilterChain

`at` and `way` are the call stack: which filter's code runs next and whether it
was called, returned to or unwound.  Hooks of the interceptors and of the
before/after methods are the same action, with the filter as parameter, since
both filters have the same structure (two deferred calls, one for a panic).  A
hook does nothing, sets a result or panics; which interceptors apply is left
open, so any combination of the three is possible.  The action works on
session, flash and validation in any order.  `jar` is the browser: what it has
when a response arrives is what it sends next.

Cookies travel in the header, and the header is not always written last.  A
websocket's has been sent with the handshake before the filters begin
(`Upgraded`); an action or a hook that writes to the response itself sends it
then (`WritesAtOnce`), with none of the filters' cookies, which are set on the
way back.  `answer.set` has the cookies that went with the header.  When a
`Result` panics in `Apply`, net/http cuts the connection; the header may have
been flushed by then or still be in its buffer, so that the cookies arrive or
not (`Apply` allows both).  So `SessionCarriedOver` and `OneShotCookies` say of
every request which of the two holds: the browser has what the request left, or
what it came with.

Sessions that expire, sessions too large for a cookie, and cookies the
application sets by itself, which go with any header that is written, whoever
panics, are not considered.

### Watcher

Processes are requests, which call `Notify`, and in eager mode goroutines, one
for each event.  `refreshTimer` holds the goroutine that made the timer.
`notifyMutex` and `timerMutex` are read off where the goroutines are; a data
race on `forceRefresh` and `lastError` is an interleaving of whole reads and
writes.  The content of files is the number of their last edit and whether they
are broken, in which case `Refresh` returns an error.  The panic of a refresh
ends a request; in an eager goroutine it ends the process and is not modelled.
The timer may expire whenever it is set: a reset only delays it.

### Cache

A client calls an operation, takes its steps and gets a reply; `reply` is what
the last step returned, with what the operation met, for the properties to
look at.  One step is one operation of go-cache or one command of a server:
the in-memory `Decrement`, for example, looks, subtracts and reads back
(`MemoryDecrementLooks`, `MemoryDecrement`, `MemoryConvert`).  The `RWMutex` of
`InMemoryCache` is not in the model since the methods have value receivers:
each call locks a copy nobody else has.  `Fails` is a command the server never
got, or whose answer never came.  `Expire` may take an entry that has an expiry
at any time.

Only one key is modelled, since operations on two do not meet (`Flush` is like
a `Delete` for each).  Numbers have `Width` bits; the types that matter, a
signed and an unsigned integer, something else and nil, are kept, because the
backends store them as Go values or as digits, and read them back as 64-bit
integers with or without a sign.  `UndisturbedMeetsContract` states the
interface of `cache.go` as a function from what an operation found to what it
leaves and returns.

Outside: the expiries whose number of seconds memcached takes for a date, and
the connection pool of Redis (`invoke` takes a second connection and does not
use it, so `cache.redis.maxactive` is reached twice as early).

### FilterConfig

`memory` has the arrays and `overrides` the slices of `filterOverrides`, each
an array and a length.  `Append_` is Go's `append(s[:k], fs...)`: in place when
the array has room, else into a new array whose size is the one the runtime
chooses.  `Kept` and `Appended` say for each change where it cuts a chain and
what it appends there.  `Configure` is a whole call with `apply` and `getChain`;
`Rounds` are the orders in which the range over the map may come, and `Course`
has the state after each round.  Beside it the same change is made on plain
values (`wanted`), which is what the properties compare with.  Unreachable
arrays are emptied after each round, as the garbage collector may do: a round
refers to one array for each key and to at most two more, so `Array`, which has
two beside those of the keys and that of the default, never runs out.  An `Add`
to a chain from which everything was removed panics.

### Session

`req[r]` is the session of a request: `vals` is the Go map, `json` the text
under `_object_`, `made` what was made of it under `_map_` (None before the
first read makes the key), `ts` the timestamp.  `Read` is `Get`, `GetInto` and
`GetDefault`; `Write` and `Remove` are `Set` and `Del`; `Arrive` and `Answer`
are the two halves of `SessionFilter` with `DecodeCookie` and `GetCookie`.

A value has a kind (a string; a struct whose field is found under its own name,
has a json tag, or is missing; a number or slice; what JSON cannot hold) and a
form: as the application put it, as JSON gives it back without a type (structs
become maps, integers float64), or a pointer to what was read into a type.  A
read may name a type, which the text fits or not.  A name may have a dot, for
the field of a struct: `GetProperty` capitalizes it, so a map made from JSON
has only a field without a tag and gives nil, no error, for the others;
reflection on what has no fields panics and ends the request.
`ReadsAreHonest` says which value is found and in which form: as it was put in
the same request, in its JSON form or behind a pointer afterwards (`Forms`).

`jar` is the one cookie the browser has, `Forget`
its Max-Age or the end of the browser, `Restart` a server with another
`session.expires` or another secret.  Beside the session each request carries
what the application has stored and removed (`truth`, `deleted`) and when it
should end, which is what the properties compare with.  Time advances in ticks
of the session's unit.

### ServerLifeCycle

`main` is where the main goroutine is in `Init`, `Run`, `InitServer` and
`Start`; `outcome` how the process ended.  Lists of hooks are sequences of
their orders.  `HookSortings` are the orders `sort.Sort` may bring them into:
one order while it is an insertion sort (up to 12 elements in Go,
`InsertionLimit` here), any that is sorted beyond.  `Wait`, `Signal` and
`SignalRequest` are the goroutine that waits for a signal, `StopServer` the
callers of it, among them requests.  `CallShutdown` makes `Serve` return
(`ServeReturns`), and the request handlers go on for themselves: a connection
that was accepted (`Accept`) may bring its request (`Receive`) when the shutdown
hooks run.  Hooks and event handlers may panic, which `Run` recovers from with
`REVEL_FAILURE`; nothing recovers on the goroutine of the signal or on one of
the application (`HandlerPanics`), and `Route` itself ends the process over a
route it cannot fill (`RouteFatal`).  `EndsThroughHooks` names both.

### Router

An action path is a record of namespace, controller and method, each literal or
variable; a path is a sequence of elements.  `Refresh` goes through the phases
`parse` (a line in a step: `ParseNotFound`, `ParseRoute`, `ParsePanics`, and
`ParseInclude`, which puts the lines of the module in the place of the one that
includes them, or nothing for a module that is not active), `parsed`, `build`
(`NewTree`, then `AddPath` for one path in a step, in the order of the file;
`paths` has the leaves still to be added, a line for GET first as GET and then
as HEAD) and `quiet`; a file that is refused, or cannot be read
(`RefreshUnreadable`, `IncludeUnreadable`), ends it early with the half-done
state the code leaves.  Which file is read is open at each `Refresh`.
An action needs its variables in its path (`InPath`): the code ends the process
or panics at the first request of a line without them.  `Meanings` is the look-up in
`splitActionPath`, a set because the code scans a Go map when a name has no
namespace.  `Route` and `RouterFilter` are functions of the tree, asked for
every request in every state.  A view reverses an action in two steps,
`ReverseMiss` and `ReverseStores`, since the cache is read before its lock is
taken; `overlapped` keeps the entries that a `Refresh` came in between.  `Url`
puts values into the path as they are, like the code: a value is the elements
between its slashes, of which it may have several or one that is empty, and may
end the path by a '?' or '#'.  `ReverseLeadsBack` holds for values of one
element, and for others only if the names of the action stay in their places.

The tree itself is external: `Add` refuses a second leaf of the same shape,
`Find` takes the leaf that was added first.  Left out: includes inside included
files, fixed arguments, a prefix in `app.root` and the syntax of a line.

### Response

`out["plain"]` and `out["compressed"]` are the same response with
`results.compressed` off and on, to which every step is applied in both.  Each
has the status and content type of `Response`, `net` (the header, what was sent
of it, the body) and `writer`, which is None or the `CompressResponseWriter`
with its `BufferedServerHeader`.  A chunk of the body carries the compression
it was written through, and the end of a compressed stream is a chunk of its
own.  Filters outside of `CompressFilter`, filters inside of it and the action
set, add to and delete headers, give cookies, choose status and type, write at
once or send the head (`SendStatus`, `SendHead`), in any order; then one of the results of `results.go` is applied, with
the status the method of `Controller` left (`Made`), failing or not, and the
writer is closed twice, as `handleInternal` and `GoResponse.Destroy` do.
`detectCompressionType` is the loop of the source: `Search` has what is found
after each element (`Considered`), checked on every `Accept-Encoding` of up to
three elements.

`head` is the place from which a head was sent early, which is where the two
responses part.  Sent before `CompressFilter`, the head is out, and the filter,
which looks at the status only, compresses a body whose encoding nobody tells
the client: there `WireHonest` speaks of the plain response only.  Sent behind
it, the head goes out at once without compression and is stored with it, until
the first write, when the result may have replaced the status and more headers
may have come: `Transparent` speaks of responses whose head nobody sends early,
`WireHonest` of these as well.  A file that can seek goes through
`http.ServeContent` without compression, which offers its date and ranges, and
is copied with it: `Transparent` leaves out those two headers (`Offered`), of
such a result only.

The client stays, so `CloseNotify` plays no part.  Outside too: header names
that are not canonical (the buffer keeps them as they are spelt), and the
conditions and ranges `http.ServeContent` answers.

## The runs

Deadlock is checked except for the lock stack, where the bound on `active`
stops clients, the filter configuration and the response, which end, and the
session, where time ends. Every component but `Response`, whose types are a
part of the invariant it is proved with, states a type invariant `TypeOK`; the
runs check those that say more than the types.

| Run | Instance | Shows |
|---|---|---|
| `lock_stack` | 3 clients, 6 objects, start and maximum sizes 0 to 3 nodes as in the cfg, at most 5 pops not counted back | the list stays a list (`Linked`), no object twice (`Exclusive`), stored objects destroyed (`StoredClean`), `active` never too low (`ActiveCoversHeld`), `Implements` |
| `request_pools` | 2 goroutines, 2 contexts, 2 controllers, 8 application controllers, 3 stacks, 2 types with names of their own | requests stay apart (`Isolation`), pools hold blank objects (`StoredBlank`), receivers are bound to their request (`ReceiverBound`) and of the right type (`ReceiverOfType`) |
| `filter_chain` | 1 browser, any number of requests, 2 sessions, 1 message | which hooks run (`HooksComplete`), which result counts (`LastResultCounts`), what a panic is answered with (`PanicNeverAnsweredByPage`), temp files (`NoTempFileLeft`), cookies (`SessionCarriedOver`, `OneShotCookies`), termination (`Completes`) |
| `watcher` | 2 requests; one listener with up to 2 eager goroutines and 2 edits, or none; two listeners with 1 goroutine and 1 edit each; a result channel of capacity 1 | results and waiters match (`WaitersCounted`), no edit forgotten (`NoEditLost`), requests served fresh (`ServedFresh`), `NotifyReturns` |
| `cache` | 2 clients, 3 backends, 2-bit integers, 4 values of all kinds, all expiries | errors and successes are true of some moment of the call (`RepliesAreHonest`), an undisturbed call does what the interface says (`UndisturbedMeetsContract`), increments add up in memory and memcached (`IncrementAdds`) |
| `filter_config` | 2 controllers, 2 actions, a default chain of 2, 1 new filter, 4 calls | controllers share no array (`ControllersApart`); chains are the configured ones unless an action inherits its controller's (`ConfiguredUnlessInherited`) |
| `chains_configured` | the same | without that condition they are not |
| `session` | 1 request at a time with up to 3 calls, 1 key and 1 name with a dot, 4 values of 4 kinds, a duration of 0 or 1 in 2 ticks | reads give what was put, over every place and form of a value (`ReadsAreHonest`), a session ends when it should (`SessionLivesItsDuration`), JSON holds only what can be marshalled (`TypeOK`) |
| `server_life_cycle` | 2 requests, 1 other goroutine, 3 startup and 2 shutdown hooks, 2 prefixes | hooks run in order and requests come after those of the start (`ServedOnceStarted`), the end goes through the shutdown hooks (`EndsThroughHooks`), the longest prefix serves (`LongestPrefixServes`), `StopEnds` |
| `stopped_before_event` | the same | requests are in flight at ENGINE_SHUTDOWN |
| `router` | 5 files of 2 to 6 lines, 2 modules that share a name, 38 requests, 5 actions to reverse with 5 values | `FirstLineAnswers`, `CacheFollowsRefresh`, `ReverseLeadsBack`, in every state between refreshes and during one |
| `response` | 3 steps before the result, GET and HEAD, 3 ways of rendering, pages of no or two chunks, all lists of up to 3 codings with 5 weights | `Transparent`, `WireHonest`, `EncodingAccepted` |

Why the bounds are enough to be interesting.  Three clients are needed for one
to pop between the destruction and the push of a second while a third holds an
object; sizes 0, 1 and more than one are the branches of `NewStackLock` and
`Push`, and 6 objects are never exhausted by clients and nodes together.  Two
requests overlap in every way two can; with room for one context and one
controller and two of each in use, their pools overflow.  A stack of
application controllers has room for two, so that one returned twice shows; it
does not overflow here, and uses the same operator as the others.  One browser is enough for the filters, which
share nothing between browsers; two contents tell an emptied, a changed and an
untouched session apart.  Capacity 1 makes a sender block, and two goroutines
beside a request make waiters of two successive refreshes meet, so that one
takes the other's result.

Two bits give the cache values on both
sides of each sign and of each wrap-around, and 1 and 3 are amounts below and
above them; two clients interleave every two commands.

A tagged and an untagged struct tell a stale copy from the present one (the
struct without the field and the number, which changes its form as a struct does
and whose field reads panic as those of a text do, are left to the proofs), and
three calls reach every pair of places a value can be in with a write between; a
duration of one tick passes, or not, before and after a restart.  Three hooks
above the insertion limit make an order that is free.  The files of the router
hold each way lines can overlap (a variable line first, a repeated path, a 404
under a star, an included module) and each way a file is refused; two refreshes
of any two of them follow each other, as `Refresh` never ends for good.  Three
steps put two changes before `CompressFilter` and one behind it, or the other
way round, and a head sent early before or after each of them.

Four
configuration calls are enough to fill an array, share it, overflow it and
write to it from both sides.

Fairness.  `FilterChain` assumes that the goroutine of a request runs on and
that the action ends; browsers need not send anything.  `Watcher` assumes that
some goroutine that can go on does, which includes that a timer expires and a
`Refresh` ends, and that a goroutine waiting for `notifyMutex` is not passed
over for ever, which `sync.Mutex` guarantees by handing over to a starved
waiter.  Edits, events and new requests are not assumed.  `ServerLifeCycle`
assumes that the main goroutine and those of signals and `StopServer` run on;
not that a request is ever answered, nor that anyone stops the server.

## The proofs

Every safety property the passing runs check is a theorem, for every value of
the constants that satisfies the assumptions of the module (TLC evaluates those
on each run).  Each component has one inductive invariant, `IInv` (`StackInv`
for the lock stack, `FCInv` for the filter configuration), a conjunction of
named parts; a lemma for each action and, where an action disturbs several
parts, a step for each of them.

| Module | Proved | From |
|---|---|---|
| `RequestPoolsProofs`, of `SimpleLockStack` | `StackTypeOK`, `Linked`, `Exclusive`, `StoredClean`, `ActiveCoversHeld`, and `Implements` | any clients, objects, sizes and bounds (`SizeAssumption`, `ObjectAssumption`, `ClientAssumption`) |
| `RequestPoolsProofs`, of `RequestPools` | `TypeOK`, `Isolation`, `StoredBlank`, `ReceiverBound`, `ReceiverOfType` | any goroutines, types, names and rooms of the pools (`RoomAssumption`, `NameAssumption`, `NoneAssumption`), and more stacks and application controllers than can be in use (`EnoughAssumption`: making one never fails) |
| `FilterChainProofs`, of `FilterChain` | `HooksComplete`, `PanicNeverAnsweredByPage`, `NoTempFileLeft`, `SessionCarriedOver`, `OneShotCookies`, and the action property `LastResultCounts` | any sessions and messages (`SessionAssumption`, `NoneAssumption`) |
| `FilterChainProofs`, of `FilterConfig` | `ControllersApart`, `ConfiguredUnlessInherited` | any finite set of controllers and actions, any filters and default chain that is not empty, any number of calls (`KeyAssumption`, `OwnerAssumption`, `DefaultAssumption`, `CallsAssumption`) |
| `WatcherProofs` | `WaitersCounted`, `NoEditLost`, and the action property `ServedFresh` | any requests, goroutines, listeners, edits and capacity (`BoundAssumption`, `SetupAssumption`, `ProcAssumption`) |
| `CacheProofs` | `RepliesAreHonest`, `UndisturbedMeetsContract`, and the action property `IncrementAdds` | any clients and values, integers of any width (`WidthAssumption`, `InputAssumption`, `BackendAssumption`) |
| `SessionProofs` | `TypeOK`, `ReadsAreHonest`, `SessionLivesItsDuration` | any requests, keys, values and durations, any end of time (`BoundAssumption`, `InputAssumption`, `NoneAssumption`) |
| `ServerLifeCycleProofs` | `ServedOnceStarted`, `EndsThroughHooks`, `LongestPrefixServes` | any requests, callers, lists of hooks and prefixes, any limit of the insertion sort (`HookAssumption`, `LimitAssumption`, `CallerAssumption`, `PathAssumption`) |
| `RouterProofs` | `FirstLineAnswers`, `CacheFollowsRefresh`, `ReverseLeadsBack` | any files, modules, controllers and arguments (`AppAssumption`, `FileAssumption`, `LineAssumption`, `TypeAssumption`, `AskedAssumption`, `ArgAssumption`, `NoneAssumption`) |
| `ResponseProofs` | `EncodingAccepted`, `Transparent`, `WireHonest` | any codings and weights, pages of any chunks, lists and steps of any length (`BoundAssumption`, `CodingAssumption`, `BodyAssumption`, `NoneAssumption`) |

The `TypeOK` of each component that states one is proved as well.
`ReceiverOfType` has the hypothesis that no two types have one name, as in the
run: with such types the code breaks it (see below).

**SimpleLockStack.**  `StackInv` is `StackTypeOK`, `Linked`, `Exclusive` and
`DirtyInHand`.  None of the interesting ones is inductive alone: a pop hands
out the value of `Current`, so `Exclusive` needs `Linked` to know that stepping
back reaches the next lower stored node, and the push to a node beyond
`Current` needs it to know that the node holds nothing stored.  `StoredClean`
follows from `DirtyInHand` (what is dirty is in the hand of a client that has
not destroyed it) and `Exclusive`.  `ActiveCorrect` is a separate induction:
`active` counts at least the clients that hold something, by cardinality of the
set of them, and needs the set of clients to be finite.  The refinement maps
each branch of `Pop` and `Push` to the step of the pool of the same effect, and
`Use` and `Destroy` to stuttering.

**RequestPools.**  `Isolation` says who reaches what, and that depends on links
set long before: `PoolsApart` (each goroutine has a context and a controller of
its own exactly in the phases that need one, and nothing in hand is stored),
`ContextsRight` and `ControllersRight` (an object in use leads to its request's
own, every other one is blank), `StacksRight` (a stack holds controllers of its
name that embed nothing, each once), `BindingsRight` (an application controller
in use embeds the controller that refers to it).  When two requests install a
stack for one name, the first stack is out of reach with all it stores, so
`StacksRight` speaks of the stacks a name leads to.  That a new stack or controller can always be
made is a count: at most as many are stored, bound and about to be made as
`EnoughAssumption` leaves.
`ContextsPooled` and, with reuse on, `ControllersPooled` map every step of a
request to one of a `BoundedPool` or to stuttering: with the refinement of the
lock stack, the two specifications compose.

**FilterChain.**  `Flow` says that filters are entered from the outside in and
left from the inside out, and that a panic crosses all of them up to
`PanicFilter`.  With it `HooksRight` knows of each filter which hooks have run
and which are due, `AnswerRight` that nothing is answered too early but by user
code, and that no cookie goes with that, `CookiesRight` that a cookie is set by
its own filter alone and when what is behind it has returned, and
`TmpFilesRight` that an upload is only there behind `ParamsFilter`, which
removes it on every way back.  `LastResultCounts` is about steps: it needs,
besides, that there is no result on the way down and later one of a filter
further in, or the filter's own until its FINALLY hooks have run
(`ResultRight`).

**Watcher.**  `LocksRight` states what the two mutexes guarantee,
`WaitersRight` that results sent and to be sent match those who wait.
`EditsRight` is the heart: an edit is loaded, or *under way* (an event to come,
a goroutine that has not read the files yet), or forced.  It needs to say of a
refresh that has read old files that another follows, and of a request that
clears the force that its edit is under way.  `ServedRight` says the same for
the edits a request has asked about; it holds of one listener in normal mode
only, which are the hypotheses of `ServedFresh`, since two listeners clear each
other's flags.

**Cache.**  `MetRight` says what each call has met by the point where it is,
`SinceRight` what the entry is as long as nobody else has changed it.  The two
properties speak of the last reply and follow from them one step later, so the
induction is over `Strong`, `IInv` with both.  Arithmetic is about a modulus:
`WidthAssumption` says that it is even and positive, which every power of two
is and all that the proofs need.

**Session.**  `SessionRight` relates the three places a value may be in with
what the application has stored: the Go value if there is one (or a pointer to what was read of it), else the text;
what was made from a text is as the text unless the name was deleted.
`CookieRight` is the same for a cookie, and says that its timestamp is the end
of the duration since it was written.  Neither follows from the reads alone: a
`Serialize` turns values into texts, an `Arrive` texts into maps.

**ServerLifeCycle.**  `EventsRight` says that the events are a beginning of one
list, as long as `main` has come, and that only a failure may follow;
`HooksRight` that the hooks run and those left are all of them and in order,
`MuxRight` that prefixes are sorted by length, `RequestsRight` that connections
were accepted by a server that had started.  That a sorted list does not depend on how `sort.Sort` got there
is what makes the proof independent of `InsertionLimit`.

**Router.**  `TreeRight` says that each leaf stands for a line and that the
leaves of the lines before it have been added before it, `BuildRight` that what
is left to add is exactly what has not grown: together they make the first leaf
that takes a request the leaf of the first line that does, half-way too.
`LinesRight` says that a line has no type exactly when its controller is a
variable.  `CacheRight` says that an entry is that of the last line that names
it, or of none.  `MissedRight` is needed for the race of `Reverse` with
`Refresh`: who missed the cache before a `Refresh` may still store an entry of
the file before, and is then in `overlapped`.  `ReverseLeadsBack` follows from
`CacheRight`, `BuildRight` and the rule of the first line.

**FilterConfig.**  `HeapRight` says that every chain is a slice of an array of
its own length or more, that no array but those of chains and of the default is
in use, and that the default is untouched; `Apart` that two chains share an
array only when both are of one controller from which an action has inherited;
`WantedRight` that the chains of the other controllers are the wanted values.
The last needs the second: `append` in place is seen by whoever shares the
array.  `HeapRight` is what an array for `append` is found with: arrays of keys
are at most as many as keys.  A call for a controller goes through its actions
in any order, so the induction over the calls contains one over the rounds of
`Course`: the chains of the keys of the rounds so far are as wanted, the others
as before.

**Response.**  The two responses do not stay equal step by step: while the
compressing writer waits for its first byte, what is in the header of one is in
the buffer of the other.  `Bare`, `Waiting` and `Flowing` are the states of a
response without a writer, with one that buffers and with one that has begun to
write, and `Alike` relates the plain response to the compressed one in each of
them: released, the buffer would make the header of the plain one (`Before`),
or it has (`Behind`), and the page so far is the same.  `Alike` is shown to be
kept by each primitive (set, add, delete, cookie, status, write), then by what
is made of them, up to the results; a template that fails while it is streamed
adds the statuses of the failure that may differ.  `Paired` says it of every
step of filters and action until the head is sent early, `Applied` of the
result, where the headers `http.ServeContent` sets join those that may differ
(`Loose`); `Ended` says which length
a header may announce.  Closing twice turns it into `Transparent` and
`WireHonest`.  Once the head was sent early nothing relates the two responses,
and each keeps by itself what its own header and body need to agree (`Single`,
`Clean`).  Chunks and elements are written and considered one after the
other (`WriteAll`, `Search`), for which there are inductions of their own.
These, and those of `FilterConfig`, are by the least counterexample, since the
induction theorems of the library take an operator.

### Only model-checked

Liveness: `Completes`, `NotifyReturns`, `StopEnds`.  Fairness and `ENABLED` are
out of the prover's reach.

## Where code and documentation disagree

Runs named in brackets show it; `PROJECT.json`, "findings", quotes the lines.
The others were met while modelling: the models have the behaviour of the code,
and the properties state their exception where one touches it.

- Configuring a controller and then one of its actions damages the
  controller's chain [`chains_configured`].
- ENGINE_SHUTDOWN, the shutdown hooks and the exit do not wait for requests
  [`stopped_before_event`]; requests may even begin beside the shutdown hooks;
  with SSL they never come.  A handler of ENGINE_SHUTDOWN_REQUEST that panics
  on the goroutine of the signal ends the process, and nothing reports it.
- Controllers of one name in two modules share a pool, and an action may get a
  receiver of the other's type.
- A panic after a page was rendered is answered with the error page and status
  200; so is a value that cannot be marshalled and a template that is missing.
- The result of a BEFORE interceptor, said to be final, is replaced by one of a
  FINALLY interceptor.
- The flash cookie is not overwritten by a request that panics, writes for
  itself or is a websocket: its message is shown once more.
- A pooled context keeps the last websocket connection it served.
- `forceRefresh` may be cleared while a rebuild is waiting, and the error of
  that rebuild is then never shown; with two listeners, one's success clears
  the other's error; routes are never watched at all.
- Two calls of the in-memory cache are not kept apart by its mutex, and
  `Decrement` goes below 0.
- Sessions: a removed value that was read before is found again in the same
  request; a tagged field of a struct is nil in the next one, even where a
  default is given; SetNoExpiration leaves the cookie a Max-Age; reading a
  missing key makes a cookie.
- Start: more than 12 hooks are not kept in order; a mux that a startup hook
  adds is ignored.
- Router: the URL of an action may invoke another one, also by a value that is
  empty or holds '/', '?' or '#'; a line with a variable
  method only is never reversed; an unknown controller panics where an error is
  promised, and a variable that is not in the path ends the process at the
  first request; requests during a refresh get 404; the path cache may stay
  stale after it.
- Compression drops all but the last of several values of a header; a stream
  that fails, or is not modified, loses the buffered headers; a file loses its
  date and ranges; trimming HTML always fails.  When a filter before it has sent
  the head, the body is compressed and the header does not say so; a head sent
  behind it is only stored, so that later headers and another status get in.
- `OutResponse.Write` fails on a controller that was used before.

## The plan

To come: more action properties over the invariants that are proved (an entry of
the path cache changes only with the file), and more of what is not modelled
below, beginning with the limits of the binder.

Compositions: `RequestPools` over `SimpleLockStack` is composed through
`BoundedPool`, which `Refinement`, `ContextsPooled` and `ControllersPooled` make
sound.  `FilterChain` takes the session as
a value; `Session` opens it.

## Not modelled

- Templates: a `Refresh` builds a new runtime and swaps it by an atomic
  pointer; `Watcher` has the `Refresh` as what it reads and whether it fails,
  and nothing else of it is shared.
- Messages (`i18n.go`): a look-up with fallback over maps that are replaced at
  once.
- Parameter binding and validators: reflection, parsing and predicates on one
  value, without state between calls.
- Loggers and test support: formatting and output.
- The data race on the plain map of stacks in `controller.go`, which may end
  the process, the pool of multipart forms, which is only ever empty, and the
  flags two listeners of the watcher share: see "hazards".
