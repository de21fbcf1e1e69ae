-------------------------- MODULE ServerLifeCycle --------------------------
(* The life of a Revel process with the Go HTTP server: Init and Run bring it *)
(* up in a fixed order, requests are served until somebody calls Shutdown or  *)
(* the listener fails, and Run ends with the shutdown hooks.  The main        *)
(* goroutine, the goroutine that waits for a signal, callers of StopServer    *)
(* and the requests run side by side; any of them may be ended by the exit of *)
(* the process.                                                               *)
(*                                                                           *)
(* A hook or an event handler may panic.  What Init does before it raises     *)
(* REVEL_BEFORE_MODULES_LOADED is one step, which may be fatal.               *)
EXTENDS Naturals, Sequences, FiniteSets, SequencesExt

CONSTANTS Request,
          Outsider,          \* goroutines of the application that call StopServer
          StartHooks,        \* orders given to OnAppStart, as registered
          StopHooks,         \* orders given to OnAppStop
          InsertionLimit,    \* up to how many elements sort.Sort is an insertion sort, 12
          PathPrefixes,      \* path prefixes the application gives to AddHTTPMux
          Paths,             \* request paths, which are sequences as the prefixes are
          None

ASSUME HookAssumption   == StartHooks \in Seq(Nat) /\ StopHooks \in Seq(Nat)
ASSUME LimitAssumption  == InsertionLimit \in Nat
ASSUME CallerAssumption == Request \cap Outsider = {}
ASSUME PathAssumption   == \A p \in PathPrefixes : p \in Seq(ToSet(p))

Caller == Request \cup Outsider

VARIABLES
  conf,       \* of the configuration: ssl, tcp, and whether server.engine is known
  main,       \* where the main goroutine is
  outcome,    \* "running", or how the process has ended
  events,     \* events the main goroutine has raised, in order
  queue,      \* hooks the running list has still to run, as indices
  ran, stopped,       \* startup and shutdown hooks run to their end
  muxes, HttpMuxList, \* prefixes in ServerEngineInit, and those the engine knows
  inShutdown, \* Shutdown has been called on the server
  signals,    \* "default" action, "notified", "waiting" for one, "raising" or "done"
  stopping,   \* stopping[c]: the StopServer of c waits in Shutdown
  request     \* request[r]: "none", "connected", "served" by a handler, "answered" or "cut"

vars == <<conf, main, outcome, events, queue, ran, stopped, muxes, HttpMuxList, inShutdown,
          signals, stopping, request>>

hooks   == <<queue, ran, stopped>>
mux     == <<muxes, HttpMuxList>>
others  == <<inShutdown, signals, stopping, request>>

Init ==
  /\ conf \in [ssl : BOOLEAN, tcp : BOOLEAN, known : BOOLEAN]
  /\ main = "Init" /\ outcome = "running"
  /\ events = << >> /\ queue = << >> /\ ran = << >> /\ stopped = << >>
  /\ muxes = << >> /\ HttpMuxList = << >>
  /\ inShutdown = FALSE /\ signals = "default"
  /\ stopping = [c \in Caller |-> FALSE]
  /\ request = [r \in Request |-> [is |-> "none", path |-> None, by |-> None]]

Running == outcome = "running"
At(place) == Running /\ main = place
Goes(from, to) == At(from) /\ main' = to /\ UNCHANGED outcome
Raised(e) == events' = Append(events, e)

(* The process is gone, and what it was doing with it.                        *)
Dies(how) ==
  /\ outcome' = how /\ main' = "gone"
  /\ request' = [r \in Request |-> IF request[r].is \in {"connected", "served"}
                                   THEN [request[r] EXCEPT !.is = "cut"] ELSE request[r]]
  /\ stopping' = [c \in Caller |-> FALSE]
  /\ UNCHANGED <<conf, hooks, mux, inShutdown, signals>>

-----------------------------------------------------------------------------
(* Sorting.  sort.Sort keeps the order of equal elements only as long as it   *)
(* is an insertion sort.                                                      *)

Sortings(n, before) ==     \* before: the pairs of positions the list's Less says yes to
  {p \in [1..n -> 1..n] :
     /\ \A i, j \in 1..n : i < j => p[i] # p[j] /\ <<p[j], p[i]>> \notin before
     /\ n <= InsertionLimit =>
          \A i, j \in 1..n : (i < j /\ <<p[i], p[j]>> \notin before) => p[i] < p[j]}

\* Slip: the hooks run as they were registered.
Unsorted(orders) == {[i \in 1..Len(orders) |-> i]}

HookSortings(orders) ==
  LET places == 1..Len(orders)
  IN  Sortings(Len(orders), {e \in places \X places : orders[e[1]] < orders[e[2]]})

MuxSortings(list) ==
  LET places == 1..Len(list)
      longer == {e \in places \X places : Len(list[e[1]]) > Len(list[e[2]])}
  IN  {[i \in places |-> list[p[i]]] : p \in Sortings(Len(list), longer)}

\* Slip: the first prefix added that matches.
FindUnsorted(list, path) ==
  LET hits == {i \in 1..Len(muxes) : IsPrefix(muxes[i], path)}
  IN  IF hits = {} THEN None ELSE muxes[CHOOSE i \in hits : \A j \in hits : i <= j]

(* ServerMuxList.Find; None stands for Revel's own handler.                   *)
Find(list, path) ==
  LET hits == {i \in 1..Len(list) : IsPrefix(list[i], path)}
  IN  IF hits = {} THEN None ELSE list[CHOOSE i \in hits : \A j \in hits : i <= j]

-----------------------------------------------------------------------------
(* Init and Run: the main goroutine.                                          *)

(* app.conf is missing, or http.ssl set without its files.                    *)
ConfigurationFatal == At("Init") /\ Dies("fatal") /\ UNCHANGED events

Configure ==
  /\ Goes("Init", "Run")
  /\ events' = events \o <<"REVEL_BEFORE_MODULES_LOADED", "REVEL_AFTER_MODULES_LOADED">>
  /\ UNCHANGED <<conf, hooks, mux, others>>

InitServerEngine ==
  /\ conf.known
  /\ Goes("Run", "InitServerEngine")
  /\ UNCHANGED <<conf, events, hooks, mux, others>>

BeforeInitialized ==
  /\ Goes("InitServerEngine", "InitServer")
  /\ Raised("ENGINE_BEFORE_INITIALIZED")
  /\ UNCHANGED <<conf, hooks, mux, others>>

(* CurrentEngine.Init copies the list of muxes; then the startup hooks.       *)
InitServer ==
  /\ Goes("InitServer", "startup")
  /\ HttpMuxList' \in MuxSortings(muxes)
  /\ queue' \in HookSortings(StartHooks)
  /\ UNCHANGED <<conf, events, ran, stopped, muxes, others>>

(* AddHTTPMux, in a handler of ENGINE_BEFORE_INITIALIZED or a startup hook.   *)
AddHTTPMux(p) ==
  /\ Running /\ main \in {"InitServerEngine", "startup"}
  /\ p \notin ToSet(muxes)
  /\ muxes' = Append(muxes, p)
  /\ UNCHANGED <<conf, main, outcome, events, hooks, HttpMuxList, others>>

RunHook ==
  /\ Running /\ main \in {"startup", "shutdown"} /\ queue # << >>
  /\ queue' = Tail(queue)
  /\ IF main = "startup" THEN ran' = Append(ran, Head(queue)) /\ UNCHANGED stopped
                         ELSE stopped' = Append(stopped, Head(queue)) /\ UNCHANGED ran
  /\ UNCHANGED <<conf, main, outcome, events, mux, others>>

\* Slip: the first hook is as good as all.
HooksDoneAfterFirst == Len(queue) < Len(StartHooks)

HooksDone == queue = << >>

(* The templates are loaded and the watcher set up; the handlers see          *)
(* ENGINE_STARTED, the engine's own asks for the signals and starts a         *)
(* goroutine to wait for one.                                                 *)
Started ==
  /\ HooksDone
  /\ Goes("startup", "Start")
  /\ Raised("ENGINE_STARTED")
  /\ signals' = "notified"
  /\ UNCHANGED <<conf, hooks, mux, inShutdown, stopping, request>>

Listen ==
  /\ ~conf.ssl \/ conf.tcp
  /\ Goes("Start", "Serve")
  /\ UNCHANGED <<conf, events, hooks, mux, others>>

(* The port is taken, or SSL asked for without TCP.                           *)
ListenFatal == At("Start") /\ Dies("fatal") /\ UNCHANGED events

(* Serve returns as soon as Shutdown has been called, or when Accept fails.   *)
(* With SSL that it has returned is fatal.                                    *)
ServeReturns ==
  /\ ~conf.ssl
  /\ Goes("Serve", "NOT listening")
  /\ UNCHANGED <<conf, events, hooks, mux, others>>

ServeTLSReturns == At("Serve") /\ conf.ssl /\ Dies("fatal") /\ UNCHANGED events

EngineShutdown ==
  /\ Goes("NOT listening", "shutdown")
  /\ Raised("ENGINE_SHUTDOWN")
  /\ queue' \in HookSortings(StopHooks)
  /\ UNCHANGED <<conf, ran, stopped, mux, others>>

Exit == At("shutdown") /\ HooksDone /\ Dies("normal") /\ UNCHANGED events

(* Run recovers from a panic of a hook, a handler or its own, raises          *)
(* REVEL_FAILURE and panics again; Init does not recover.                     *)
Panic ==
  /\ Running
  /\ main \in {"Init", "InitServerEngine", "startup", "NOT listening", "shutdown"}
     \/ (main = "Run" /\ ~conf.known)
  /\ Dies("panicked")
  /\ events' = IF main = "Init" THEN events ELSE Append(events, "REVEL_FAILURE")

-----------------------------------------------------------------------------
(* Stopping: ENGINE_SHUTDOWN_REQUEST is raised by the goroutine that has      *)
(* waited for a signal, or by StopServer.  The handler of the engine calls    *)
(* Shutdown, which closes the listener and waits for the requests, at most    *)
(* app.cancel.timeout seconds.                                                *)

Serving == {r \in Request : request[r].is = "served"}

Wait ==
  /\ Running /\ signals = "notified"
  /\ signals' = "waiting"
  /\ UNCHANGED <<conf, main, outcome, events, hooks, mux, inShutdown, stopping, request>>

(* SIGINT or SIGTERM: the default action until Notify is called, then the     *)
(* channel, which holds nothing: a signal no one waits for is dropped.        *)
Kill == Running /\ signals = "default" /\ Dies("killed") /\ UNCHANGED events

Signal ==
  /\ Running /\ signals = "waiting"
  /\ signals' = "raising"
  /\ UNCHANGED <<conf, main, outcome, events, hooks, mux, inShutdown, stopping, request>>

\* Slip: Shutdown is called when the requests are answered.
ShutdownWhenIdle(to) == Serving = {} /\ signals' = to /\ inShutdown' = TRUE

CallShutdown(to) == signals' = to /\ inShutdown' = TRUE

SignalRequest ==
  /\ Running /\ signals = "raising"
  /\ CallShutdown("done")
  /\ UNCHANGED <<conf, main, outcome, events, hooks, mux, stopping, request>>

(* The handlers know the engine once InitServerEngine has added it; its       *)
(* server is there once it has been initialized.                              *)
Initialized == Running /\ main \in {"startup", "Start", "Serve", "NOT listening", "shutdown"}

StopServer(c) ==
  /\ Initialized
  /\ c \in Request => request[c].is = "served"
  /\ ~stopping[c]
  /\ stopping' = [stopping EXCEPT ![c] = TRUE] /\ inShutdown' = TRUE
  /\ UNCHANGED <<conf, main, outcome, events, hooks, mux, signals, request>>

(* The handlers of the application come before the engine's.  Nothing         *)
(* recovers from a panic of one on the goroutine that waits for a signal, or  *)
(* on one of the application; a filter does on that of a request.             *)
HandlerPanics ==
  /\ Running
  /\ signals = "raising" \/ (Initialized /\ Outsider # {})
  /\ Dies("unrecovered") /\ UNCHANGED events

(* Shutdown returns when no request is being served or its time is up.        *)
StopServerReturns(c) ==
  /\ Running /\ stopping[c]
  /\ stopping' = [stopping EXCEPT ![c] = FALSE]
  /\ UNCHANGED <<conf, main, outcome, events, hooks, mux, inShutdown, signals, request>>

-----------------------------------------------------------------------------
(* Requests.                                                                  *)

Accept(r) ==
  /\ At("Serve") /\ request[r].is = "none"
  /\ request' = [request EXCEPT ![r].is = "connected"]
  /\ UNCHANGED <<conf, main, outcome, events, hooks, mux, inShutdown, signals, stopping>>

(* The request comes over a connection that was accepted: one without a       *)
(* request as yet is left open by Shutdown, and all of them when Accept has   *)
(* failed, whatever the main goroutine is at by now.                          *)
Receive(r, path) ==
  /\ Running /\ request[r].is = "connected"
  /\ request' = [request EXCEPT ![r] =
       [is |-> "served", path |-> path, by |-> Find(HttpMuxList, path)]]
  /\ UNCHANGED <<conf, main, outcome, events, hooks, mux, inShutdown, signals, stopping>>

(* The router logs as Fatal a route with a variable that the path lacks.      *)
RouteFatal(r) ==
  /\ Running /\ request[r].is = "served" /\ request[r].by = None
  /\ Dies("misrouted") /\ UNCHANGED events

Respond(r) ==
  /\ Running /\ request[r].is = "served" /\ ~stopping[r]
  /\ request' = [request EXCEPT ![r].is = "answered"]
  /\ UNCHANGED <<conf, main, outcome, events, hooks, mux, inShutdown, signals, stopping>>

-----------------------------------------------------------------------------

Main ==
  \/ ConfigurationFatal \/ Configure \/ InitServerEngine \/ BeforeInitialized \/ InitServer
  \/ RunHook \/ Started \/ Listen \/ ListenFatal
  \/ (inShutdown /\ (ServeReturns \/ ServeTLSReturns)) \/ EngineShutdown \/ Exit \/ Panic

Ended == outcome # "running" /\ UNCHANGED vars

Next ==
  \/ Main
  \/ \E p \in PathPrefixes : AddHTTPMux(p)
  \/ (~inShutdown /\ (ServeReturns \/ ServeTLSReturns))
  \/ Wait \/ Kill \/ Signal \/ SignalRequest \/ HandlerPanics
  \/ \E c \in Caller : StopServer(c) \/ StopServerReturns(c)
  \/ \E r \in Request : \/ Accept(r) \/ Respond(r) \/ RouteFatal(r)
                       \/ \E path \in Paths : Receive(r, path)
  \/ Ended

Spec == Init /\ [][Next]_vars

(* Hooks and handlers return, and goroutines that can run are run; nothing    *)
(* says that a request ends, a signal comes or Accept fails.                  *)
FairSpec == Spec /\ WF_vars(Main) /\ WF_vars(Wait) /\ WF_vars(SignalRequest)

-----------------------------------------------------------------------------
(* Properties.                                                                *)

Event == {"REVEL_BEFORE_MODULES_LOADED", "REVEL_AFTER_MODULES_LOADED", "ENGINE_BEFORE_INITIALIZED",
          "ENGINE_STARTED", "ENGINE_SHUTDOWN", "REVEL_FAILURE"}

(* Type invariant: each event is raised at most once and each hook is in one  *)
(* list at most once (RaiseEvent, RevelHooks.Run).                            *)
TypeOK ==
  /\ outcome \in {"running", "normal", "panicked", "fatal", "killed", "unrecovered", "misrouted"}
  /\ events \in Seq(Event) /\ IsInjective(events)
  /\ IsInjective(queue) /\ IsInjective(ran) /\ IsInjective(stopped)
  /\ ToSet(HttpMuxList) \subseteq ToSet(muxes) /\ ToSet(muxes) \subseteq PathPrefixes
  /\ stopping \in [Caller -> BOOLEAN] /\ inShutdown \in BOOLEAN

InOrder(done, orders) ==
  \A i, j \in 1..Len(done) : i < j => orders[done[i]] <= orders[done[j]]

(* No connection is accepted, and so no request served, before every startup  *)
(* hook has run, by order, and the server has announced itself ("before the   *)
(* server is listening for connections", OnAppStart); the shutdown hooks run  *)
(* by their order, with requests beside them, which may even begin then.      *)
ServedOnceStarted ==
  /\ InOrder(ran, StartHooks) /\ InOrder(stopped, StopHooks)
  /\ (\E r \in Request : request[r].is # "none") =>
       Len(ran) = Len(StartHooks) /\ Contains(events, "ENGINE_STARTED")

(* A process that has accepted a connection ends by running every shutdown    *)
(* hook, after ENGINE_SHUTDOWN; a signal does not kill it.  Excepted: a hook  *)
(* or handler panics in Run, which REVEL_FAILURE reports; it serves SSL, where *)
(* the return of Serve is fatal; and, reported by no event, a handler of      *)
(* ENGINE_SHUTDOWN_REQUEST panics on another goroutine, or Route ends the     *)
(* process while it serves a request, which is cut.                           *)
EndsThroughHooks ==
  (~Running /\ \E r \in Request : request[r].is # "none") =>
    \/ outcome = "normal" /\ Contains(events, "ENGINE_SHUTDOWN") /\ Len(stopped) = Len(StopHooks)
    \/ outcome = "panicked" /\ Last(events) = "REVEL_FAILURE"
    \/ outcome = "fatal" /\ conf.ssl
    \/ outcome = "unrecovered" /\ (signals = "raising" \/ Outsider # {})
    \/ outcome = "misrouted" /\ \E r \in Request : request[r].is = "cut" /\ request[r].by = None

(* A request goes to the longest prefix that is a prefix of its path, of      *)
(* those added before the engine was initialized, and to Revel if there is    *)
(* none ("returns the largest path matching this", Find).                     *)
LongestPrefixServes ==
  \A r \in Request : request[r].path # None =>
    LET known == {p \in ToSet(HttpMuxList) : IsPrefix(p, request[r].path)}
    IN  IF known = {} THEN request[r].by = None
        ELSE request[r].by \in known /\ \A p \in known : Len(p) <= Len(request[r].by)

(* Once Shutdown has been called the process ends, although a request may     *)
(* never be answered and StopServer may be called by a request, which         *)
(* Shutdown waits for; and so it does once the goroutine has its signal.      *)
StopEnds == (inShutdown \/ signals = "raising") ~> ~Running

(* No request is being served when ENGINE_SHUTDOWN is raised ("Event type     *)
(* after server engine is stopped"): Serve returns as soon as Shutdown is     *)
(* called, and Run does not wait for Shutdown to return.                      *)
StoppedBeforeShutdownEvent == Contains(events, "ENGINE_SHUTDOWN") => Serving = {}
=============================================================================
