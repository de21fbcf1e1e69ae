----------------------- MODULE ServerLifeCycleProofs -----------------------
(* Theorems about the life of the server process, for every number of         *)
(* requests, hooks, orders, path prefixes and callers of StopServer.          *)
EXTENDS ServerLifeCycle, WellFoundedInduction, TLAPS

Place == {"Init", "Run", "InitServerEngine", "InitServer", "startup", "Start", "Serve",
          "NOT listening", "shutdown", "gone"}

Handling == [is : {"none", "connected", "served", "answered", "cut"}, path : Paths \cup {None},
             by : PathPrefixes \cup {None}]

Typed ==
  /\ main \in Place /\ outcome \in {"running", "normal", "panicked", "fatal", "killed",
                                     "unrecovered", "misrouted"}
  /\ Running <=> main # "gone"
  /\ events \in Seq(Event) /\ queue \in Seq(Nat)
  /\ ran \in Seq(1..Len(StartHooks)) /\ stopped \in Seq(1..Len(StopHooks))
  /\ muxes \in Seq(PathPrefixes) /\ HttpMuxList \in Seq(PathPrefixes)
  /\ request \in [Request -> Handling]
  /\ stopping \in [Caller -> BOOLEAN] /\ inShutdown \in BOOLEAN

(* The events are the beginning of this list, as far as the main goroutine    *)
(* has come; REVEL_FAILURE may follow, as the last thing.                     *)
Script == <<"REVEL_BEFORE_MODULES_LOADED", "REVEL_AFTER_MODULES_LOADED",
            "ENGINE_BEFORE_INITIALIZED", "ENGINE_STARTED", "ENGINE_SHUTDOWN">>

EventsRight ==
  /\ \A i \in 1..Len(events) :
       \/ i \in 1..5 /\ events[i] = Script[i]
       \/ i = Len(events) /\ outcome = "panicked" /\ events[i] = "REVEL_FAILURE"
  /\ main = "Init" => Len(events) = 0
  /\ main \in {"Run", "InitServerEngine"} => Len(events) = 2
  /\ main \in {"InitServer", "startup"} => Len(events) = 3
  /\ main \in {"Start", "Serve", "NOT listening"} => Len(events) = 4
  /\ main = "shutdown" => Len(events) = 5

(* Hooks done, or to be done, one after the other by their orders. *)
Sorted(list, orders) ==
  \A i, j \in 1..Len(list) : i < j => list[i] # list[j] /\ orders[list[i]] <= orders[list[j]]

(* The hooks done and those to be done are all there are, in that order. *)
Halfway(done, rest, orders) ==
  /\ rest \in Seq(1..Len(orders)) /\ Sorted(rest, orders)
  /\ Len(done) + Len(rest) = Len(orders)
  /\ \A i \in 1..Len(done), j \in 1..Len(rest) :
       done[i] # rest[j] /\ orders[done[i]] <= orders[rest[j]]

HooksRight ==
  /\ Sorted(ran, StartHooks) /\ Sorted(stopped, StopHooks) /\ IsInjective(queue)
  /\ main \in {"Init", "Run", "InitServerEngine", "InitServer"} => ran = << >>
  /\ main = "startup" => Halfway(ran, queue, StartHooks)
  /\ main \in {"Start", "Serve", "NOT listening", "shutdown"} => Len(ran) = Len(StartHooks)
  /\ main \notin {"shutdown", "gone"} => stopped = << >>
  /\ main = "shutdown" => Halfway(stopped, queue, StopHooks)

(* The engine knows some of the prefixes given, the longest ones first. *)
MuxRight ==
  /\ ToSet(HttpMuxList) \subseteq ToSet(muxes)
  /\ \A i, j \in 1..Len(HttpMuxList) : i < j => Len(HttpMuxList[j]) <= Len(HttpMuxList[i])

(* A connection was accepted by a server that had been started and had asked  *)
(* for the signals, and its request was given to what Find returned.          *)
AcceptedRight(r) ==
  /\ main \in {"Serve", "NOT listening", "shutdown", "gone"}
  /\ Len(ran) = Len(StartHooks)
  /\ Len(events) \geq 4 /\ events[4] = "ENGINE_STARTED"
  /\ signals # "default"
  /\ main = "gone" =>
       \/ outcome = "normal" /\ Len(events) = 5 /\ Len(stopped) = Len(StopHooks)
       \/ outcome = "panicked" /\ Last(events) = "REVEL_FAILURE"
       \/ outcome = "fatal" /\ conf.ssl
       \/ outcome = "unrecovered" /\ (signals = "raising" \/ Outsider # {})
       \/ outcome = "misrouted" /\ \E q \in Request : request[q].is = "cut" /\ request[q].by = None

RequestsRight ==
  /\ main \in {"Start", "Serve", "NOT listening", "shutdown"} => signals # "default"
  /\ \A r \in Request : request[r].is # "none" => AcceptedRight(r)
  /\ \A r \in Request : request[r].is = "none" => request[r].path = None
  /\ \A r \in Request : request[r].path # None =>
       request[r].by = Find(HttpMuxList, request[r].path)

IInv == Typed /\ EventsRight /\ HooksRight /\ MuxRight /\ RequestsRight

-----------------------------------------------------------------------------
(* Sequences. *)

LEMMA AppendFacts ==
  ASSUME NEW S, NEW s \in Seq(S), NEW e \in S
  PROVE  /\ Append(s, e) \in Seq(S) /\ Len(Append(s, e)) = Len(s) + 1 /\ Len(s) \in Nat
         /\ \A i \in 1..Len(s) : Append(s, e)[i] = s[i]
         /\ Append(s, e)[Len(s) + 1] = e
  OBVIOUS

LEMMA TailFacts ==
  ASSUME NEW S, NEW s \in Seq(S), s # << >>
  PROVE  /\ Tail(s) \in Seq(S) /\ Len(Tail(s)) = Len(s) - 1 /\ Len(s) \in Nat \ {0}
         /\ \A i \in 1..Len(Tail(s)) : Tail(s)[i] = s[i + 1]
         /\ Head(s) = s[1] /\ Head(s) \in S
  OBVIOUS

LEMMA SortedIsInjective ==
  ASSUME NEW S, NEW list \in Seq(S), NEW orders, Sorted(list, orders) PROVE IsInjective(list)
<1>1. DOMAIN list = 1..Len(list) /\ Len(list) \in Nat
  OBVIOUS
<1>2. ASSUME NEW i \in 1..Len(list), NEW j \in 1..Len(list), list[i] = list[j] PROVE i = j
  BY <1>1, <1>2 DEF Sorted
<1> QED
  BY <1>1, <1>2 DEF IsInjective

(* What sort.Sort leaves is the hooks in the order of their orders, none run  *)
(* and all to run.                                                            *)
LEMMA HookSortingsFacts ==
  ASSUME NEW orders \in Seq(Nat), NEW q \in HookSortings(orders)
  PROVE  Halfway(<< >>, q, orders)
<1> DEFINE n == Len(orders)
<1>1. n \in Nat /\ \A i \in 1..n : orders[i] \in Nat
  OBVIOUS
<1>2. /\ q \in [1..n -> 1..n]
      /\ \A i, j \in 1..n : i < j =>
           q[i] # q[j] /\ <<q[j], q[i]>> \notin {e \in (1..n) \X (1..n) : orders[e[1]] < orders[e[2]]}
  BY Zenon DEF HookSortings, Sortings
<1>3. ASSUME NEW i \in 1..n, NEW j \in 1..n, i < j
      PROVE  q[i] # q[j] /\ orders[q[i]] <= orders[q[j]]
  <2>1. q[i] \in 1..n /\ q[j] \in 1..n
    BY <1>2
  <2>2. ~(orders[q[j]] < orders[q[i]])
    BY <1>2, <1>3, <2>1
  <2>3. q[i] # q[j]
    BY <1>2, <1>3
  <2>4. orders[q[i]] \in Nat /\ orders[q[j]] \in Nat
    BY <1>1, <2>1
  <2> QED
    BY <2>2, <2>3, <2>4
<1>4. q \in Seq(1..n) /\ Len(q) = n
  BY <1>1, <1>2
<1> QED
  BY <1>1, <1>3, <1>4 DEF Halfway, Sorted

(* A hook run takes the next of the list. *)
LEMMA HalfwayKept ==
  ASSUME NEW orders \in Seq(Nat), NEW done \in Seq(1..Len(orders)), NEW rest,
         Halfway(done, rest, orders), Sorted(done, orders), rest # << >>
  PROVE  /\ Head(rest) \in 1..Len(orders)
         /\ Append(done, Head(rest)) \in Seq(1..Len(orders))
         /\ Sorted(Append(done, Head(rest)), orders)
         /\ Halfway(Append(done, Head(rest)), Tail(rest), orders)
<1> DEFINE n == Len(orders)
           more == Append(done, Head(rest))
           less == Tail(rest)
<1>1. rest \in Seq(1..n) /\ n \in Nat /\ \A i \in 1..n : orders[i] \in Nat
  BY DEF Halfway
<1>2. /\ less \in Seq(1..n) /\ Len(less) = Len(rest) - 1 /\ Len(rest) \in Nat \ {0}
      /\ \A i \in 1..Len(less) : less[i] = rest[i + 1]
      /\ Head(rest) = rest[1] /\ Head(rest) \in 1..n
  BY <1>1, TailFacts
<1>3. /\ more \in Seq(1..n) /\ Len(more) = Len(done) + 1 /\ Len(done) \in Nat
      /\ \A i \in 1..Len(done) : more[i] = done[i]
      /\ more[Len(done) + 1] = rest[1]
  BY <1>2, AppendFacts
<1>4. /\ \A i, j \in 1..Len(rest) : i < j => rest[i] # rest[j] /\ orders[rest[i]] <= orders[rest[j]]
      /\ \A i, j \in 1..Len(done) : i < j => done[i] # done[j] /\ orders[done[i]] <= orders[done[j]]
      /\ \A i \in 1..Len(done), j \in 1..Len(rest) :
           done[i] # rest[j] /\ orders[done[i]] <= orders[rest[j]]
      /\ Len(done) + Len(rest) = n
  BY DEF Halfway, Sorted
<1> HIDE DEF n, more, less
<1>5. Len(more) + Len(less) = n
  BY <1>2, <1>3, <1>4
<1>6. Sorted(less, orders)
  <2> SUFFICES ASSUME NEW i \in 1..Len(less), NEW j \in 1..Len(less), i < j
               PROVE  less[i] # less[j] /\ orders[less[i]] <= orders[less[j]]
    BY DEF Sorted
  <2>1. i + 1 \in 1..Len(rest) /\ j + 1 \in 1..Len(rest) /\ i + 1 < j + 1
    BY <1>2
  <2> QED
    BY <1>2, <1>4, <2>1, ZenonT(60)
<1>7. Sorted(more, orders)
  <2> SUFFICES ASSUME NEW i \in 1..Len(more), NEW j \in 1..Len(more), i < j
               PROVE  more[i] # more[j] /\ orders[more[i]] <= orders[more[j]]
    BY DEF Sorted
  <2>1. i \in 1..Len(done) /\ more[i] = done[i]
    BY <1>3
  <2>2. CASE j \in 1..Len(done)
    BY <1>3, <1>4, <2>1, <2>2, ZenonT(60)
  <2>3. CASE j = Len(done) + 1
    <3>1. more[j] = rest[1] /\ 1 \in 1..Len(rest)
      BY <1>2, <1>3, <2>3
    <3> QED
      BY <1>4, <2>1, <3>1
  <2>4. j \in 1..Len(done) \/ j = Len(done) + 1
    BY <1>3, SMTT(30)
  <2> QED
    BY <2>2, <2>3, <2>4
<1>8. ASSUME NEW i \in 1..Len(more), NEW j \in 1..Len(less)
      PROVE  more[i] # less[j] /\ orders[more[i]] <= orders[less[j]]
  <2>1. less[j] = rest[j + 1] /\ j + 1 \in 1..Len(rest) /\ 1 < j + 1 /\ 1 \in 1..Len(rest)
    BY <1>2
  <2>2. CASE i \in 1..Len(done)
    BY <1>3, <1>4, <2>1, <2>2, ZenonT(60)
  <2>3. CASE i = Len(done) + 1
    BY <1>3, <1>4, <2>1, <2>3
  <2>4. i \in 1..Len(done) \/ i = Len(done) + 1
    BY <1>3
  <2> QED
    BY <2>2, <2>3, <2>4
<1> QED
  BY <1>2, <1>3, <1>5, <1>6, <1>7, <1>8 DEF Halfway, n, more, less

(* The list of prefixes the engine gets. *)
LEMMA MuxSortingsFacts ==
  ASSUME NEW list \in Seq(PathPrefixes), NEW sorted \in MuxSortings(list)
  PROVE  /\ sorted \in Seq(PathPrefixes) /\ ToSet(sorted) \subseteq ToSet(list)
         /\ \A i, j \in 1..Len(sorted) : i < j => Len(sorted[j]) <= Len(sorted[i])
<1> DEFINE n == Len(list)
           longer == {e \in (1..n) \X (1..n) : Len(list[e[1]]) > Len(list[e[2]])}
<1>1. n \in Nat /\ \A i \in 1..n : list[i] \in PathPrefixes
  OBVIOUS
<1>2. ASSUME NEW i \in 1..n PROVE Len(list[i]) \in Nat
  <2>1. list[i] \in Seq(ToSet(list[i]))
    BY <1>1, PathAssumption
  <2> QED
    BY <2>1
<1>3. PICK p \in Sortings(n, longer) : sorted = [i \in 1..n |-> list[p[i]]]
  BY Zenon DEF MuxSortings
<1>4. /\ p \in [1..n -> 1..n]
      /\ \A i, j \in 1..n : i < j => p[i] # p[j] /\ <<p[j], p[i]>> \notin longer
  BY <1>3 DEF Sortings
<1>5. sorted \in Seq(PathPrefixes) /\ Len(sorted) = n /\ \A i \in 1..n : sorted[i] = list[p[i]]
  <2>1. \A i \in 1..n : p[i] \in 1..n /\ list[p[i]] \in PathPrefixes
    BY <1>1, <1>4
  <2> HIDE DEF n, longer
  <2> QED
    BY <1>1, <1>3, <2>1
<1>6. ToSet(sorted) \subseteq ToSet(list)
  BY <1>4, <1>5 DEF ToSet
<1>7. ASSUME NEW i \in 1..n, NEW j \in 1..n, i < j PROVE Len(sorted[j]) <= Len(sorted[i])
  <2>1. p[i] \in 1..n /\ p[j] \in 1..n
    BY <1>4
  <2>2. ~(Len(list[p[j]]) > Len(list[p[i]]))
    BY <1>4, <1>7, <2>1
  <2>3. Len(list[p[i]]) \in Nat /\ Len(list[p[j]]) \in Nat
    BY <1>2, <2>1
  <2> QED
    BY <1>5, <2>2, <2>3
<1> QED
  BY <1>5, <1>6, <1>7

(* Find returns the first prefix of the list that is one of the path. *)
LEMMA FindFacts ==
  ASSUME NEW list \in Seq(PathPrefixes), NEW path
  PROVE  \/ Find(list, path) = None /\ \A i \in 1..Len(list) : ~IsPrefix(list[i], path)
         \/ \E k \in 1..Len(list) :
              /\ Find(list, path) = list[k] /\ IsPrefix(list[k], path)
              /\ \A i \in 1..Len(list) : IsPrefix(list[i], path) => k <= i
<1> DEFINE hits == {i \in 1..Len(list) : IsPrefix(list[i], path)}
           first == CHOOSE i \in hits : \A j \in hits : i <= j
<1>1. Find(list, path) = IF hits = {} THEN None ELSE list[first]
  BY DEF Find
<1>2. CASE hits = {}
  BY <1>1, <1>2
<1>3. CASE hits # {}
  <2>1. \E i \in hits : \A j \in hits : <<j, i>> \notin OpToRel(<, Nat)
    <3>1. hits \subseteq Nat
      OBVIOUS
    <3> HIDE DEF hits
    <3> QED
      BY <1>3, <3>1, WFMin, NatLessThanWellFounded, Zenon
  <2>2. \E i \in hits : \A j \in hits : i <= j
    <3>1. PICK i \in hits : \A j \in hits : <<j, i>> \notin OpToRel(<, Nat)
      BY <2>1
    <3>2. ASSUME NEW j \in hits PROVE i <= j
      <4>1. i \in Nat /\ j \in Nat
        OBVIOUS
      <4>2. <<j, i>> \notin {ss \in Nat \X Nat : ss[1] < ss[2]}
        BY <3>1, Zenon DEF OpToRel
      <4> QED
        BY <4>1, <4>2
    <3> QED
      BY <3>2
  <2>3. first \in hits /\ \A j \in hits : first <= j
    BY <2>2, Zenon
  <2> QED
    BY <1>1, <1>3, <2>3
<1> QED
  BY <1>2, <1>3

-----------------------------------------------------------------------------
(* What each step does to the place of the main goroutine. *)

(* The steps that leave the main goroutine and its lists as they were. *)
Aside == UNCHANGED <<conf, main, outcome, events, hooks, mux>>

LEMMA Steps ==
  ASSUME [Next]_vars
  PROVE  \/ ConfigurationFatal \/ Configure \/ InitServerEngine \/ BeforeInitialized
         \/ InitServer \/ RunHook \/ Started \/ Listen \/ ListenFatal
         \/ ServeReturns \/ ServeTLSReturns \/ EngineShutdown \/ Exit \/ Panic \/ Kill
         \/ (\E p \in PathPrefixes : AddHTTPMux(p))
         \/ Wait \/ Signal \/ SignalRequest \/ HandlerPanics
         \/ (\E c \in Caller : StopServer(c) \/ StopServerReturns(c))
         \/ (\E r \in Request, path \in Paths : Receive(r, path))
         \/ (\E r \in Request : Accept(r) \/ Respond(r))
         \/ (\E r \in Request : RouteFatal(r))
         \/ UNCHANGED vars
  BY DEF Next, Main, Ended

(* The steps with which the process ends. *)
Dying == \/ ConfigurationFatal \/ ListenFatal \/ ServeTLSReturns \/ Exit \/ Panic \/ Kill
         \/ HandlerPanics \/ \E r \in Request : RouteFatal(r)

(* A process ends by itself from any place, by a panic from some. *)
Ends == \/ Running /\ UNCHANGED events /\ \E how : Dies(how)
        \/ Panic

LEMMA EndsSteps == ASSUME Dying PROVE Ends
  BY DEF Dying, Ends, ConfigurationFatal, ListenFatal, ServeTLSReturns, Exit, Kill, At,
         HandlerPanics, RouteFatal

(* Requests end with the process, or are answered, but stay what they are. *)
LEMMA HandlingFacts ==
  ASSUME NEW h \in Handling, NEW is \in {"none", "connected", "served", "answered", "cut"}
  PROVE  /\ [h EXCEPT !.is = is] \in Handling
         /\ [h EXCEPT !.is = is].is = is
         /\ [h EXCEPT !.is = is].path = h.path /\ [h EXCEPT !.is = is].by = h.by
  BY DEF Handling

LEMMA DiesFacts ==
  ASSUME request \in [Request -> Handling], NEW how, Dies(how)
  PROVE  /\ request' \in [Request -> Handling]
         /\ \A r \in Request : /\ request[r].is = "none" <=> request'[r].is = "none"
                               /\ request'[r].path = request[r].path
                               /\ request'[r].by = request[r].by
                               /\ request[r].is = "served" => request'[r].is = "cut"
<1>1. request' = [r \in Request |-> IF request[r].is \in {"connected", "served"}
                                   THEN [request[r] EXCEPT !.is = "cut"] ELSE request[r]]
  BY DEF Dies
<1>2. ASSUME NEW r \in Request
      PROVE  /\ request'[r] \in Handling
             /\ request[r].is = "none" <=> request'[r].is = "none"
             /\ request'[r].path = request[r].path /\ request'[r].by = request[r].by
             /\ request[r].is = "served" => request'[r].is = "cut"
  <2> DEFINE cut == [request[r] EXCEPT !.is = "cut"]
  <2>1. cut \in Handling /\ cut.is = "cut" /\ cut.path = request[r].path /\ cut.by = request[r].by
    BY HandlingFacts
  <2>2. request'[r] = IF request[r].is \in {"connected", "served"} THEN cut ELSE request[r]
    BY <1>1
  <2> HIDE DEF cut
  <2>3. request[r] \in Handling
    OBVIOUS
  <2>4. CASE request[r].is \in {"connected", "served"}
    BY <2>1, <2>2, <2>4
  <2>5. CASE request[r].is \notin {"connected", "served"}
    BY <2>2, <2>3, <2>5
  <2> QED
    BY <2>4, <2>5
<1> QED
  BY <1>1, <1>2

LEMMA ReceiveFacts ==
  ASSUME Typed, NEW r \in Request, NEW path \in Paths, Receive(r, path)
  PROVE  /\ request' \in [Request -> Handling]
         /\ request'[r] = [is |-> "served", path |-> path, by |-> Find(HttpMuxList, path)]
         /\ \A o \in Request \ {r} : request'[o] = request[o]
<1> DEFINE h == [is |-> "served", path |-> path, by |-> Find(HttpMuxList, path)]
<1>1. Find(HttpMuxList, path) \in PathPrefixes \cup {None}
  <2>1. HttpMuxList \in Seq(PathPrefixes)
    BY DEF Typed
  <2>2. \A k \in 1..Len(HttpMuxList) : HttpMuxList[k] \in PathPrefixes
    BY <2>1
  <2> QED
    BY <2>1, <2>2, FindFacts
<1>2. h \in Handling
  BY <1>1 DEF Handling
<1>3. request' = [request EXCEPT ![r] = h]
  BY DEF Receive
<1>4. request \in [Request -> Handling]
  BY DEF Typed
<1> HIDE DEF h
<1>5. request' \in [Request -> Handling] /\ request'[r] = h
      /\ \A o \in Request \ {r} : request'[o] = request[o]
  BY <1>2, <1>3, <1>4
<1> QED
  BY <1>5 DEF h

LEMMA MarkFacts ==
  ASSUME Typed, NEW r \in Request, NEW is \in {"connected", "answered"},
         request' = [request EXCEPT ![r].is = is]
  PROVE  /\ request' \in [Request -> Handling]
         /\ request'[r].is = is /\ request'[r].path = request[r].path
         /\ request'[r].by = request[r].by
         /\ \A o \in Request \ {r} : request'[o] = request[o]
<1> DEFINE h == [request[r] EXCEPT !.is = is]
<1>1. request' = [request EXCEPT ![r] = h]
  OBVIOUS
<1>2. request \in [Request -> Handling]
  BY DEF Typed
<1>3. h \in Handling /\ h.is = is /\ h.path = request[r].path /\ h.by = request[r].by
  <2>1. request[r] \in Handling
    BY <1>2
  <2>2. is \in {"none", "connected", "served", "answered", "cut"}
    OBVIOUS
  <2> QED
    BY <2>1, <2>2, HandlingFacts
<1> HIDE DEF h
<1> QED
  BY <1>1, <1>2, <1>3

LEMMA AcceptFacts ==
  ASSUME Typed, NEW r \in Request, Accept(r)
  PROVE  /\ request' \in [Request -> Handling]
         /\ \A o \in Request : /\ request'[o].path = request[o].path /\ request'[o].by = request[o].by
                               /\ request'[o].is = "none" => request[o].is = "none"
                               /\ o # r => request'[o].is = request[o].is
<1>1. request' = [request EXCEPT ![r].is = "connected"]
  BY DEF Accept
<1>2. /\ request' \in [Request -> Handling]
      /\ request'[r].is = "connected" /\ request'[r].path = request[r].path
      /\ request'[r].by = request[r].by
      /\ \A o \in Request \ {r} : request'[o] = request[o]
  BY <1>1, MarkFacts
<1> QED
  BY <1>2

LEMMA RespondFacts ==
  ASSUME Typed, NEW r \in Request, Respond(r)
  PROVE  /\ request' \in [Request -> Handling] /\ request[r].is = "served"
         /\ request'[r].is = "answered" /\ request'[r].path = request[r].path
         /\ request'[r].by = request[r].by
         /\ \A o \in Request \ {r} : request'[o] = request[o]
<1>1. request' = [request EXCEPT ![r].is = "answered"] /\ request[r].is = "served"
  BY DEF Respond
<1> QED
  BY <1>1, MarkFacts

-----------------------------------------------------------------------------
(* Types. *)

LEMMA TypedInit == Init => Typed
<1> SUFFICES ASSUME Init PROVE Typed
  OBVIOUS
<1>1. request \in [Request -> Handling]
  BY DEF Init, Handling
<1>2. \A S : << >> \in Seq(S)
  OBVIOUS
<1> QED
  BY <1>1, <1>2 DEF Init, Typed, Place, Running

LEMMA TypedStep == ASSUME Typed, HooksRight, [Next]_vars PROVE Typed'
<1> USE DEF Typed
<1>0. /\ StartHooks \in Seq(Nat) /\ StopHooks \in Seq(Nat)
      /\ Len(StartHooks) \in Nat /\ Len(StopHooks) \in Nat
      /\ 1..Len(StartHooks) \subseteq Nat /\ 1..Len(StopHooks) \subseteq Nat
  BY HookAssumption
<1>a. \A e \in Event : Append(events, e) \in Seq(Event)
  <2>1. events \in Seq(Event)
    OBVIOUS
  <2> HIDE DEF Typed
  <2> QED
    BY <2>1
<1>1. CASE \E how \in {"fatal", "normal", "panicked", "killed", "unrecovered", "misrouted"} :
             /\ Running /\ Dies(how)
             /\ UNCHANGED events \/ events' = Append(events, "REVEL_FAILURE")
  <2>1. PICK how \in {"fatal", "normal", "panicked", "killed", "unrecovered", "misrouted"} : Dies(how)
    BY <1>1
  <2>2. request' \in [Request -> Handling]
    BY <2>1, DiesFacts
  <2>3. events' \in Seq(Event)
    <3>1. "REVEL_FAILURE" \in Event
      BY DEF Event
    <3> QED
      BY <1>1, <1>a, <3>1
  <2>4. stopping' \in [Caller -> BOOLEAN]
    BY <2>1 DEF Dies
  <2>5. main' = "gone" /\ outcome' = how /\ UNCHANGED <<hooks, mux, inShutdown>>
    BY <2>1 DEF Dies
  <2> QED
    BY <2>2, <2>3, <2>4, <2>5 DEF hooks, mux, Place, Running
<1>2. CASE Configure \/ InitServerEngine \/ BeforeInitialized \/ Started \/ Listen \/ ServeReturns
  <2>1. main' \in Place \ {"gone"} /\ outcome' = outcome /\ Running
    BY <1>2 DEF Configure, InitServerEngine, BeforeInitialized, Started, Listen, ServeReturns,
                Goes, At, Place
  <2>2. \/ events' = events
        \/ events' = Append(events, "ENGINE_BEFORE_INITIALIZED")
        \/ events' = Append(events, "ENGINE_STARTED")
        \/ events' = events \o <<"REVEL_BEFORE_MODULES_LOADED", "REVEL_AFTER_MODULES_LOADED">>
    BY <1>2 DEF Configure, InitServerEngine, BeforeInitialized, Started, Listen, ServeReturns, Raised
  <2>3. events' \in Seq(Event)
    <3>1. /\ "ENGINE_BEFORE_INITIALIZED" \in Event /\ "ENGINE_STARTED" \in Event
          /\ <<"REVEL_BEFORE_MODULES_LOADED", "REVEL_AFTER_MODULES_LOADED">> \in Seq(Event)
      BY DEF Event
    <3>2. events \in Seq(Event)
      OBVIOUS
    <3> HIDE DEF Typed
    <3>3. events \o <<"REVEL_BEFORE_MODULES_LOADED", "REVEL_AFTER_MODULES_LOADED">> \in Seq(Event)
      BY <3>1, <3>2
    <3> QED
      BY <1>a, <2>2, <3>1, <3>2, <3>3
  <2>4. UNCHANGED <<hooks, mux, inShutdown, stopping, request>>
    BY <1>2 DEF Configure, InitServerEngine, BeforeInitialized, Started, Listen, ServeReturns, others
  <2> QED
    BY <2>1, <2>3, <2>4 DEF hooks, mux, Place, Running
<1>3. CASE InitServer
  <2>1. HttpMuxList' \in Seq(PathPrefixes)
    BY <1>3, MuxSortingsFacts DEF InitServer
  <2>2. queue' \in Seq(Nat)
    <3>1. queue' \in Seq(1..Len(StartHooks))
      BY <1>0, <1>3, HookSortingsFacts DEF InitServer, Halfway
    <3> QED
      BY <1>0, <3>1
  <2> QED
    BY <1>3, <2>1, <2>2 DEF InitServer, Goes, At, Running, Place, others
<1>4. CASE EngineShutdown
  <2>1. events' \in Seq(Event)
    <3>1. "ENGINE_SHUTDOWN" \in Event
      BY DEF Event
    <3> QED
      BY <1>4, <1>a, <3>1 DEF EngineShutdown, Raised
  <2>2. queue' \in Seq(Nat)
    <3>1. queue' \in Seq(1..Len(StopHooks))
      BY <1>0, <1>4, HookSortingsFacts DEF EngineShutdown, Halfway
    <3> QED
      BY <1>0, <3>1
  <2> QED
    BY <1>4, <2>1, <2>2 DEF EngineShutdown, Goes, At, Running, Place, others, mux
<1>5. CASE RunHook
  <2>1. /\ main \in {"startup", "shutdown"} /\ queue # << >> /\ queue' = Tail(queue)
        /\ UNCHANGED <<main, outcome, events, mux, others>>
    BY <1>5 DEF RunHook
  <2>2. queue' \in Seq(Nat)
    BY <2>1, TailFacts
  <2>3. CASE main = "startup"
    <3>1. ran' = Append(ran, Head(queue)) /\ stopped' = stopped
      BY <1>5, <2>3 DEF RunHook
    <3>2. ran' \in Seq(1..Len(StartHooks))
      BY <1>0, <2>1, <2>3, <3>1, HalfwayKept DEF HooksRight
    <3> QED
      BY <2>1, <2>2, <3>1, <3>2 DEF mux, others, Running
  <2>4. CASE main = "shutdown"
    <3>1. stopped' = Append(stopped, Head(queue)) /\ ran' = ran
      BY <1>5, <2>4 DEF RunHook
    <3>2. stopped' \in Seq(1..Len(StopHooks))
      BY <1>0, <2>1, <2>4, <3>1, HalfwayKept DEF HooksRight
    <3> QED
      BY <2>1, <2>2, <3>1, <3>2 DEF mux, others, Running
  <2> QED
    BY <2>1, <2>3, <2>4
<1>6. ASSUME NEW p \in PathPrefixes, AddHTTPMux(p) PROVE Typed'
  <2>1. muxes' \in Seq(PathPrefixes)
    BY <1>6 DEF AddHTTPMux
  <2> QED
    BY <1>6, <2>1 DEF AddHTTPMux, hooks, others, Running
<1>7. CASE Wait \/ Signal \/ SignalRequest \/ UNCHANGED vars
  <2>1. /\ UNCHANGED <<main, outcome, events, hooks, mux, stopping, request>>
        /\ inShutdown' \in {inShutdown, TRUE}
    BY <1>7 DEF Wait, Signal, SignalRequest, CallShutdown, vars, hooks, mux
  <2>2. inShutdown' \in BOOLEAN
    BY <2>1, Zenon
  <2> QED
    BY <2>1, <2>2 DEF hooks, mux, Running
<1>8. ASSUME NEW c \in Caller, StopServer(c) \/ StopServerReturns(c) PROVE Typed'
  <2>1. /\ UNCHANGED <<main, outcome, events, hooks, mux, request>>
        /\ inShutdown' \in {inShutdown, TRUE}
        /\ stopping' \in [Caller -> BOOLEAN]
    BY <1>8 DEF StopServer, StopServerReturns
  <2>2. inShutdown' \in BOOLEAN
    BY <2>1, Zenon
  <2> QED
    BY <2>1, <2>2 DEF hooks, mux, Running
<1>9. ASSUME NEW r \in Request, NEW path \in Paths, Receive(r, path) PROVE Typed'
  BY <1>9, ReceiveFacts DEF Receive, hooks, mux, Running
<1>10. ASSUME NEW r \in Request, Accept(r) \/ Respond(r) PROVE Typed'
  BY <1>10, AcceptFacts, RespondFacts DEF Accept, Respond, hooks, mux, Running
<1>11. CASE Dying
  <2>1. \E how \in {"fatal", "normal", "panicked", "killed", "unrecovered", "misrouted"} :
          /\ Running /\ Dies(how)
          /\ UNCHANGED events \/ events' = Append(events, "REVEL_FAILURE")
    BY <1>11 DEF Dying, ConfigurationFatal, ListenFatal, ServeTLSReturns, Exit, Panic, Kill, At,
                 HandlerPanics, RouteFatal
  <2> QED
    BY <1>1, <2>1
<1> QED
  BY Steps, <1>2, <1>3, <1>4, <1>5, <1>6, <1>7, <1>8, <1>9, <1>10, <1>11 DEF Dying

-----------------------------------------------------------------------------
(* Events. *)

LEMMA EventsStep == ASSUME Typed, EventsRight, [Next]_vars PROVE EventsRight'
<1>0. events \in Seq(Event) /\ Len(events) \in Nat /\ main \in Place
  BY DEF Typed
<1>e. /\ Script[1] = "REVEL_BEFORE_MODULES_LOADED" /\ Script[2] = "REVEL_AFTER_MODULES_LOADED"
      /\ Script[3] = "ENGINE_BEFORE_INITIALIZED" /\ Script[4] = "ENGINE_STARTED"
      /\ Script[5] = "ENGINE_SHUTDOWN"
  BY DEF Script
<1>r. ASSUME Running PROVE \A i \in 1..Len(events) : i \in 1..5 /\ events[i] = Script[i]
  BY <1>r DEF EventsRight, Running
<1>1. CASE Ends
  <2>1. main' = "gone" /\ Running
    BY <1>1 DEF Ends, Panic, Dies
  <2>2. CASE UNCHANGED events
    BY <1>r, <2>1, <2>2 DEF EventsRight
  <2>3. CASE events' = Append(events, "REVEL_FAILURE") /\ outcome' = "panicked"
    <3>1. "REVEL_FAILURE" \in Event
      BY DEF Event
    <3>2. /\ Len(events') = Len(events) + 1 /\ events'[Len(events) + 1] = "REVEL_FAILURE"
          /\ \A i \in 1..Len(events) : events'[i] = events[i]
      BY <1>0, <2>3, <3>1, AppendFacts
    <3>3. ASSUME NEW i \in 1..Len(events')
          PROVE  \/ i \in 1..5 /\ events'[i] = Script[i]
                 \/ i = Len(events') /\ outcome' = "panicked" /\ events'[i] = "REVEL_FAILURE"
      BY <1>0, <1>r, <2>1, <2>3, <3>2
    <3> QED
      BY <2>1, <3>3 DEF EventsRight
  <2> QED
    BY <1>1, <2>2, <2>3 DEF Ends, Panic, Dies
<1>2. CASE Configure
  <2>1. events = << >>
    BY <1>0, <1>2 DEF EventsRight, Configure, Goes, At
  <2>2. events' = <<"REVEL_BEFORE_MODULES_LOADED", "REVEL_AFTER_MODULES_LOADED">>
    BY <1>2, <2>1 DEF Configure
  <2>3. main' = "Run"
    BY <1>2 DEF Configure, Goes
  <2>4. Len(events') = 2 /\ \A i \in 1..2 : events'[i] = Script[i]
    BY <1>e, <2>2
  <2>5. \A i \in 1..Len(events') :
          \/ i \in 1..5 /\ events'[i] = Script[i]
          \/ i = Len(events') /\ outcome' = "panicked" /\ events'[i] = "REVEL_FAILURE"
    BY <2>4
  <2> QED
    BY <2>3, <2>4, <2>5 DEF EventsRight
<1>3. ASSUME NEW e \in Event, NEW n \in 2..4, Running, Len(events) = n, e = Script[n + 1],
             events' = Append(events, e),
             \/ n = 2 /\ main' = "InitServer"
             \/ n = 3 /\ main' = "Start"
             \/ n = 4 /\ main' = "shutdown"
      PROVE  EventsRight'
  <2>1. /\ Len(events') = n + 1 /\ events'[n + 1] = e
        /\ \A i \in 1..n : events'[i] = events[i]
    BY <1>0, <1>3, AppendFacts
  <2>2. \A i \in 1..Len(events') : i \in 1..5 /\ events'[i] = Script[i]
    BY <1>3, <1>r, <2>1
  <2>3. \A i \in 1..Len(events') :
          \/ i \in 1..5 /\ events'[i] = Script[i]
          \/ i = Len(events') /\ outcome' = "panicked" /\ events'[i] = "REVEL_FAILURE"
    BY <2>2
  <2>4. \/ main' = "InitServer" /\ Len(events') = 3
        \/ main' = "Start" /\ Len(events') = 4
        \/ main' = "shutdown" /\ Len(events') = 5
    BY <1>3, <2>1
  <2> HIDE DEF Script
  <2> QED
    BY <2>3, <2>4 DEF EventsRight
<1>s. /\ "ENGINE_BEFORE_INITIALIZED" \in Event /\ "ENGINE_STARTED" \in Event
      /\ "ENGINE_SHUTDOWN" \in Event
  BY DEF Event
<1>4. CASE BeforeInitialized
  <2>1. /\ Running /\ main = "InitServerEngine" /\ main' = "InitServer"
        /\ events' = Append(events, "ENGINE_BEFORE_INITIALIZED")
    BY <1>4 DEF BeforeInitialized, Goes, At, Raised
  <2>2. Len(events) = 2 /\ 2 \in 2..4 /\ 2 + 1 = 3
    BY <2>1 DEF EventsRight
  <2> QED
    BY <1>3, <1>e, <1>s, <2>1, <2>2
<1>5. CASE Started
  <2>1. /\ Running /\ main = "startup" /\ main' = "Start"
        /\ events' = Append(events, "ENGINE_STARTED")
    BY <1>5 DEF Started, Goes, At, Raised
  <2>2. Len(events) = 3 /\ 3 \in 2..4 /\ 3 + 1 = 4
    BY <2>1 DEF EventsRight
  <2> QED
    BY <1>3, <1>e, <1>s, <2>1, <2>2
<1>6. CASE EngineShutdown
  <2>1. /\ Running /\ main = "NOT listening" /\ main' = "shutdown"
        /\ events' = Append(events, "ENGINE_SHUTDOWN")
    BY <1>6 DEF EngineShutdown, Goes, At, Raised
  <2>2. Len(events) = 4 /\ 4 \in 2..4 /\ 4 + 1 = 5
    <3>1. main \in {"Start", "Serve", "NOT listening"} => Len(events) = 4
      BY Zenon DEF EventsRight
    <3>2. Len(events) = 4
      BY <2>1, <3>1, Zenon
    <3> QED
      BY <3>2
  <2> QED
    BY <1>3, <1>e, <1>s, <2>1, <2>2
<1>7. CASE InitServerEngine \/ InitServer \/ Listen \/ ServeReturns
  <2>1. /\ events' = events /\ outcome' = outcome
        /\ \/ main = "Run" /\ main' = "InitServerEngine"
           \/ main = "InitServer" /\ main' = "startup"
           \/ main = "Start" /\ main' = "Serve"
           \/ main = "Serve" /\ main' = "NOT listening"
    BY <1>7 DEF InitServerEngine, InitServer, Listen, ServeReturns, Goes, At
  <2> QED
    BY <2>1 DEF EventsRight
<1>8. CASE UNCHANGED <<main, outcome, events>>
  BY <1>8 DEF EventsRight
<1>9. ASSUME NEW p \in PathPrefixes, AddHTTPMux(p) PROVE EventsRight'
  BY <1>8, <1>9 DEF AddHTTPMux
<1>10. ASSUME NEW c \in Caller, StopServer(c) \/ StopServerReturns(c) PROVE EventsRight'
  BY <1>8, <1>10 DEF StopServer, StopServerReturns
<1>11. ASSUME NEW r \in Request, NEW path \in Paths, Receive(r, path) PROVE EventsRight'
  BY <1>8, <1>11 DEF Receive
<1>12. ASSUME NEW r \in Request, Accept(r) \/ Respond(r) PROVE EventsRight'
  BY <1>8, <1>12 DEF Accept, Respond
<1>13. CASE RunHook \/ Wait \/ Signal \/ SignalRequest \/ UNCHANGED vars
  BY <1>8, <1>13 DEF RunHook, Wait, Signal, SignalRequest, vars
<1> QED
  BY Steps, EndsSteps, <1>1, <1>2, <1>4, <1>5, <1>6, <1>7, <1>9, <1>10, <1>11, <1>12, <1>13 DEF Dying

-----------------------------------------------------------------------------
(* Hooks. *)

LEMMA HooksStep == ASSUME Typed, HooksRight, [Next]_vars PROVE HooksRight'
<1>0. /\ StartHooks \in Seq(Nat) /\ StopHooks \in Seq(Nat) /\ main \in Place
      /\ ran \in Seq(1..Len(StartHooks)) /\ stopped \in Seq(1..Len(StopHooks))
  BY HookAssumption DEF Typed
<1>1. CASE Ends
  <2>1. main' = "gone" /\ UNCHANGED <<queue, ran, stopped>>
    BY <1>1 DEF Ends, Panic, Dies, hooks
  <2> QED
    BY <2>1 DEF HooksRight
<1>2. CASE Configure \/ InitServerEngine \/ BeforeInitialized \/ Listen \/ ServeReturns
  <2>1. /\ UNCHANGED <<queue, ran, stopped>>
        /\ \/ main = "Init" /\ main' = "Run"
           \/ main = "Run" /\ main' = "InitServerEngine"
           \/ main = "InitServerEngine" /\ main' = "InitServer"
           \/ main = "Start" /\ main' = "Serve"
           \/ main = "Serve" /\ main' = "NOT listening"
    BY <1>2 DEF Configure, InitServerEngine, BeforeInitialized, Listen, ServeReturns, Goes, At, hooks
  <2> QED
    BY <2>1 DEF HooksRight
<1>3. CASE InitServer
  <2>1. /\ main = "InitServer" /\ main' = "startup" /\ UNCHANGED <<ran, stopped>>
        /\ queue' \in HookSortings(StartHooks)
    BY <1>3 DEF InitServer, Goes, At
  <2>2. Halfway(<< >>, queue', StartHooks)
    BY <1>0, <2>1, HookSortingsFacts
  <2>3. IsInjective(queue')
    BY <2>2, SortedIsInjective DEF Halfway
  <2>4. ran = << >> /\ stopped = << >>
    BY <2>1 DEF HooksRight
  <2> QED
    BY <2>1, <2>2, <2>3, <2>4 DEF HooksRight
<1>4. CASE EngineShutdown
  <2>1. /\ main = "NOT listening" /\ main' = "shutdown" /\ UNCHANGED <<ran, stopped>>
        /\ queue' \in HookSortings(StopHooks)
    BY <1>4 DEF EngineShutdown, Goes, At
  <2>2. Halfway(<< >>, queue', StopHooks)
    BY <1>0, <2>1, HookSortingsFacts
  <2>3. IsInjective(queue')
    BY <2>2, SortedIsInjective DEF Halfway
  <2>4. stopped = << >> /\ Len(ran) = Len(StartHooks)
    BY <2>1 DEF HooksRight
  <2> QED
    BY <2>1, <2>2, <2>3, <2>4 DEF HooksRight
<1>5. CASE Started
  <2>1. /\ main = "startup" /\ main' = "Start" /\ UNCHANGED <<queue, ran, stopped>>
        /\ queue = << >>
    BY <1>5 DEF Started, Goes, At, hooks, HooksDone
  <2>2. Len(ran) = Len(StartHooks)
    <3>1. Len(ran) + Len(queue) = Len(StartHooks) /\ Len(queue) = 0
      BY <2>1 DEF HooksRight, Halfway
    <3> QED
      BY <1>0, <3>1
  <2> QED
    BY <2>1, <2>2 DEF HooksRight
<1>6. CASE RunHook
  <2>1. /\ main \in {"startup", "shutdown"} /\ main' = main
        /\ queue # << >> /\ queue' = Tail(queue)
    BY <1>6 DEF RunHook
  <2>2. CASE main = "startup"
    <3>1. ran' = Append(ran, Head(queue)) /\ stopped' = stopped
      BY <1>6, <2>2 DEF RunHook
    <3>2. Sorted(ran, StartHooks) /\ Halfway(ran, queue, StartHooks)
      BY <2>2 DEF HooksRight
    <3>3. Sorted(ran', StartHooks) /\ Halfway(ran', queue', StartHooks)
      BY <1>0, <2>1, <3>1, <3>2, HalfwayKept
    <3>4. IsInjective(queue')
      BY <3>3, SortedIsInjective DEF Halfway
    <3> QED
      BY <2>1, <2>2, <3>1, <3>3, <3>4 DEF HooksRight
  <2>3. CASE main = "shutdown"
    <3>1. stopped' = Append(stopped, Head(queue)) /\ ran' = ran
      BY <1>6, <2>3 DEF RunHook
    <3>2. Sorted(stopped, StopHooks) /\ Halfway(stopped, queue, StopHooks)
      BY <2>3 DEF HooksRight
    <3>3. Sorted(stopped', StopHooks) /\ Halfway(stopped', queue', StopHooks)
      BY <1>0, <2>1, <3>1, <3>2, HalfwayKept
    <3>4. IsInjective(queue')
      BY <3>3, SortedIsInjective DEF Halfway
    <3> QED
      BY <2>1, <2>3, <3>1, <3>3, <3>4 DEF HooksRight
  <2> QED
    BY <2>1, <2>2, <2>3
<1>7. CASE UNCHANGED <<main, queue, ran, stopped>>
  BY <1>7 DEF HooksRight
<1>8. ASSUME NEW p \in PathPrefixes, AddHTTPMux(p) PROVE HooksRight'
  BY <1>7, <1>8 DEF AddHTTPMux, hooks
<1>9. ASSUME NEW c \in Caller, StopServer(c) \/ StopServerReturns(c) PROVE HooksRight'
  BY <1>7, <1>9 DEF StopServer, StopServerReturns, hooks
<1>10. ASSUME NEW r \in Request, NEW path \in Paths, Receive(r, path) PROVE HooksRight'
  BY <1>7, <1>10 DEF Receive, hooks
<1>11. ASSUME NEW r \in Request, Accept(r) \/ Respond(r) PROVE HooksRight'
  BY <1>7, <1>11 DEF Accept, Respond, hooks
<1>12. CASE Wait \/ Signal \/ SignalRequest \/ UNCHANGED vars
  BY <1>7, <1>12 DEF Wait, Signal, SignalRequest, vars, hooks
<1> QED
  BY Steps, EndsSteps, <1>1, <1>2, <1>3, <1>4, <1>5, <1>6, <1>8, <1>9, <1>10, <1>11, <1>12 DEF Dying

-----------------------------------------------------------------------------
(* Prefixes. *)

LEMMA MuxStep == ASSUME Typed, MuxRight, [Next]_vars PROVE MuxRight'
<1>0. muxes \in Seq(PathPrefixes)
  BY DEF Typed
<1>1. CASE InitServer
  <2>1. HttpMuxList' \in MuxSortings(muxes) /\ muxes' = muxes
    BY <1>1 DEF InitServer
  <2> QED
    BY <1>0, <2>1, MuxSortingsFacts DEF MuxRight
<1>2. ASSUME NEW p \in PathPrefixes, AddHTTPMux(p) PROVE MuxRight'
  <2>1. muxes' = Append(muxes, p) /\ HttpMuxList' = HttpMuxList
    BY <1>2 DEF AddHTTPMux
  <2>2. ToSet(muxes) \subseteq ToSet(muxes')
    <3>1. DOMAIN muxes = 1..Len(muxes) /\ DOMAIN muxes' = 1..(Len(muxes) + 1) /\ Len(muxes) \in Nat
      BY <1>0, <2>1
    <3>2. \A i \in 1..Len(muxes) : muxes'[i] = muxes[i]
      BY <1>0, <2>1
    <3> QED
      BY <3>1, <3>2 DEF ToSet
  <2> QED
    BY <2>1, <2>2 DEF MuxRight
<1>3. CASE UNCHANGED <<muxes, HttpMuxList>>
  BY <1>3 DEF MuxRight
<1>4. CASE Ends
  BY <1>3, <1>4 DEF Ends, Panic, Dies, mux
<1>5. CASE Configure \/ InitServerEngine \/ BeforeInitialized \/ RunHook \/ Started \/ Listen
           \/ ServeReturns \/ EngineShutdown
  BY <1>3, <1>5 DEF Configure, InitServerEngine, BeforeInitialized, RunHook, Started, Listen,
                    ServeReturns, EngineShutdown, mux
<1>6. ASSUME NEW c \in Caller, StopServer(c) \/ StopServerReturns(c) PROVE MuxRight'
  BY <1>3, <1>6 DEF StopServer, StopServerReturns, mux
<1>7. ASSUME NEW r \in Request, NEW path \in Paths, Receive(r, path) PROVE MuxRight'
  BY <1>3, <1>7 DEF Receive, mux
<1>8. ASSUME NEW r \in Request, Accept(r) \/ Respond(r) PROVE MuxRight'
  BY <1>3, <1>8 DEF Accept, Respond, mux
<1>9. CASE Wait \/ Signal \/ SignalRequest \/ UNCHANGED vars
  BY <1>3, <1>9 DEF Wait, Signal, SignalRequest, vars, mux
<1> QED
  BY Steps, EndsSteps, <1>1, <1>2, <1>4, <1>5, <1>6, <1>7, <1>8, <1>9 DEF Dying

-----------------------------------------------------------------------------
(* Requests. *)

(* The last event of a panic is REVEL_FAILURE, and ENGINE_STARTED stays where *)
(* it is.                                                                     *)
LEMMA LastEvents ==
  ASSUME Typed, NEW e \in Event, events' = Append(events, e)
  PROVE  /\ Last(events') = e
         /\ Len(events) \geq 4 => Len(events') \geq 4 /\ events'[4] = events[4]
<1>1. events \in Seq(Event)
  BY DEF Typed
<1>2. /\ Len(events') = Len(events) + 1 /\ Len(events) \in Nat
      /\ \A i \in 1..Len(events) : events'[i] = events[i]
      /\ events'[Len(events) + 1] = e
  BY <1>1, AppendFacts
<1> QED
  BY <1>2 DEF Last

LEMMA EndedRequests ==
  ASSUME Typed, EventsRight, HooksRight, RequestsRight, NEW r \in Request, request[r].is # "none",
         Dying
  PROVE  AcceptedRight(r)'
<1>1. AcceptedRight(r) /\ Running
  BY DEF Dying, RequestsRight, ConfigurationFatal, ListenFatal, ServeTLSReturns, Exit, Panic, Kill, At,
         HandlerPanics, RouteFatal
<1>2. /\ main' = "gone" /\ UNCHANGED <<conf, ran, stopped, signals>>
  BY DEF Dying, ConfigurationFatal, ListenFatal, ServeTLSReturns, Exit, Panic, Kill, Dies, hooks,
         HandlerPanics, RouteFatal
<1>3. main \in {"Serve", "NOT listening", "shutdown"} /\ signals # "default"
      /\ Len(ran) = Len(StartHooks) /\ Len(events) \geq 4 /\ events[4] = "ENGINE_STARTED"
  <2>1. main # "gone"
    BY <1>1 DEF Typed
  <2> QED
    BY <1>1, <2>1, Zenon DEF AcceptedRight
<1>4. CASE Panic
  <2>1. events' = Append(events, "REVEL_FAILURE") /\ outcome' = "panicked"
    BY <1>3, <1>4 DEF Panic, Dies
  <2>2. "REVEL_FAILURE" \in Event
    BY DEF Event
  <2> QED
    BY <1>2, <1>3, <2>1, <2>2, LastEvents DEF AcceptedRight
<1>5. CASE ServeTLSReturns
  BY <1>2, <1>3, <1>5 DEF AcceptedRight, ServeTLSReturns, Dies
<1>6. CASE Exit
  <2>1. /\ main = "shutdown" /\ queue = << >> /\ outcome' = "normal" /\ events' = events
    BY <1>6 DEF Exit, At, Dies, HooksDone
  <2>2. Len(events) = 5
    BY <2>1 DEF EventsRight
  <2>3. Len(stopped) = Len(StopHooks)
    <3>1. Len(stopped) + Len(queue) = Len(StopHooks) /\ Len(queue) = 0
      BY <2>1 DEF HooksRight, Halfway
    <3>2. Len(stopped) \in Nat
      BY DEF Typed
    <3> QED
      BY <3>1, <3>2
  <2> QED
    BY <1>2, <1>3, <2>1, <2>2, <2>3 DEF AcceptedRight
<1>7. ~Kill /\ ~ConfigurationFatal /\ ~ListenFatal
  BY <1>3, Zenon DEF Kill, ConfigurationFatal, ListenFatal, At
<1>8. CASE HandlerPanics
  <2>1. outcome' = "unrecovered" /\ events' = events /\ (signals = "raising" \/ Outsider # {})
    BY <1>8 DEF HandlerPanics, Dies
  <2> QED
    BY <1>2, <1>3, <2>1 DEF AcceptedRight
<1>9. ASSUME NEW q \in Request, RouteFatal(q) PROVE AcceptedRight(r)'
  <2>1. /\ outcome' = "misrouted" /\ events' = events /\ Dies("misrouted")
        /\ request[q].is = "served" /\ request[q].by = None
    BY <1>9 DEF RouteFatal, Dies
  <2>2. request'[q].is = "cut" /\ request'[q].by = None
    <3>1. request \in [Request -> Handling]
      BY DEF Typed
    <3>2. /\ request'[q].by = request[q].by
          /\ request[q].is = "served" => request'[q].is = "cut"
      BY <2>1, <3>1, DiesFacts
    <3> QED
      BY <2>1, <3>2
  <2> QED
    BY <1>2, <1>3, <2>1, <2>2 DEF AcceptedRight
<1> QED
  BY <1>4, <1>5, <1>6, <1>7, <1>8, <1>9 DEF Dying

(* While the process runs, what was right about a request stays so. *)
LEMMA AcceptedKept ==
  ASSUME Typed, HooksRight, NEW r \in Request, AcceptedRight(r),
         main # "gone", main' \in {"Serve", "NOT listening", "shutdown"},
         \/ UNCHANGED events
         \/ \E e \in Event : events' = Append(events, e),
         UNCHANGED ran, signals' # "default"
  PROVE  AcceptedRight(r)'
<1>1. Len(events') \geq 4 /\ events'[4] = "ENGINE_STARTED"
  BY LastEvents DEF AcceptedRight
<1>2. main' # "gone"
  OBVIOUS
<1> QED
  BY <1>1, <1>2 DEF AcceptedRight

(* A step before the server listens finds no request. *)
LEMMA RequestsBefore ==
  ASSUME RequestsRight, UNCHANGED request,
         main \notin {"Serve", "NOT listening", "shutdown", "gone"},
         main' \notin {"Start", "Serve", "NOT listening", "shutdown"} \/ signals' # "default"
  PROVE  RequestsRight'
<1>1. ASSUME NEW r \in Request PROVE request[r].is = "none" /\ request[r].path = None
  BY Zenon DEF RequestsRight, AcceptedRight
<1>2. \A r \in Request : request'[r].is = "none" /\ request'[r].path = None
  BY <1>1
<1> QED
  BY <1>2, Zenon DEF RequestsRight

(* A step of a server that listens, or is to end, keeps them. *)
LEMMA RequestsAfter ==
  ASSUME Typed, HooksRight, RequestsRight, UNCHANGED request,
         main # "gone", main' \in {"Serve", "NOT listening", "shutdown"},
         \/ UNCHANGED events
         \/ \E e \in Event : events' = Append(events, e),
         UNCHANGED <<ran, HttpMuxList>>, signals' # "default"
  PROVE  RequestsRight'
<1>1. ASSUME NEW r \in Request, request'[r].is # "none" PROVE AcceptedRight(r)'
  <2>1. AcceptedRight(r)
    BY <1>1 DEF RequestsRight
  <2> QED
    BY <2>1, AcceptedKept
<1>2. \A r \in Request : request'[r] = request[r]
  OBVIOUS
<1>3. ASSUME NEW r \in Request, request'[r].path # None
      PROVE  request'[r].by = Find(HttpMuxList', request'[r].path)
  BY <1>2, <1>3, Zenon DEF RequestsRight
<1>4. \A r \in Request : request'[r].is = "none" => request'[r].path = None
  BY <1>2, Zenon DEF RequestsRight
<1> QED
  BY <1>1, <1>3, <1>4, Zenon DEF RequestsRight

LEMMA RequestsStep ==
  ASSUME Typed, EventsRight, HooksRight, RequestsRight, [Next]_vars
  PROVE  RequestsRight'
<1>0. /\ request \in [Request -> Handling] /\ main \in Place
      /\ main \in {"Start", "Serve", "NOT listening", "shutdown"} => signals # "default"
  BY DEF Typed, RequestsRight
<1>1. CASE Dying
  <2>1. PICK how : Dies(how)
    BY <1>1 DEF Dying, ConfigurationFatal, ListenFatal, ServeTLSReturns, Exit, Panic, Kill,
                HandlerPanics, RouteFatal
  <2>2. main' = "gone" /\ HttpMuxList' = HttpMuxList
    BY <2>1 DEF Dies, mux
  <2>3. \A r \in Request : /\ request[r].is = "none" <=> request'[r].is = "none"
                          /\ request'[r].path = request[r].path
                          /\ request'[r].by = request[r].by
    BY <1>0, <2>1, DiesFacts
  <2>4. ASSUME NEW r \in Request, request'[r].is # "none" PROVE AcceptedRight(r)'
    BY <1>1, <2>3, <2>4, EndedRequests
  <2>5. ASSUME NEW r \in Request, request'[r].path # None
        PROVE  request'[r].by = Find(HttpMuxList', request'[r].path)
    BY <2>2, <2>3, <2>5, Zenon DEF RequestsRight
  <2>6. \A r \in Request : request'[r].is = "none" => request'[r].path = None
    BY <2>3, Zenon DEF RequestsRight
  <2>7. main' \notin {"Start", "Serve", "NOT listening", "shutdown"}
    BY <2>2
  <2> QED
    BY <2>4, <2>5, <2>6, <2>7, Zenon DEF RequestsRight
<1>2. CASE Configure \/ InitServerEngine \/ BeforeInitialized \/ InitServer
  <2>1. /\ request' = request
        /\ \/ main = "Init" /\ main' = "Run"
           \/ main = "Run" /\ main' = "InitServerEngine"
           \/ main = "InitServerEngine" /\ main' = "InitServer"
           \/ main = "InitServer" /\ main' = "startup"
    BY <1>2 DEF Configure, InitServerEngine, BeforeInitialized, InitServer, Goes, At, others
  <2> QED
    BY <2>1, RequestsBefore
<1>3. CASE Started
  <2>1. request' = request /\ main = "startup" /\ main' = "Start" /\ signals' = "notified"
    BY <1>3 DEF Started, Goes, At
  <2> QED
    BY <2>1, RequestsBefore
<1>4. CASE Listen
  <2>1. request' = request /\ main = "Start" /\ main' = "Serve" /\ signals' = signals
    BY <1>4 DEF Listen, Goes, At, others
  <2> QED
    BY <1>0, <2>1, RequestsBefore
<1>5. CASE ServeReturns
  <2>1. /\ UNCHANGED <<request, events, ran, HttpMuxList, signals>>
        /\ main = "Serve" /\ main' = "NOT listening"
    BY <1>5 DEF ServeReturns, Goes, At, others, hooks, mux
  <2> QED
    BY <1>0, <2>1, RequestsAfter
<1>6. CASE EngineShutdown
  <2>1. /\ UNCHANGED <<request, ran, HttpMuxList, signals>>
        /\ main = "NOT listening" /\ main' = "shutdown"
        /\ events' = Append(events, "ENGINE_SHUTDOWN")
    BY <1>6 DEF EngineShutdown, Goes, At, others, mux, Raised
  <2>2. "ENGINE_SHUTDOWN" \in Event
    BY DEF Event
  <2>3. main \in {"Start", "Serve", "NOT listening", "shutdown"} /\ main # "gone"
    BY <2>1, Zenon
  <2> QED
    BY <1>0, <2>1, <2>2, <2>3, RequestsAfter
<1>7. ASSUME UNCHANGED <<main, events, HttpMuxList, request>>,
             ran' = ran \/ main \in {"startup"}, stopped' = stopped \/ main = "shutdown",
             signals' = signals \/ (Running /\ signals' # "default"),
             main # "gone"
      PROVE  RequestsRight'
  <2>1. CASE main \in {"Start", "Serve", "NOT listening", "shutdown"}
    <3>1. signals' # "default" /\ ran' = ran
      BY <1>0, <1>7, <2>1
    <3>2. CASE main = "Start"
      BY <1>7, <3>1, <3>2, RequestsBefore
    <3>3. CASE main # "Start"
      BY <1>7, <2>1, <3>1, <3>3, RequestsAfter
    <3> QED
      BY <3>2, <3>3
  <2>2. CASE main \notin {"Start", "Serve", "NOT listening", "shutdown"}
    BY <1>7, <2>2, RequestsBefore
  <2> QED
    BY <2>1, <2>2
<1>g. Running => main # "gone"
  BY DEF Typed
<1>8. CASE RunHook
  BY <1>7, <1>8, <1>g DEF RunHook, mux, others
<1>9. ASSUME NEW p \in PathPrefixes, AddHTTPMux(p) PROVE RequestsRight'
  BY <1>7, <1>9, <1>g DEF AddHTTPMux, hooks, others
<1>10. CASE Wait \/ Signal \/ SignalRequest
  BY <1>7, <1>10, <1>g DEF Wait, Signal, SignalRequest, CallShutdown, hooks, mux
<1>11. ASSUME NEW c \in Caller, StopServer(c) \/ StopServerReturns(c) PROVE RequestsRight'
  BY <1>7, <1>11, <1>g DEF StopServer, StopServerReturns, Initialized, hooks, mux
<1>12. ASSUME NEW r \in Request, Accept(r) PROVE RequestsRight'
  <2>1. /\ main = "Serve" /\ UNCHANGED <<conf, main, outcome, events, ran, stopped, HttpMuxList, signals>>
    BY <1>12 DEF Accept, At, hooks, mux
  <2>2. \A o \in Request : /\ request'[o].path = request[o].path /\ request'[o].by = request[o].by
                           /\ request'[o].is = "none" => request[o].is = "none"
    BY <1>12, AcceptFacts
  <2>3. /\ Len(ran) = Len(StartHooks) /\ Len(events) = 4 /\ events[4] = "ENGINE_STARTED"
        /\ signals # "default"
    <3>1. Len(ran) = Len(StartHooks)
      BY <2>1 DEF HooksRight
    <3>2. Len(events) = 4
      BY <2>1 DEF EventsRight
    <3>3. outcome = "running"
      BY <2>1 DEF Typed, Running
    <3>4. events[4] = "ENGINE_STARTED"
      BY <3>2, <3>3 DEF EventsRight, Script
    <3> QED
      BY <1>0, <2>1, <3>1, <3>2, <3>4
  <2>4. \A o \in Request : AcceptedRight(o)'
    BY <2>1, <2>3 DEF AcceptedRight
  <2>5. ASSUME NEW o \in Request
        PROVE  /\ request'[o].path # None => request'[o].by = Find(HttpMuxList', request'[o].path)
               /\ request'[o].is = "none" => request'[o].path = None
    <3>1. /\ request[o].path # None => request[o].by = Find(HttpMuxList, request[o].path)
          /\ request[o].is = "none" => request[o].path = None
      BY Zenon DEF RequestsRight
    <3> QED
      BY <2>1, <2>2, <3>1
  <2>6. signals' # "default"
    BY <2>1, <2>3
  <2> QED
    BY <2>4, <2>5, <2>6, Zenon DEF RequestsRight
<1>15. ASSUME NEW r \in Request, NEW path \in Paths, Receive(r, path) PROVE RequestsRight'
  <2>1. /\ UNCHANGED <<conf, main, outcome, events, ran, stopped, HttpMuxList, signals>>
        /\ Running /\ request[r].is = "connected"
    BY <1>15 DEF Receive, hooks, mux
  <2>2. /\ request'[r] = [is |-> "served", path |-> path, by |-> Find(HttpMuxList, path)]
        /\ \A o \in Request \ {r} : request'[o] = request[o]
    BY <1>15, ReceiveFacts
  <2>3. AcceptedRight(r) /\ main # "gone"
    BY <2>1 DEF RequestsRight, Typed
  <2>4. ASSUME NEW o \in Request PROVE AcceptedRight(o)'
    BY <2>1, <2>3 DEF AcceptedRight
  <2>5. ASSUME NEW o \in Request
        PROVE  /\ request'[o].path # None => request'[o].by = Find(HttpMuxList', request'[o].path)
               /\ request'[o].is = "none" => request'[o].path = None
    <3>1. CASE o = r
      BY <2>1, <2>2, <3>1
    <3>2. CASE o # r
      <4>1. request'[o] = request[o]
        BY <2>2, <3>2
      <4> QED
        BY <2>1, <4>1, Zenon DEF RequestsRight
    <3> QED
      BY <3>1, <3>2
  <2> QED
    BY <1>0, <2>1, <2>4, <2>5, Zenon DEF RequestsRight
<1>13. ASSUME NEW r \in Request, Respond(r) PROVE RequestsRight'
  <2>1. UNCHANGED <<conf, main, outcome, events, ran, stopped, HttpMuxList, signals>>
    BY <1>13 DEF Respond, hooks, mux
  <2>2. ASSUME NEW o \in Request
        PROVE  /\ request'[o].path = request[o].path /\ request'[o].by = request[o].by
               /\ request'[o].is = "none" => request[o].is = "none"
    BY <1>13, RespondFacts
  <2>3. ASSUME NEW o \in Request, request'[o].is # "none" PROVE AcceptedRight(o)'
    <3>1. request[o].is # "none"
      BY <1>13, <2>3, RespondFacts
    <3>2. AcceptedRight(o)
      BY <3>1, Zenon DEF RequestsRight
    <3>3. main # "gone"
      BY <1>13 DEF Respond, Typed
    <3> QED
      BY <2>1, <3>2, <3>3 DEF AcceptedRight
  <2>4. ASSUME NEW o \in Request
        PROVE  /\ request'[o].path # None => request'[o].by = Find(HttpMuxList', request'[o].path)
               /\ request'[o].is = "none" => request'[o].path = None
    <3>1. /\ request[o].path # None => request[o].by = Find(HttpMuxList, request[o].path)
          /\ request[o].is = "none" => request[o].path = None
      BY Zenon DEF RequestsRight
    <3>2. /\ request'[o].path = request[o].path /\ request'[o].by = request[o].by
          /\ request'[o].is = "none" => request[o].is = "none"
      BY <2>2
    <3>3. HttpMuxList' = HttpMuxList
      BY <2>1
    <3> QED
      BY <3>1, <3>2, <3>3
  <2> QED
    BY <1>0, <2>1, <2>3, <2>4, Zenon DEF RequestsRight
<1>14. CASE UNCHANGED vars
  BY <1>14 DEF vars, hooks, mux, RequestsRight, AcceptedRight
<1> QED
  BY Steps, <1>1, <1>2, <1>3, <1>4, <1>5, <1>6, <1>8, <1>9, <1>10, <1>11, <1>12, <1>13, <1>14,
     <1>15 DEF Dying

-----------------------------------------------------------------------------
(* The inductive invariant, and the theorems. *)

LEMMA Initially == Init => IInv
<1> SUFFICES ASSUME Init PROVE IInv
  OBVIOUS
<1>1. Typed
  BY TypedInit
<1>2. EventsRight
  BY DEF Init, EventsRight
<1>3. HooksRight
  BY DEF Init, HooksRight, Sorted, IsInjective
<1>4. MuxRight
  BY DEF Init, MuxRight, ToSet
<1>5. RequestsRight
  BY DEF Init, RequestsRight
<1> QED
  BY <1>1, <1>2, <1>3, <1>4, <1>5 DEF IInv

LEMMA Invariance == Spec => []IInv
<1>1. IInv /\ [Next]_vars => IInv'
  BY TypedStep, EventsStep, HooksStep, MuxStep, RequestsStep, Zenon DEF IInv
<1> QED
  BY Initially, <1>1, PTL DEF Spec

(* Each event is raised at most once, each hook run at most once, the engine  *)
(* knows only prefixes it was given (RaiseEvent, RevelHooks.Run).             *)
THEOREM TypeCorrect == Spec => []TypeOK
<1>1. IInv => TypeOK
  <2> SUFFICES ASSUME IInv PROVE TypeOK
    OBVIOUS
  <2>1. Typed /\ EventsRight /\ HooksRight /\ MuxRight
    BY Zenon DEF IInv
  <2>2. IsInjective(ran) /\ IsInjective(stopped) /\ IsInjective(queue)
    BY <2>1, SortedIsInjective DEF Typed, HooksRight
  <2>3. IsInjective(events)
    <3>1. DOMAIN events = 1..Len(events) /\ Len(events) \in Nat
      BY <2>1 DEF Typed
    <3>2. ASSUME NEW i \in 1..Len(events), NEW j \in 1..Len(events), events[i] = events[j]
          PROVE  i = j
      <4>1. \A k \in 1..Len(events) : \/ (k \in 1..5 /\ events[k] = Script[k])
                                     \/ (k = Len(events) /\ events[k] = "REVEL_FAILURE")
        BY <2>1, Zenon DEF EventsRight
      <4>2. \A k, l \in 1..5 : Script[k] = Script[l] => k = l
        BY DEF Script
      <4>3. \A k \in 1..5 : Script[k] # "REVEL_FAILURE"
        BY DEF Script
      <4> QED
        BY <3>2, <4>1, <4>2, <4>3
    <3> QED
      BY <3>1, <3>2 DEF IsInjective
  <2>4. ToSet(muxes) \subseteq PathPrefixes
    <3>1. muxes \in Seq(PathPrefixes)
      BY <2>1 DEF Typed
    <3> QED
      BY <3>1 DEF ToSet
  <2> QED
    BY <2>1, <2>2, <2>3, <2>4 DEF TypeOK, Typed, MuxRight
<1> QED
  BY Invariance, <1>1, PTL

(* No connection is accepted, and no request served, before every startup     *)
(* hook has run, in the order of their orders, and ENGINE_STARTED has been    *)
(* raised; the shutdown hooks run in their order too (OnAppStart, OnAppStop,  *)
(* Run).                                                                      *)
THEOREM HooksThenRequests == Spec => []ServedOnceStarted
<1>1. IInv => ServedOnceStarted
  <2> SUFFICES ASSUME IInv PROVE ServedOnceStarted
    OBVIOUS
  <2>1. Typed /\ HooksRight /\ RequestsRight
    BY Zenon DEF IInv
  <2>2. InOrder(ran, StartHooks) /\ InOrder(stopped, StopHooks)
    BY <2>1, Zenon DEF HooksRight, Sorted, InOrder
  <2>3. ASSUME NEW r \in Request, request[r].is # "none"
        PROVE  Len(ran) = Len(StartHooks) /\ Contains(events, "ENGINE_STARTED")
    <3>1. Len(ran) = Len(StartHooks) /\ Len(events) \geq 4 /\ events[4] = "ENGINE_STARTED"
      BY <2>1, <2>3, Zenon DEF RequestsRight, AcceptedRight
    <3>2. Len(events) \in Nat
      BY <2>1 DEF Typed
    <3> QED
      BY <3>1, <3>2 DEF Contains
  <2> QED
    BY <2>2, <2>3 DEF ServedOnceStarted
<1> QED
  BY Invariance, <1>1, PTL

(* A process that has accepted a connection has run every shutdown hook when  *)
(* it is gone, unless a panic was reported by REVEL_FAILURE, it served SSL, a *)
(* handler panicked on a goroutine outside Run, or Route ended the process    *)
(* (Run, RaiseEvent, Route).                                                  *)
THEOREM ProcessEndsThroughHooks == Spec => []EndsThroughHooks
<1>1. IInv => EndsThroughHooks
  <2> SUFFICES ASSUME IInv, ~Running, NEW r \in Request, request[r].is # "none"
               PROVE  \/ outcome = "normal" /\ Contains(events, "ENGINE_SHUTDOWN")
                         /\ Len(stopped) = Len(StopHooks)
                      \/ outcome = "panicked" /\ Last(events) = "REVEL_FAILURE"
                      \/ outcome = "fatal" /\ conf.ssl
                      \/ outcome = "unrecovered" /\ (signals = "raising" \/ Outsider # {})
                      \/ outcome = "misrouted"
                         /\ \E q \in Request : request[q].is = "cut" /\ request[q].by = None
    BY DEF EndsThroughHooks
  <2>1. Typed /\ EventsRight /\ RequestsRight
    BY Zenon DEF IInv
  <2>2. main = "gone"
    BY <2>1 DEF Typed
  <2>3. \/ outcome = "normal" /\ Len(events) = 5 /\ Len(stopped) = Len(StopHooks)
        \/ outcome = "panicked" /\ Last(events) = "REVEL_FAILURE"
        \/ outcome = "fatal" /\ conf.ssl
        \/ outcome = "unrecovered" /\ (signals = "raising" \/ Outsider # {})
        \/ outcome = "misrouted" /\ \E q \in Request : request[q].is = "cut" /\ request[q].by = None
    BY <2>1, <2>2, Zenon DEF RequestsRight, AcceptedRight
  <2>4. ASSUME outcome = "normal", Len(events) = 5 PROVE Contains(events, "ENGINE_SHUTDOWN")
    <3>1. events[5] = Script[5] \/ outcome = "panicked"
      <4>1. 5 \in 1..Len(events)
        BY <2>4
      <4> QED
        BY <2>1, <4>1, Zenon DEF EventsRight
    <3>2. events[5] = "ENGINE_SHUTDOWN"
      BY <2>4, <3>1 DEF Script
    <3> QED
      BY <2>4, <3>2 DEF Contains
  <2> QED
    BY <2>3, <2>4, Zenon
<1> QED
  BY Invariance, <1>1, PTL

(* The handler of a request is the one of the longest of the prefixes known   *)
(* to the engine that its path begins with, or Revel's (ServerMuxList.Find).  *)
THEOREM LongestPrefix == Spec => []LongestPrefixServes
<1>1. IInv => LongestPrefixServes
  <2> SUFFICES ASSUME IInv, NEW r \in Request, request[r].path # None,
                      NEW known, known = {p \in ToSet(HttpMuxList) : IsPrefix(p, request[r].path)}
               PROVE  IF known = {} THEN request[r].by = None
                      ELSE request[r].by \in known /\ \A p \in known : Len(p) <= Len(request[r].by)
    BY DEF LongestPrefixServes
  <2>1. Typed /\ MuxRight /\ RequestsRight
    BY Zenon DEF IInv
  <2> DEFINE list == HttpMuxList
             path == request[r].path
  <2>2. /\ list \in Seq(PathPrefixes) /\ Len(list) \in Nat
        /\ \A i, j \in 1..Len(list) : i < j => Len(list[j]) <= Len(list[i])
    BY <2>1 DEF Typed, MuxRight
  <2>3. request[r].by = Find(list, path)
    BY <2>1, Zenon DEF RequestsRight
  <2>4. \A p : p \in known <=> IsPrefix(p, path) /\ \E i \in 1..Len(list) : p = list[i]
    BY <2>2 DEF ToSet
  <2> HIDE DEF list, path
  <2>5. CASE Find(list, path) = None /\ \A i \in 1..Len(list) : ~IsPrefix(list[i], path)
    BY <2>3, <2>4, <2>5, Zenon
  <2>6. ASSUME NEW k \in 1..Len(list), Find(list, path) = list[k], IsPrefix(list[k], path),
               \A i \in 1..Len(list) : IsPrefix(list[i], path) => k <= i
        PROVE  request[r].by \in known /\ \A p \in known : Len(p) <= Len(request[r].by)
    <3>1. request[r].by \in known
      BY <2>3, <2>4, <2>6, Zenon
    <3>2. ASSUME NEW p \in known PROVE Len(p) <= Len(list[k])
      <4>1. PICK i \in 1..Len(list) : p = list[i] /\ IsPrefix(list[i], path)
        BY <2>4, Zenon
      <4>2. k <= i
        BY <2>6, <4>1
      <4>3. CASE k < i
        BY <2>2, <4>1, <4>3
      <4>4. CASE k = i
        <5>1. list[i] \in Seq(ToSet(list[i]))
          BY <2>2, PathAssumption
        <5>2. Len(list[i]) \in Nat
          BY <5>1
        <5> QED
          BY <4>1, <4>4, <5>2
      <4> QED
        BY <4>2, <4>3, <4>4
    <3> QED
      BY <2>3, <2>6, <3>1, <3>2
  <2> QED
    BY <2>2, <2>5, <2>6, FindFacts, Zenon
<1> QED
  BY Invariance, <1>1, PTL
=============================================================================
