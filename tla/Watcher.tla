------------------------------ MODULE Watcher ------------------------------
(* The watcher of development mode.  A request calls Notify, which pulls the  *)
(* file events of each listener and refreshes the listeners that need it; in  *)
(* eager mode a goroutine per listener pulls the same events and starts a     *)
(* refresh for each.  notifyInProcess runs one refresh at a time behind a     *)
(* timer; whoever comes while the timer is set waits for its result on        *)
(* refreshChannel.                                                            *)
(*                                                                           *)
(* serial is never set and is left out.  An event that rebuildRequired        *)
(* ignores changes nothing and is left out too.                               *)
EXTENDS Naturals, Sequences, FiniteSets

CONSTANTS Request,    \* goroutines serving requests
          Workers, Edits,  \* bounds on the goroutines of eager mode and on edits
          None,
          Setups,     \* setups to consider: the number of listeners, and in each setup
                      \* how many goroutines eager mode may have started at a time (0:
                      \* normal mode) and how often the files of a listener are edited
          Buffer      \* capacity of refreshChannel, 10 in the code

ASSUME BoundAssumption == Buffer \in Nat \ {0} /\ {Workers, Edits} \subseteq Nat
ASSUME SetupAssumption ==
  Setups \subseteq [listeners : Nat \ {0}, goroutines : 0..Workers, edits : 1..Edits]

Worker == 1..Workers
Proc   == Request \cup Worker

ASSUME ProcAssumption == Request \cap Worker = {} /\ None \notin Proc

VARIABLES
  setup,
  pc, turn,        \* where a goroutine is, and the listener it is at
  err,             \* the result a call of notifyInProcess returns
  forceRefresh,
  lastError,       \* the listener in error, 0 for -1
  refreshTimer,    \* None for nil, or the goroutine waiting for the timer
  refreshChannelCount,
  refreshChannel,
  left,            \* results still to send to refreshChannel
  reading,         \* what the running Refresh reads
  disk,            \* disk[l]: what listener l watches, as of the last event
  events,          \* events[l]: events waiting in watchers[l].Events
  loaded,          \* loaded[l]: what the last Refresh of l to end has read
  asked            \* asked[r]: the last edit for listener 1 when r called Notify

vars == <<setup, pc, turn, err, forceRefresh, lastError, refreshTimer, refreshChannelCount,
          refreshChannel, left, reading, disk, events, loaded, asked>>

timing == <<refreshTimer, refreshChannelCount, refreshChannel, left, reading>>
flags  == <<forceRefresh, lastError>>
files  == <<disk, events>>

listeners == 1..setup.listeners
eager     == setup.goroutines > 0
Content   == [edit : 0..Edits, broken : BOOLEAN]
Outcome   == {"nil", "error"}                 \* of a Refresh
Nothing   == [edit |-> 0, broken |-> FALSE]   \* of no interest any longer

(* InitServer refreshed the listeners before it watched their files: an edit  *)
(* in between gives no event.                                                 *)
Init ==
  /\ setup \in Setups
  /\ \/ disk \in [listeners -> [edit : {0}, broken : BOOLEAN]] /\ loaded = disk
     \/ disk \in [listeners -> [edit : {1}, broken : BOOLEAN]]
        /\ loaded = [l \in listeners |-> Nothing]
  /\ events = [l \in listeners |-> 0]
  /\ pc = [p \in Proc |-> "idle"] /\ turn = [p \in Proc |-> 1]
  /\ err = [p \in Proc |-> "nil"]
  /\ forceRefresh = TRUE /\ lastError = 0
  /\ refreshTimer = None /\ refreshChannelCount = 0 /\ refreshChannel = << >>
  /\ left = 0 /\ reading = Nothing
  /\ asked = [r \in Request |-> 0]

Point == {"idle", "wait", "scan", "check", "enter", "join", "timer", "refresh", "send", "panic",
          "back", "end"}
Goes(p, from, to) == pc[p] = from /\ pc' = [pc EXCEPT ![p] = to]

(* notifyMutex and timerMutex are held from one point of the code to another. *)
InNotify(p)   == p \in Request /\ pc[p] \in {"scan", "check", "enter", "join", "timer",
                                             "refresh", "send", "panic", "back", "end"}
NotifyLocked  == \E p \in Request : InNotify(p)
TimerLocked   == \E p \in Proc : pc[p] \in {"refresh", "send", "panic"}

-----------------------------------------------------------------------------
(* A file is edited and its event arrives.  A refresh that reads the file     *)
(* before the event has arrived reads it once more later.                     *)

Edit(l) ==
  /\ disk[l].edit < setup.edits
  /\ \E b \in BOOLEAN : disk' = [disk EXCEPT ![l] = [edit |-> disk[l].edit + 1, broken |-> b]]
  /\ events' = [events EXCEPT ![l] = @ + 1]
  /\ UNCHANGED <<setup, pc, turn, err, flags, timing, loaded, asked>>

(* NotifyWhenUpdated. *)
Spawn(l, w) ==
  /\ w <= setup.goroutines /\ events[l] > 0
  /\ events' = [events EXCEPT ![l] = @ - 1]
  /\ Goes(w, "idle", "enter")
  /\ turn' = [turn EXCEPT ![w] = l]
  /\ UNCHANGED <<setup, err, flags, timing, disk, loaded, asked>>

-----------------------------------------------------------------------------
(* WatchFilter and Notify. *)

Ask(r) ==
  /\ Goes(r, "idle", "wait")
  /\ asked' = [asked EXCEPT ![r] = disk[1].edit]
  /\ UNCHANGED <<setup, turn, err, flags, timing, files, loaded>>

LockNotify(r) ==
  /\ ~NotifyLocked
  /\ Goes(r, "wait", "scan")
  /\ UNCHANGED <<setup, turn, err, flags, timing, files, loaded, asked>>

Drain(r) ==
  /\ Goes(r, "scan", IF events[turn[r]] > 0 THEN "enter" ELSE "check")
  /\ events' = [events EXCEPT ![turn[r]] = 0]
  /\ UNCHANGED <<setup, turn, err, flags, timing, disk, loaded, asked>>

AfterTurn(r) == IF turn[r] = setup.listeners THEN pc' = [pc EXCEPT ![r] = "end"] /\ UNCHANGED turn
                ELSE pc' = [pc EXCEPT ![r] = "scan"] /\ turn' = [turn EXCEPT ![r] = @ + 1]

(* Slip: the forced refresh is forgotten. *)
NeededAfterError(l) == lastError = l
Needed(l) == forceRefresh \/ lastError = l

Check(r) ==
  /\ pc[r] = "check"
  /\ IF Needed(turn[r]) THEN pc' = [pc EXCEPT ![r] = "enter"] /\ UNCHANGED turn
                        ELSE AfterTurn(r)
  /\ UNCHANGED <<setup, err, flags, timing, files, loaded, asked>>

Leaves(p) == /\ pc' = [pc EXCEPT ![p] = "idle"]
             /\ turn' = [turn EXCEPT ![p] = 1]
             /\ asked' = IF p \in Request THEN [asked EXCEPT ![p] = 0] ELSE asked

Back(r) ==
  /\ r \in Request /\ pc[r] = "back"
  /\ IF err[r] = "nil" THEN AfterTurn(r) /\ UNCHANGED <<lastError, asked>>
     ELSE Leaves(r) /\ lastError' = turn[r]
  /\ err' = [err EXCEPT ![r] = "nil"]
  /\ UNCHANGED <<setup, forceRefresh, timing, files, loaded>>

End(r) ==
  /\ pc[r] = "end" /\ Leaves(r)
  /\ forceRefresh' = FALSE /\ lastError' = 0
  /\ UNCHANGED <<setup, err, timing, files, loaded>>

-----------------------------------------------------------------------------
(* notifyInProcess. *)

(* Slip: a waiter is not counted. *)
CountKept   == refreshChannelCount
CountWaiter == refreshChannelCount + 1

(* Slip: a refresh that has begun is not remembered until it has ended. *)
ForceKept  == forceRefresh
ForceUntilDone == TRUE

Enter(p) ==
  /\ ~TimerLocked
  /\ forceRefresh' = ForceUntilDone
  /\ IF refreshTimer = None
       THEN Goes(p, "enter", "timer") /\ refreshTimer' = p /\ UNCHANGED refreshChannelCount
       ELSE Goes(p, "enter", "join") /\ refreshChannelCount' = CountWaiter
            /\ UNCHANGED refreshTimer
  /\ UNCHANGED <<setup, turn, err, lastError, refreshChannel, left, reading, files, loaded, asked>>

(* A worker drops the result. *)
Returns(p, e) ==
  IF p \in Request
    THEN pc' = [pc EXCEPT ![p] = "back"] /\ err' = [err EXCEPT ![p] = e] /\ UNCHANGED <<turn, asked>>
    ELSE Leaves(p) /\ err' = [err EXCEPT ![p] = "nil"]

Receive(p) ==
  /\ pc[p] = "join" /\ refreshChannel # << >>
  /\ Returns(p, Head(refreshChannel))
  /\ refreshChannel' = Tail(refreshChannel)
  /\ UNCHANGED <<setup, flags, refreshTimer, refreshChannelCount, left, reading, files,
                 loaded>>

(* The timer has expired and timerMutex is taken: Refresh reads the files.    *)
StartRefresh(p) ==
  /\ ~TimerLocked
  /\ Goes(p, "timer", "refresh")
  /\ reading' = disk[turn[p]]
  /\ UNCHANGED <<setup, turn, err, flags, refreshTimer, refreshChannelCount, refreshChannel,
                 left, files, loaded, asked>>

EndRefresh(p) ==
  /\ Goes(p, "refresh", "send")
  /\ loaded' = [loaded EXCEPT ![turn[p]] = reading]
  /\ err' = [err EXCEPT ![p] = IF reading.broken THEN "error" ELSE "nil"]
  /\ IF reading.broken THEN UNCHANGED flags ELSE forceRefresh' = FALSE /\ lastError' = 0
  /\ left' = refreshChannelCount
  /\ UNCHANGED <<setup, turn, refreshTimer, refreshChannelCount, refreshChannel, reading, files,
                 asked>>

(* In a worker a panic ends the process, in a request only the request.       *)
PanicInRefresh(r) ==
  /\ r \in Request /\ Goes(r, "refresh", "panic")
  /\ err' = [err EXCEPT ![r] = "nil"]
  /\ left' = refreshChannelCount
  /\ UNCHANGED <<setup, turn, flags, refreshTimer, refreshChannelCount, refreshChannel, reading,
                 files, loaded, asked>>

Send(p) ==
  /\ pc[p] \in {"send", "panic"}
  /\ left > 0 /\ Len(refreshChannel) < Buffer
  /\ refreshChannel' = Append(refreshChannel, err[p])
  /\ left' = left - 1
  /\ UNCHANGED <<setup, pc, turn, err, flags, refreshTimer, refreshChannelCount, reading, files,
                 loaded, asked>>

(* Slip: refreshTimer is not reset. *)
ReleaseKeepingTimer(p) ==
  /\ left = 0
  /\ \/ pc[p] = "send" /\ Returns(p, err[p])
     \/ pc[p] = "panic" /\ Leaves(p) /\ UNCHANGED err
  /\ refreshChannelCount' = 0
  /\ reading' = Nothing
  /\ UNCHANGED <<setup, flags, refreshTimer, refreshChannel, left, files, loaded>>

Release(p) ==
  /\ left = 0
  /\ \/ pc[p] = "send" /\ Returns(p, err[p])
     \/ pc[p] = "panic" /\ Leaves(p) /\ UNCHANGED err
  /\ refreshChannelCount' = 0
  /\ refreshTimer' = None
  /\ reading' = Nothing
  /\ UNCHANGED <<setup, flags, refreshChannel, left, files, loaded>>

Refreshing(p) == \/ Enter(p) \/ Receive(p) \/ StartRefresh(p) \/ EndRefresh(p)
                 \/ PanicInRefresh(p) \/ Send(p) \/ Release(p)
Notify(r)     == LockNotify(r) \/ Drain(r) \/ Check(r) \/ Back(r) \/ End(r)

Next == \/ \E l \in listeners : Edit(l) \/ (\E w \in Worker : Spawn(l, w))
        \/ \E r \in Request : Ask(r) \/ Notify(r)
        \/ \E p \in Proc : Refreshing(p)

Spec == Init /\ [][Next]_vars

(* Goroutines run on and timers expire: as long as one of them can go on one  *)
(* does.  A waiter of a sync.Mutex gets it in the end (the lock is handed     *)
(* over to a starved waiter), which matters for notifyMutex only.  Nobody has *)
(* to edit a file or send a request.                                          *)
Runs == \/ \E p \in Proc : Refreshing(p)
        \/ \E r \in Request : Drain(r) \/ Check(r) \/ Back(r) \/ End(r)

Fairness == WF_vars(Runs) /\ \A r \in Request : SF_vars(LockNotify(r))
FairSpec == Spec /\ Fairness

-----------------------------------------------------------------------------
TypeOK ==
  /\ setup \in Setups
  /\ pc \in [Proc -> Point]
  /\ turn \in [Proc -> listeners]
  /\ err \in [Proc -> Outcome]
  /\ forceRefresh \in BOOLEAN /\ lastError \in 0..setup.listeners
  /\ refreshTimer \in Proc \cup {None}
  /\ refreshChannelCount \in Nat /\ left \in Nat
  /\ refreshChannel \in Seq(Outcome) /\ Len(refreshChannel) <= Buffer
  /\ reading \in Content
  /\ disk \in [listeners -> Content] /\ loaded \in [listeners -> Content]
  /\ events \in [listeners -> 0..Edits]
  /\ asked \in [Request -> 0..Edits]

Waiting == {p \in Proc : pc[p] = "join"}
Owed    == IF TimerLocked /\ (\E p \in Proc : pc[p] \in {"send", "panic"})
             THEN left ELSE refreshChannelCount

(* There is a result for everyone waiting on refreshChannel, in it or still   *)
(* to be sent, and no result for nobody, even when a waiter of the next       *)
(* refresh takes the result of this one; and as long as results are owed      *)
(* someone is on the way to send them.                                        *)
WaitersCounted ==
  /\ Cardinality(Waiting) = Len(refreshChannel) + Owed
  /\ Owed > 0 => /\ refreshTimer # None
                 /\ pc[refreshTimer] \in {"timer", "refresh", "send", "panic"}

(* With one listener and without eager mode, a request that is let through    *)
(* by the watcher is served from files at least as new as the last one an     *)
(* event had arrived for when it called Notify, whoever pulled that event,    *)
(* and never from files that failed to load.                                  *)
ServedFresh ==
  [][\A r \in Request : ~eager /\ setup.listeners = 1 /\ End(r) =>
       loaded[1].edit >= asked[r] /\ ~loaded[1].broken]_vars

(* With one listener, when the watcher is at rest every edit it was told of   *)
(* is loaded, or the next request will force a refresh: no event gets lost    *)
(* between the goroutines that pull events and those that refresh.            *)
NoEditLost ==
  setup.listeners = 1 /\ events[1] = 0 /\ (\A p \in Proc : pc[p] \in {"idle", "wait"})
    => loaded[1].edit = disk[1].edit \/ forceRefresh

(* Every call of Notify returns, whatever else is refreshing. *)
NotifyReturns ==
  \A r \in Request : pc[r] = "wait" ~> pc[r] = "idle"
=============================================================================
