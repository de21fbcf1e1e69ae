----------------------------- MODULE WatcherProofs -----------------------------
(* Theorems about the watcher, for every number of requests, goroutines,      *)
(* listeners and edits and every capacity of refreshChannel.                  *)
EXTENDS Watcher, FiniteSetTheorems, TLAPS

Timed == {"timer", "refresh", "send", "panic"}   \* where refreshTimer is p's own

(* One request is in Notify, one goroutine has the timer; in normal mode no   *)
(* goroutine but those of requests is there.                                  *)
LocksRight ==
  /\ \A q, r \in Request : InNotify(q) /\ InNotify(r) => q = r
  /\ \A p \in Proc : pc[p] \in Timed <=> refreshTimer = p
  /\ \A w \in Worker : pc[w] \notin {"wait", "scan", "check", "back", "end"}
  /\ ~eager => \A w \in Worker : pc[w] = "idle"

(* Every result in refreshChannel or still to be sent has its waiter. *)
WaitersRight == IsFiniteSet(Waiting) /\ WaitersCounted

(* An edit of the one listener is loaded, or still about to be. *)
UnderWay == \/ loaded[1].edit = disk[1].edit
            \/ events[1] > 0
            \/ \E p \in Proc : pc[p] \in {"enter", "timer", "refresh"}

(* What is not under way is forced; a refresh that reads old files is         *)
(* followed by another; a request that clears the force has seen to its edit. *)
EditsRight ==
  setup.listeners = 1 =>
    /\ UnderWay \/ forceRefresh
    /\ \A p \in Proc : pc[p] = "refresh" =>
         \/ reading.edit = disk[1].edit
         \/ events[1] > 0
         \/ \E q \in Proc : pc[q] = "enter"
    /\ \A r \in Request : pc[r] \in {"join", "send", "back", "end"} => UnderWay
    /\ \A r \in Request : pc[r] \in {"timer", "refresh", "panic"} => forceRefresh

(* In normal mode the request in Notify refreshes what it asked about, and    *)
(* what failed to load is loaded again.                                       *)
ServedRightTo(r) ==
  /\ pc[r] # "join"
  /\ asked[r] <= disk[1].edit
  /\ pc[r] = "check" => forceRefresh \/ asked[r] <= loaded[1].edit
  /\ pc[r] = "refresh" => asked[r] <= reading.edit
  /\ pc[r] \in {"send", "back"} /\ err[r] = "nil" => asked[r] <= loaded[1].edit /\ ~loaded[1].broken
  /\ pc[r] = "end" => asked[r] <= loaded[1].edit /\ ~loaded[1].broken

ServedRight ==
  setup.listeners = 1 /\ ~eager =>
    /\ loaded[1].broken => forceRefresh
    /\ \A r \in Request : ServedRightTo(r)

EventsRight == \A l \in listeners : disk[l].edit <= setup.edits /\ events[l] <= disk[l].edit

IInv == TypeOK /\ EventsRight /\ LocksRight /\ WaitersRight /\ EditsRight /\ ServedRight

-----------------------------------------------------------------------------
(* Types. *)

LEMMA SetupFacts ==
  ASSUME setup \in Setups
  PROVE  /\ setup.listeners \in Nat \ {0} /\ setup.goroutines \in 0..Workers
         /\ setup.edits \in 1..Edits /\ Edits \in Nat /\ Workers \in Nat
         /\ listeners = 1..setup.listeners /\ 1 \in listeners
<1>1. setup \in [listeners : Nat \ {0}, goroutines : 0..Workers, edits : 1..Edits]
  BY SetupAssumption
<1>2. Edits \in Nat /\ Workers \in Nat
  BY BoundAssumption
<1> QED
  BY <1>1, <1>2 DEF listeners

LEMMA TypeInit == Init => TypeOK /\ EventsRight
<1> SUFFICES ASSUME Init PROVE TypeOK /\ EventsRight
  OBVIOUS
<1>1. setup \in Setups
  BY DEF Init
<1> USE <1>1, SetupFacts
<1>2. disk \in [listeners -> Content] /\ loaded \in [listeners -> Content]
      /\ \A l \in listeners : disk[l].edit \in {0, 1}
  <2>1. Nothing \in Content /\ 0 \in 0..Edits /\ 1 \in 0..Edits
    BY DEF Nothing, Content
  <2>2. ASSUME NEW i \in {0, 1}, disk \in [listeners -> [edit : {i}, broken : BOOLEAN]]
        PROVE  disk \in [listeners -> Content] /\ \A l \in listeners : disk[l].edit = i
    BY <2>1, <2>2 DEF Content
  <2> QED
    BY <2>1, <2>2 DEF Init
<1>3. events \in [listeners -> 0..Edits] /\ \A l \in listeners : events[l] = 0
  BY DEF Init
<1>4. reading \in Content
  BY DEF Init, Content, Nothing
<1>5. /\ pc \in [Proc -> Point] /\ turn \in [Proc -> listeners] /\ err \in [Proc -> Outcome]
      /\ asked \in [Request -> 0..Edits]
  BY DEF Init, Point, Outcome
<1>6. /\ forceRefresh \in BOOLEAN /\ lastError \in 0..setup.listeners
      /\ refreshTimer \in Proc \cup {None} /\ refreshChannelCount \in Nat /\ left \in Nat
  BY DEF Init
<1>7. refreshChannel \in Seq(Outcome) /\ Len(refreshChannel) <= Buffer
  BY BoundAssumption DEF Init
<1>8. EventsRight
  BY <1>2, <1>3 DEF EventsRight
<1> QED
  BY <1>2, <1>3, <1>4, <1>5, <1>6, <1>7, <1>8 DEF TypeOK

LEMMA TypeKept ==
  ASSUME TypeOK, UNCHANGED setup,
         pc' \in [Proc -> Point], turn' \in [Proc -> listeners], err' \in [Proc -> Outcome],
         asked' \in [Request -> 0..Edits],
         UNCHANGED forceRefresh \/ forceRefresh' = TRUE \/ forceRefresh' = FALSE,
         lastError' \in listeners \cup {0, lastError},
         refreshTimer' \in Proc \cup {None}, refreshChannelCount' \in Nat, left' \in Nat,
         refreshChannel' \in Seq(Outcome), Len(refreshChannel') <= Buffer,
         reading' \in Content,
         disk' \in [listeners -> Content], loaded' \in [listeners -> Content],
         events' \in [listeners -> 0..Edits]
  PROVE  TypeOK'
<1>1. /\ listeners' = listeners /\ listeners \subseteq 0..setup.listeners
      /\ 0 \in 0..setup.listeners /\ setup' = setup
  BY SetupFacts DEF listeners, TypeOK
<1>2. forceRefresh' \in BOOLEAN
  BY Zenon DEF TypeOK
<1>3. lastError' \in 0..setup.listeners
  BY <1>1 DEF TypeOK
<1> QED
  BY <1>1, <1>2, <1>3 DEF TypeOK

LEMMA TypeStep == ASSUME TypeOK, EventsRight, Next PROVE TypeOK' /\ EventsRight'
<1> USE DEF flags, timing, files
<1>0. /\ setup \in Setups /\ reading \in Content /\ disk \in [listeners -> Content]
      /\ loaded \in [listeners -> Content] /\ events \in [listeners -> 0..Edits]
      /\ refreshTimer \in Proc \cup {None} /\ refreshChannelCount \in Nat /\ left \in Nat
      /\ refreshChannel \in Seq(Outcome) /\ Len(refreshChannel) <= Buffer
      /\ pc \in [Proc -> Point] /\ turn \in [Proc -> listeners] /\ err \in [Proc -> Outcome]
      /\ asked \in [Request -> 0..Edits]
      /\ Request \subseteq Proc /\ Worker \subseteq Proc
      /\ \A l \in listeners : disk[l].edit \in Nat /\ events[l] \in Nat
      /\ \A p \in Proc : turn[p] \in 1..setup.listeners
  <2>1. \A c \in Content : c.edit \in Nat
    BY DEF Content
  <2> QED
    BY <2>1, SetupFacts DEF TypeOK, Proc
<1>a. \A x \in {"idle", "wait", "scan", "check", "enter", "join", "timer", "refresh",
               "send", "panic", "back", "end"} : x \in Point
  BY DEF Point
<1>b. "nil" \in Outcome /\ "error" \in Outcome
  BY DEF Outcome
<1>c. 0 \in 0..Edits /\ 1 \in listeners /\ Nothing \in Content /\ Edits \in Nat
      /\ setup.listeners \in Nat /\ listeners = 1..setup.listeners /\ setup.edits \in 1..Edits
  BY <1>0, SetupFacts DEF Nothing, Content
<1> USE <1>0, <1>a, <1>b, <1>c
<1>1. ASSUME NEW l \in listeners, Edit(l) PROVE TypeOK' /\ EventsRight'
  <2>1. PICK b \in BOOLEAN : disk' = [disk EXCEPT ![l] = [edit |-> disk[l].edit + 1, broken |-> b]]
    BY <1>1 DEF Edit
  <2>2. /\ events' = [events EXCEPT ![l] = events[l] + 1] /\ disk[l].edit < setup.edits
        /\ UNCHANGED <<setup, pc, turn, err, flags, timing, loaded, asked>>
    BY <1>1 DEF Edit
  <2> DEFINE new == [edit |-> disk[l].edit + 1, broken |-> b]
  <2>3. new \in Content /\ new.edit = disk[l].edit + 1 /\ new.edit <= setup.edits
    <3>1. disk[l].edit \in Nat /\ setup.edits \in Nat /\ setup.edits <= Edits
      OBVIOUS
    <3>2. disk[l].edit + 1 \in 0..Edits /\ disk[l].edit + 1 <= setup.edits
      <4>1. disk[l].edit < setup.edits
        BY <2>2
      <4> HIDE <1>0, <1>a, <1>b, <2>2
      <4> QED
        BY <3>1, <4>1
    <3> QED
      BY <3>2, Zenon DEF Content
  <2>4. events[l] <= disk[l].edit
    BY DEF EventsRight
  <2> HIDE DEF new
  <2>5. disk' = [disk EXCEPT ![l] = new]
    BY <2>1 DEF new
  <2>6. disk' \in [listeners -> Content] /\ events' \in [listeners -> 0..Edits]
    <3>1. disk' \in [listeners -> Content]
      BY <2>3, <2>5
    <3>2. events[l] \in Nat /\ setup.edits \in Nat /\ setup.edits <= Edits
      OBVIOUS
    <3>3. events[l] + 1 \in 0..Edits
      BY <2>3, <2>4, <3>2, SMTT(30)
    <3> QED
      BY <2>2, <3>1, <3>3
  <2>7. EventsRight'
    <3> SUFFICES ASSUME NEW k \in listeners
                 PROVE  disk'[k].edit <= setup.edits /\ events'[k] <= disk'[k].edit
      BY <2>2 DEF EventsRight, listeners
    <3>1. k = l => disk'[k] = new /\ events'[k] = events[l] + 1
      BY <2>2, <2>5
    <3>2. k # l => disk'[k] = disk[k] /\ events'[k] = events[k]
      BY <2>2, <2>5
    <3>3. disk[k].edit <= setup.edits /\ events[k] <= disk[k].edit
      BY DEF EventsRight
    <3>4. disk[l].edit \in Nat /\ events[l] \in Nat
      OBVIOUS
    <3> HIDE <1>0, <1>a, <1>b, <1>c
    <3> QED
      BY <3>1, <3>2, <3>3, <3>4, <2>3, <2>4
  <2> QED
    BY <2>2, <2>6, <2>7, TypeKept
<1>2. ASSUME NEW l \in listeners, NEW w \in Worker, Spawn(l, w) PROVE TypeOK' /\ EventsRight'
  <2>1. /\ events' = [events EXCEPT ![l] = events[l] - 1] /\ events[l] > 0
        /\ pc' = [pc EXCEPT ![w] = "enter"] /\ turn' = [turn EXCEPT ![w] = l]
        /\ UNCHANGED <<setup, err, flags, timing, disk, loaded, asked>>
    BY <1>2 DEF Spawn, Goes
  <2>2. events' \in [listeners -> 0..Edits] /\ \A k \in listeners : events'[k] <= events[k]
    <3>0. events[l] \in 0..Edits /\ events[l] > 0
      BY <2>1
    <3>1. events[l] - 1 \in 0..Edits /\ events[l] - 1 <= events[l]
      BY <3>0
    <3>2. \A k \in listeners : events'[k] = IF k = l THEN events[l] - 1 ELSE events[k]
      BY <2>1
    <3>3. events' \in [listeners -> 0..Edits]
      BY <2>1, <3>1
    <3>4. \A k \in listeners : events[k] \in Nat
      OBVIOUS
    <3> HIDE <1>0, <1>a, <1>b, <1>c
    <3> QED
      BY <3>1, <3>2, <3>3, <3>4
  <2>3. EventsRight'
    BY <2>1, <2>2, SMTT(30) DEF EventsRight, listeners
  <2>4. pc' \in [Proc -> Point] /\ turn' \in [Proc -> listeners]
    BY <2>1
  <2> QED
    BY <2>1, <2>2, <2>3, <2>4, TypeKept
<1>3. ASSUME NEW r \in Request,
             Ask(r) \/ LockNotify(r) \/ Drain(r) \/ Check(r) \/ Back(r) \/ End(r)
      PROVE  TypeOK' /\ EventsRight'
  <2>1. pc' \in [Proc -> Point] /\ turn' \in [Proc -> listeners]
    <3>1. CASE Ask(r) \/ LockNotify(r) \/ Drain(r)
      <4>1. UNCHANGED turn /\ \E x \in Point : pc' = [pc EXCEPT ![r] = x]
        BY <3>1 DEF Ask, LockNotify, Drain, Goes
      <4> QED
        BY <4>1
    <3>2. turn[r] # setup.listeners => turn[r] + 1 \in listeners
      OBVIOUS
    <3>3. CASE Check(r) \/ Back(r) \/ End(r)
      BY <3>2, <3>3 DEF Check, Back, End, AfterTurn, Leaves
    <3> QED
      BY <1>3, <3>1, <3>3
  <2>2. err' \in [Proc -> Outcome] /\ asked' \in [Request -> 0..Edits]
    <3>1. disk[1].edit \in 0..Edits
      <4>1. \A c \in Content : c.edit \in 0..Edits
        BY DEF Content
      <4> QED
        BY <4>1
    <3>2. UNCHANGED err \/ err' = [err EXCEPT ![r] = "nil"]
      BY <1>3 DEF Ask, LockNotify, Drain, Check, Back, End
    <3>3. \/ UNCHANGED asked \/ asked' = [asked EXCEPT ![r] = 0]
          \/ asked' = [asked EXCEPT ![r] = disk[1].edit]
      BY <1>3 DEF Ask, LockNotify, Drain, Check, Back, End, Leaves
    <3> QED
      BY <3>1, <3>2, <3>3, ZenonT(60)
  <2>3. /\ UNCHANGED forceRefresh \/ forceRefresh' = FALSE
        /\ lastError' \in listeners \cup {0, lastError}
    BY <1>3 DEF Ask, LockNotify, Drain, Check, Back, End
  <2>4. UNCHANGED <<setup, timing, disk, loaded>>
    BY <1>3 DEF Ask, LockNotify, Drain, Check, Back, End
  <2>5. UNCHANGED events \/ events' = [events EXCEPT ![turn[r]] = 0]
    BY <1>3 DEF Ask, LockNotify, Drain, Check, Back, End
  <2>6. events' \in [listeners -> 0..Edits] /\ \A k \in listeners : events'[k] <= events[k]
    <3>1. CASE UNCHANGED events
      BY <3>1
    <3>2. CASE events' = [events EXCEPT ![turn[r]] = 0]
      <4>1. \A k \in listeners : events'[k] = 0 \/ events'[k] = events[k]
        BY <3>2
      <4>2. \A k \in listeners : events[k] \in Nat
        OBVIOUS
      <4> QED
        BY <3>2, <4>1, <4>2
    <3> QED
      BY <2>5, <3>1, <3>2
  <2>7. EventsRight'
    <3>1. \A k \in listeners : events'[k] \in Nat /\ events[k] \in Nat
      <4>1. \A i \in 0..Edits : i \in Nat
        OBVIOUS
      <4> QED
        BY <2>6, <4>1
    <3> QED
      BY <2>4, <2>6, <3>1, SMTT(30) DEF EventsRight, listeners
  <2>8. TypeOK'
    BY <2>1, <2>2, <2>3, <2>4, <2>6, TypeKept
  <2> QED
    BY <2>7, <2>8
<1>4. ASSUME NEW p \in Proc, Refreshing(p) PROVE TypeOK' /\ EventsRight'
  <2>1. UNCHANGED <<setup, disk, events>>
    BY <1>4 DEF Refreshing, Enter, Receive, StartRefresh, EndRefresh, PanicInRefresh, Send, Release
  <2>2. EventsRight'
    BY <2>1 DEF EventsRight, listeners
  <2>3. /\ pc' \in [Proc -> Point] /\ turn' \in [Proc -> listeners]
        /\ err' \in [Proc -> Outcome] /\ asked' \in [Request -> 0..Edits]
    <3>1. ASSUME NEW e \in Outcome, Returns(p, e)
          PROVE  /\ pc' \in [Proc -> Point] /\ turn' \in [Proc -> listeners]
                 /\ err' \in [Proc -> Outcome] /\ asked' \in [Request -> 0..Edits]
      BY <3>1 DEF Returns, Leaves
    <3>2. CASE Receive(p)
      <4>1. Head(refreshChannel) \in Outcome
        BY <3>2 DEF Receive
      <4> QED
        BY <3>1, <3>2, <4>1 DEF Receive
    <3>3. CASE Release(p)
      <4>1. CASE Returns(p, err[p])
        BY <3>1, <4>1
      <4>2. CASE Leaves(p) /\ UNCHANGED err
        BY <4>2 DEF Leaves
      <4> QED
        BY <3>3, <4>1, <4>2 DEF Release
    <3>4. CASE Enter(p) \/ StartRefresh(p) \/ EndRefresh(p) \/ PanicInRefresh(p) \/ Send(p)
      <4>1. pc' \in [Proc -> Point]
        BY <3>4 DEF Enter, StartRefresh, EndRefresh, PanicInRefresh, Send, Goes
      <4>2. UNCHANGED <<turn, asked>> /\ err' \in [Proc -> Outcome]
        BY <3>4 DEF Enter, StartRefresh, EndRefresh, PanicInRefresh, Send
      <4> QED
        BY <4>1, <4>2
    <3> QED
      BY <1>4, <3>2, <3>3, <3>4 DEF Refreshing
  <2>4. /\ UNCHANGED forceRefresh \/ forceRefresh' = TRUE \/ forceRefresh' = FALSE
        /\ lastError' \in listeners \cup {0, lastError}
    BY <1>4 DEF Refreshing, Enter, Receive, StartRefresh, EndRefresh, PanicInRefresh, Send, Release,
                ForceUntilDone
  <2>5. refreshTimer' \in Proc \cup {None} /\ refreshChannelCount' \in Nat /\ left' \in Nat
    BY <1>4 DEF Refreshing, Enter, Receive, StartRefresh, EndRefresh, PanicInRefresh, Send, Release,
                CountWaiter
  <2>6. refreshChannel' \in Seq(Outcome) /\ Len(refreshChannel') <= Buffer
    <3>1. CASE Receive(p)
      BY <3>1, BoundAssumption DEF Receive
    <3>2. CASE Send(p)
      BY <3>2, BoundAssumption DEF Send
    <3> QED
      BY <1>4, <3>1, <3>2 DEF Refreshing, Enter, StartRefresh, EndRefresh, PanicInRefresh, Release
  <2>7. reading' \in Content /\ loaded' \in [listeners -> Content]
    <3>1. disk[turn[p]] \in Content
      OBVIOUS
    <3> QED
      BY <1>4, <3>1 DEF Refreshing, Enter, Receive, StartRefresh, EndRefresh, PanicInRefresh, Send, Release
  <2>8. TypeOK'
    BY <2>1, <2>3, <2>4, <2>5, <2>6, <2>7, TypeKept
  <2> QED
    BY <2>2, <2>8
<1> QED
  BY <1>1, <1>2, <1>3, <1>4 DEF Next, Notify

-----------------------------------------------------------------------------
(* The two mutexes and the timer. *)

LEMMA Moved ==
  ASSUME TypeOK, NEW p \in Proc, NEW x, pc' = [pc EXCEPT ![p] = x]
  PROVE  pc'[p] = x /\ \A q \in Proc : q # p => pc'[q] = pc[q]
BY DEF TypeOK

LEMMA LocksKept ==
  ASSUME TypeOK, LocksRight, UNCHANGED setup, NEW p \in Proc, NEW x, pc' = [pc EXCEPT ![p] = x],
         p \in Request /\ InNotify(p)' => InNotify(p) \/ ~NotifyLocked,
         p \in Worker => eager /\ x \notin {"wait", "scan", "check", "back", "end"},
         \/ UNCHANGED refreshTimer /\ (pc[p] \in Timed <=> x \in Timed)
         \/ refreshTimer = None /\ refreshTimer' = p /\ x \in Timed
         \/ refreshTimer' = None /\ pc[p] \in Timed /\ x \notin Timed
  PROVE  LocksRight'
<1>1. pc'[p] = x /\ \A q \in Proc : q # p => pc'[q] = pc[q]
  BY Moved
<1>2. \A q, r \in Request : InNotify(q)' /\ InNotify(r)' => q = r
  BY <1>1 DEF LocksRight, InNotify, NotifyLocked, Proc
<1>3. \A q \in Proc : pc'[q] \in Timed <=> refreshTimer' = q
  <2>1. \A q \in Proc : q # p => (pc'[q] \in Timed <=> pc[q] \in Timed)
    BY <1>1
  <2>2. \A q \in Proc : pc[q] \in Timed <=> refreshTimer = q
    BY DEF LocksRight
  <2>3. None \notin Proc
    BY ProcAssumption
  <2> QED
    BY <1>1, <2>1, <2>2, <2>3
<1>4. \A w \in Worker : pc'[w] \notin {"wait", "scan", "check", "back", "end"}
  BY <1>1, ProcAssumption DEF LocksRight, Proc
<1>5. ~eager => \A w \in Worker : pc'[w] = "idle"
  BY <1>1, ProcAssumption DEF LocksRight, Proc
<1> QED
  BY <1>2, <1>3, <1>4, <1>5 DEF LocksRight, eager

LEMMA LocksStep == ASSUME TypeOK, LocksRight, Next PROVE LocksRight'
<1>1. ASSUME NEW l \in listeners, Edit(l) PROVE LocksRight'
  <2>1. UNCHANGED <<setup, pc, refreshTimer>>
    BY <1>1 DEF Edit, timing
  <2> QED
    BY <2>1 DEF LocksRight, InNotify, eager
<1>2. ASSUME NEW l \in listeners, NEW w \in Worker, Spawn(l, w) PROVE LocksRight'
  <2>1. UNCHANGED <<setup, refreshTimer>> /\ pc[w] = "idle" /\ pc' = [pc EXCEPT ![w] = "enter"]
    BY <1>2 DEF Spawn, Goes, timing
  <2>2. eager
    <3>1. w <= setup.goroutines /\ w \in 1..Workers /\ setup.goroutines \in 0..Workers
      BY <1>2, SetupFacts DEF Spawn, TypeOK, Worker
    <3> QED
      BY <3>1, BoundAssumption DEF eager
  <2>3. w \in Proc /\ w \notin Request
    BY ProcAssumption DEF Proc
  <2> QED
    BY <2>1, <2>2, <2>3, LocksKept DEF Timed
<1>3. ASSUME NEW r \in Request,
             Ask(r) \/ LockNotify(r) \/ Drain(r) \/ Check(r) \/ Back(r) \/ End(r)
      PROVE  LocksRight'
  <2>1. PICK x \in Point :
          /\ pc' = [pc EXCEPT ![r] = x]
          /\ x \in {"idle", "wait"} \/ InNotify(r) \/ ~NotifyLocked
          /\ pc[r] \notin Timed /\ x \notin Timed
    <3>1. CASE Ask(r) \/ LockNotify(r) \/ Drain(r)
      BY <3>1 DEF Ask, LockNotify, Drain, Goes, InNotify, Point, Timed
    <3>2. CASE Check(r) \/ Back(r) \/ End(r)
      BY <3>2 DEF Check, Back, End, AfterTurn, Leaves, InNotify, Point, Timed
    <3> QED
      BY <1>3, <3>1, <3>2
  <2>2. UNCHANGED <<setup, refreshTimer>>
    BY <1>3 DEF Ask, LockNotify, Drain, Check, Back, End, timing
  <2>3. r \in Proc /\ r \notin Worker
    BY ProcAssumption DEF Proc
  <2>4. pc'[r] = x
    BY <2>1, <2>3, Moved
  <2> QED
    BY <2>1, <2>2, <2>3, <2>4, LocksKept DEF InNotify
<1>4. ASSUME NEW p \in Proc, Refreshing(p), UNCHANGED pc PROVE LocksRight'
  <2>1. UNCHANGED <<setup, refreshTimer>>
    <3>1. CASE Enter(p) \/ Receive(p) \/ StartRefresh(p) \/ EndRefresh(p) \/ PanicInRefresh(p)
               \/ Release(p)
      <4>1. PICK x \in Point : x # pc[p] /\ pc' = [pc EXCEPT ![p] = x]
        BY <3>1 DEF Enter, Receive, StartRefresh, EndRefresh, PanicInRefresh, Release, Goes,
           Returns, Leaves, Point
      <4> QED
        BY <1>4, <4>1, Moved
    <3>2. CASE Send(p)
      BY <3>2 DEF Send
    <3> QED
      BY <1>4, <3>1, <3>2 DEF Refreshing
  <2> QED
    BY <1>4, <2>1 DEF LocksRight, InNotify, eager
<1>5. ASSUME NEW p \in Proc, Refreshing(p), ~UNCHANGED pc PROVE LocksRight'
  <2>1. PICK x \in Point :
          /\ pc' = [pc EXCEPT ![p] = x]
          /\ pc[p] \in {"enter", "join", "timer", "refresh", "send", "panic"}
          /\ p \notin Request => x \notin {"wait", "scan", "check", "back", "end"}
          /\ \/ UNCHANGED refreshTimer /\ (pc[p] \in Timed <=> x \in Timed)
             \/ refreshTimer = None /\ refreshTimer' = p /\ x \in Timed
             \/ refreshTimer' = None /\ pc[p] \in Timed /\ x \notin Timed
    <3>1. CASE Enter(p)
      BY <3>1 DEF Enter, Goes, Point, Timed
    <3>2. CASE Receive(p)
      BY <3>2 DEF Receive, Returns, Leaves, Point, Timed
    <3>3. CASE StartRefresh(p) \/ EndRefresh(p) \/ PanicInRefresh(p)
      BY <3>3 DEF StartRefresh, EndRefresh, PanicInRefresh, Goes, Point, Timed
    <3>4. CASE Send(p)
      BY <1>5, <3>4 DEF Send
    <3>5. CASE Release(p)
      BY <3>5 DEF Release, Returns, Leaves, Point, Timed
    <3> QED
      BY <1>5, <3>1, <3>2, <3>3, <3>4, <3>5 DEF Refreshing
  <2>2. UNCHANGED setup
    BY <1>5 DEF Refreshing, Enter, Receive, StartRefresh, EndRefresh, PanicInRefresh, Send, Release
  <2>3. p \in Worker => eager /\ p \notin Request
    BY <2>1, ProcAssumption DEF LocksRight
  <2>4. p \in Request => InNotify(p)
    BY <2>1 DEF InNotify
  <2> QED
    BY <2>1, <2>2, <2>3, <2>4, LocksKept
<1> QED
  BY <1>1, <1>2, <1>3, <1>4, <1>5 DEF Next, Notify

-----------------------------------------------------------------------------
(* Waiters and their results. *)

Sending == \E p \in Proc : pc[p] \in {"send", "panic"}

LEMMA Owing ==
  /\ Owed = IF Sending THEN left ELSE refreshChannelCount
  /\ Owed' = IF Sending' THEN left' ELSE refreshChannelCount'
<1>1. (Sending => TimerLocked) /\ (Sending' => TimerLocked')
  BY DEF Sending, TimerLocked
<1> QED
  BY <1>1 DEF Owed, Sending

LEMMA WaitersMoved ==
  ASSUME TypeOK, NEW p \in Proc, NEW x, pc' = [pc EXCEPT ![p] = x]
  PROVE  /\ pc[p] # "join" /\ x # "join" => Waiting' = Waiting
         /\ pc[p] # "join" /\ x = "join" => p \notin Waiting /\ Waiting' = Waiting \cup {p}
         /\ pc[p] = "join" /\ x # "join" => p \in Waiting /\ Waiting' = Waiting \ {p}
         /\ (pc[p] \in {"send", "panic"} <=> x \in {"send", "panic"}) => (Sending' <=> Sending)
<1>1. pc'[p] = x /\ \A q \in Proc : q # p => pc'[q] = pc[q]
  BY Moved
<1> QED
  BY <1>1 DEF Waiting, Sending

(* A step that leaves the waiters, the channel and the number owed alone. *)
LEMMA WaitersKept ==
  ASSUME TypeOK, TypeOK', LocksRight', WaitersRight,
         Waiting' = Waiting, UNCHANGED refreshChannel,
         Owed' = Owed, refreshTimer' # None \/ refreshTimer' = refreshTimer \/ Owed = 0
  PROVE  WaitersRight'
<1>1. IsFiniteSet(Waiting') /\ Cardinality(Waiting') = Len(refreshChannel') + Owed'
  BY DEF WaitersRight, WaitersCounted
<1>2. ASSUME Owed' > 0 PROVE refreshTimer' # None /\ pc'[refreshTimer'] \in Timed
  <2>1. Owed > 0 => refreshTimer # None
    BY DEF WaitersRight, WaitersCounted
  <2>2. refreshTimer' # None
    BY <1>2, <2>1
  <2> QED
    BY <2>2 DEF LocksRight, TypeOK
<1> QED
  BY <1>1, <1>2 DEF WaitersRight, WaitersCounted, Timed

(* While somebody but the refresher of the timer does something, and until    *)
(* the refresher sends, no results are being sent.                            *)
LEMMA OneTimer ==
  ASSUME LocksRight, NEW p \in Proc, pc[p] \in Timed
  PROVE  refreshTimer = p /\ \A q \in Proc : pc[q] \in Timed => q = p
BY DEF LocksRight

LEMMA WaitersStep ==
  ASSUME TypeOK, TypeOK', LocksRight, LocksRight', WaitersRight, Next PROVE WaitersRight'
<1> USE DEF timing
<1>1. ASSUME NEW l \in listeners, Edit(l) PROVE WaitersRight'
  <2>1. UNCHANGED <<pc, refreshTimer, refreshChannelCount, refreshChannel, left>>
    BY <1>1 DEF Edit
  <2>2. Waiting' = Waiting /\ (Sending' <=> Sending)
    BY <2>1 DEF Waiting, Sending
  <2> QED
    BY <2>1, <2>2, Owing, WaitersKept
<1>2. ASSUME NEW p \in Proc, NEW x \in Point \ {"join"}, pc' = [pc EXCEPT ![p] = x], pc[p] # "join",
             pc[p] \in {"send", "panic"} <=> x \in {"send", "panic"},
             refreshTimer' = p \/ UNCHANGED refreshTimer,
             UNCHANGED <<refreshChannelCount, refreshChannel, left>>
      PROVE  WaitersRight'
  <2>1. Waiting' = Waiting /\ (Sending' <=> Sending)
    BY <1>2, WaitersMoved
  <2>2. p # None
    BY ProcAssumption
  <2> QED
    BY <1>2, <2>1, <2>2, Owing, WaitersKept
<1>3. ASSUME NEW l \in listeners, NEW w \in Worker, Spawn(l, w) PROVE WaitersRight'
  <2>1. w \in Proc /\ "enter" \in Point \ {"join"}
    BY DEF Proc, Point
  <2> QED
    BY <1>2, <1>3, <2>1 DEF Spawn, Goes
<1>4. ASSUME NEW r \in Request,
             Ask(r) \/ LockNotify(r) \/ Drain(r) \/ Check(r) \/ Back(r) \/ End(r)
      PROVE  WaitersRight'
  <2>1. PICK x \in Point \ {"join", "send", "panic"} :
          pc' = [pc EXCEPT ![r] = x] /\ pc[r] \notin {"join", "send", "panic"}
    <3>1. CASE Ask(r) \/ LockNotify(r) \/ Drain(r)
      BY <3>1 DEF Ask, LockNotify, Drain, Goes, Point
    <3>2. CASE Check(r) \/ Back(r) \/ End(r)
      BY <3>2 DEF Check, Back, End, AfterTurn, Leaves, Point
    <3> QED
      BY <1>4, <3>1, <3>2
  <2>2. UNCHANGED <<refreshTimer, refreshChannelCount, refreshChannel, left>>
    BY <1>4 DEF Ask, LockNotify, Drain, Check, Back, End
  <2>3. r \in Proc
    BY DEF Proc
  <2> QED
    BY <1>2, <2>1, <2>2, <2>3
<1>5. ASSUME NEW p \in Proc, Enter(p) PROVE WaitersRight'
  <2>1. ~Sending
    BY <1>5 DEF Enter, TimerLocked, Sending
  <2>2. CASE refreshTimer = None
    <3>1. /\ pc[p] = "enter" /\ pc' = [pc EXCEPT ![p] = "timer"] /\ refreshTimer' = p
          /\ UNCHANGED <<refreshChannelCount, refreshChannel, left>>
      BY <1>5, <2>2 DEF Enter, Goes
    <3>2. "timer" \in Point \ {"join"}
      BY DEF Point
    <3> QED
      BY <1>2, <3>1, <3>2
  <2>3. CASE refreshTimer # None
    <3>1. /\ pc[p] = "enter" /\ pc' = [pc EXCEPT ![p] = "join"]
          /\ refreshChannelCount' = refreshChannelCount + 1
          /\ UNCHANGED <<refreshTimer, refreshChannel, left>>
      BY <1>5, <2>3 DEF Enter, Goes, CountWaiter
    <3>2. p \notin Waiting /\ Waiting' = Waiting \cup {p} /\ ~Sending'
      BY <2>1, <3>1, WaitersMoved
    <3>3. IsFiniteSet(Waiting') /\ Cardinality(Waiting') = Cardinality(Waiting) + 1
      BY <3>2, FS_AddElement DEF WaitersRight
    <3>4. Owed = refreshChannelCount /\ Owed' = refreshChannelCount + 1
      BY <2>1, <3>1, <3>2, Owing
    <3>5. refreshTimer' # None /\ pc'[refreshTimer'] \in Timed
      BY <2>3, <3>1 DEF LocksRight, TypeOK
    <3>6. Cardinality(Waiting') = Len(refreshChannel') + Owed'
      <4>1. Cardinality(Waiting) = Len(refreshChannel) + Owed
        BY DEF WaitersRight, WaitersCounted
      <4>2. Len(refreshChannel) \in Nat /\ refreshChannelCount \in Nat
        BY DEF TypeOK
      <4> QED
        BY <3>1, <3>3, <3>4, <4>1, <4>2
    <3> QED
      BY <3>3, <3>5, <3>6 DEF WaitersRight, WaitersCounted, Timed
  <2> QED
    BY <2>2, <2>3
<1>6. ASSUME NEW p \in Proc, Receive(p) PROVE WaitersRight'
  <2>1. PICK x \in {"back", "idle"} : pc[p] = "join" /\ pc' = [pc EXCEPT ![p] = x]
    BY <1>6 DEF Receive, Returns, Leaves
  <2>2. /\ refreshChannel # << >> /\ refreshChannel' = Tail(refreshChannel)
        /\ UNCHANGED <<refreshTimer, refreshChannelCount, left>>
    BY <1>6 DEF Receive
  <2>3. p \in Waiting /\ Waiting' = Waiting \ {p} /\ (Sending' <=> Sending)
    BY <2>1, WaitersMoved
  <2>4. IsFiniteSet(Waiting') /\ Cardinality(Waiting') = Cardinality(Waiting) - 1
    BY <2>3, FS_RemoveElement DEF WaitersRight
  <2>5. Len(refreshChannel') = Len(refreshChannel) - 1 /\ Len(refreshChannel) \in Nat
    BY <2>2 DEF TypeOK
  <2>6. Owed' = Owed /\ Owed \in Nat
    BY <2>2, <2>3, Owing DEF TypeOK
  <2>7. Cardinality(Waiting') = Len(refreshChannel') + Owed'
    BY <2>4, <2>5, <2>6 DEF WaitersRight, WaitersCounted
  <2>8. Owed' > 0 => refreshTimer' # None /\ pc'[refreshTimer'] \in Timed
    <3>1. Owed > 0 => refreshTimer # None
      BY DEF WaitersRight, WaitersCounted
    <3>2. refreshTimer' # None => pc'[refreshTimer'] \in Timed
      BY DEF LocksRight, TypeOK
    <3> QED
      BY <2>2, <2>6, <3>1, <3>2
  <2> QED
    BY <2>4, <2>7, <2>8 DEF WaitersRight, WaitersCounted, Timed
<1>7. ASSUME NEW p \in Proc, StartRefresh(p) PROVE WaitersRight'
  <2>1. "refresh" \in Point \ {"join"}
    BY DEF Point
  <2> QED
    BY <1>2, <1>7, <2>1 DEF StartRefresh, Goes
<1>8. ASSUME NEW p \in Proc, EndRefresh(p) \/ PanicInRefresh(p) PROVE WaitersRight'
  <2>1. /\ pc[p] = "refresh" /\ left' = refreshChannelCount
        /\ UNCHANGED <<refreshTimer, refreshChannelCount, refreshChannel>>
    BY <1>8 DEF EndRefresh, PanicInRefresh, Goes
  <2>2. PICK x \in {"send", "panic"} : pc' = [pc EXCEPT ![p] = x]
    BY <1>8 DEF EndRefresh, PanicInRefresh, Goes
  <2>3. Waiting' = Waiting
    BY <2>1, <2>2, WaitersMoved
  <2>4. ~Sending
    BY <2>1, OneTimer DEF Sending, Timed
  <2>5. Sending'
    BY <2>2, Moved DEF Sending
  <2> QED
    BY <2>1, <2>3, <2>4, <2>5, Owing, WaitersKept
<1>9. ASSUME NEW p \in Proc, Send(p) PROVE WaitersRight'
  <2>1. /\ pc[p] \in {"send", "panic"} /\ left > 0 /\ left' = left - 1
        /\ refreshChannel' = Append(refreshChannel, err[p])
        /\ UNCHANGED <<pc, refreshTimer, refreshChannelCount>>
    BY <1>9 DEF Send
  <2>2. Sending /\ Sending' /\ Waiting' = Waiting
    BY <2>1 DEF Sending, Waiting
  <2>3. Len(refreshChannel') = Len(refreshChannel) + 1 /\ Len(refreshChannel) \in Nat /\ left \in Nat
    BY <2>1 DEF TypeOK
  <2>4. Owed = left /\ Owed' = left - 1
    BY <2>1, <2>2, Owing
  <2>5. Cardinality(Waiting') = Len(refreshChannel') + Owed' /\ IsFiniteSet(Waiting')
    BY <2>1, <2>2, <2>3, <2>4 DEF WaitersRight, WaitersCounted
  <2>6. refreshTimer' = p /\ p # None /\ pc'[p] \in {"send", "panic"}
    BY <2>1, OneTimer, ProcAssumption DEF Timed
  <2> QED
    BY <2>5, <2>6 DEF WaitersRight, WaitersCounted
<1>10. ASSUME NEW p \in Proc, Release(p) PROVE WaitersRight'
  <2>1. /\ pc[p] \in {"send", "panic"} /\ left = 0 /\ refreshChannelCount' = 0 /\ refreshTimer' = None
        /\ UNCHANGED <<refreshChannel, left>>
    BY <1>10 DEF Release
  <2>2. PICK x \in {"back", "idle"} : pc' = [pc EXCEPT ![p] = x]
    BY <1>10 DEF Release, Returns, Leaves
  <2>3. Waiting' = Waiting
    BY <2>1, <2>2, WaitersMoved
  <2>4. Sending
    BY <2>1 DEF Sending
  <2> QED
    BY <2>1, <2>3, <2>4, Owing, WaitersKept
<1> QED
  BY <1>1, <1>3, <1>4, <1>5, <1>6, <1>7, <1>8, <1>9, <1>10 DEF Next, Notify, Refreshing

-----------------------------------------------------------------------------
(* Edits of the one listener. *)

LEMMA Alone ==
  ASSUME TypeOK, setup.listeners = 1
  PROVE  listeners = {1} /\ (\A p \in Proc : turn[p] = 1) /\ events[1] \in Nat
<1>1. listeners = {1}
  BY DEF listeners
<1>2. events[1] \in 0..Edits /\ \A p \in Proc : turn[p] \in {1}
  BY <1>1 DEF TypeOK
<1>3. \A i \in 0..Edits : i \in Nat
  OBVIOUS
<1> QED
  BY <1>1, <1>2, <1>3

Coming == {"enter", "timer", "refresh"}

(* A step of a goroutine that refreshes nothing and is not about to. *)
LEMMA EditsKept ==
  ASSUME TypeOK, EditsRight, NEW p \in Proc, NEW x \in Point \ (Coming \cup {"panic"}),
         pc[p] \notin Coming, pc' = [pc EXCEPT ![p] = x],
         UNCHANGED <<setup, loaded, disk, events, reading>>,
         UNCHANGED forceRefresh \/ (\A r \in Request : pc'[r] \notin {"timer", "refresh", "panic"}),
         setup.listeners = 1 =>
           /\ p \in Request /\ x \in {"join", "send", "back", "end"} => UnderWay
           /\ UnderWay \/ UNCHANGED forceRefresh
  PROVE  EditsRight'
<1> SUFFICES ASSUME setup.listeners = 1 PROVE EditsRight'
  BY DEF EditsRight
<1>1. pc'[p] = x /\ \A q \in Proc : q # p => pc'[q] = pc[q]
  BY Moved
<1>2. /\ \A q \in Proc : pc'[q] \in Coming \/ pc[q] \in Coming => q # p /\ pc'[q] = pc[q]
      /\ \A q \in Proc : pc'[q] = "panic" => q # p /\ pc'[q] = pc[q]
  BY <1>1 DEF Coming
<1>3. UnderWay' <=> UnderWay
  BY <1>2 DEF UnderWay, Coming
<1>4. Request \subseteq Proc
  BY DEF Proc
<1>5. UnderWay' \/ forceRefresh'
  BY <1>3 DEF EditsRight
<1>6. \A q \in Proc : pc'[q] = "refresh" =>
        reading'.edit = disk'[1].edit \/ events'[1] > 0 \/ \E o \in Proc : pc'[o] = "enter"
  BY <1>2 DEF EditsRight, Coming
<1>7. \A r \in Request : pc'[r] \in {"join", "send", "back", "end"} => UnderWay'
  BY <1>1, <1>3, <1>4 DEF EditsRight
<1>8. \A r \in Request : pc'[r] \in {"timer", "refresh", "panic"} => forceRefresh'
  <2>1. CASE UNCHANGED forceRefresh
    BY <1>2, <1>4, <2>1 DEF EditsRight, Coming
  <2>2. CASE \A r \in Request : pc'[r] \notin {"timer", "refresh", "panic"}
    BY <2>2
  <2> QED
    BY <2>1, <2>2
<1> QED
  BY <1>5, <1>6, <1>7, <1>8 DEF EditsRight

(* A step after which a refresh is about to start, or is not behind. *)
LEMMA EditsComing ==
  ASSUME EditsRight,
         setup.listeners = 1 =>
           \/ events'[1] > 0
           \/ \E q \in Proc : pc'[q] = "enter"
           \/ \E q \in Proc : pc'[q] = "timer" /\ \A o \in Proc : pc'[o] # "refresh"
           \/ \E q \in Proc : pc'[q] = "refresh" /\ reading'.edit = disk'[1].edit,
         setup.listeners = 1 =>
           \A r \in Request : pc'[r] \in {"timer", "refresh", "panic"} => forceRefresh',
         UNCHANGED setup
  PROVE  EditsRight'
<1> SUFFICES ASSUME setup.listeners = 1 PROVE EditsRight'
  BY DEF EditsRight
<1>1. UnderWay'
  BY DEF UnderWay
<1> QED
  BY <1>1 DEF EditsRight

LEMMA EditsStep ==
  ASSUME TypeOK, LocksRight, LocksRight', EditsRight, Next PROVE EditsRight'
<1> USE DEF timing, flags, files
<1> SUFFICES ASSUME setup.listeners = 1 PROVE EditsRight'
  <2>1. UNCHANGED setup
    BY DEF Next, Edit, Spawn, Ask, Notify, LockNotify, Drain, Check, Back, End, Refreshing, Enter,
       Receive, StartRefresh, EndRefresh, PanicInRefresh, Send, Release
  <2> QED
    BY <2>1 DEF EditsRight
<1>0. /\ listeners = {1} /\ (\A p \in Proc : turn[p] = 1) /\ events[1] \in Nat
      /\ Request \subseteq Proc /\ DOMAIN events = {1}
  BY Alone DEF Proc, TypeOK
<1>1. ASSUME NEW l \in listeners, Edit(l) PROVE EditsRight'
  <2>1. UNCHANGED <<setup, pc, forceRefresh>> /\ events' = [events EXCEPT ![1] = events[1] + 1]
    BY <1>0, <1>1 DEF Edit
  <2>2. events'[1] > 0
    BY <1>0, <2>1
  <2>3. \A r \in Request : pc'[r] \in {"timer", "refresh", "panic"} => forceRefresh'
    BY <2>1 DEF EditsRight
  <2> QED
    BY <2>1, <2>2, <2>3, EditsComing
<1>2. ASSUME NEW l \in listeners, NEW w \in Worker, Spawn(l, w) PROVE EditsRight'
  <2>1. UNCHANGED <<setup, forceRefresh>> /\ pc' = [pc EXCEPT ![w] = "enter"]
    BY <1>2 DEF Spawn, Goes
  <2>2. w \in Proc
    BY DEF Proc
  <2>3. pc'[w] = "enter" /\ \A q \in Proc : q # w => pc'[q] = pc[q]
    BY <2>1, <2>2, Moved
  <2>4. \A r \in Request : pc'[r] \in {"timer", "refresh", "panic"} => forceRefresh'
    BY <1>0, <2>1, <2>3 DEF EditsRight
  <2> QED
    BY <2>1, <2>2, <2>3, <2>4, EditsComing
<1>3. ASSUME NEW r \in Request, NEW x, pc' = [pc EXCEPT ![r] = x], x = "enter",
             UNCHANGED <<setup, forceRefresh>>
      PROVE  EditsRight'
  <2>1. pc'[r] = "enter" /\ \A q \in Proc : q # r => pc'[q] = pc[q]
    BY <1>0, <1>3, Moved
  <2>2. \A q \in Request : pc'[q] \in {"timer", "refresh", "panic"} => forceRefresh'
    BY <1>0, <1>3, <2>1 DEF EditsRight
  <2> QED
    BY <1>0, <1>3, <2>1, <2>2, EditsComing
<1>4. ASSUME NEW r \in Request, Ask(r) \/ LockNotify(r) PROVE EditsRight'
  <2>1. /\ UNCHANGED <<setup, loaded, disk, events, reading, forceRefresh>>
        /\ pc[r] \in {"idle", "wait"}
    BY <1>4 DEF Ask, LockNotify, Goes
  <2>2. PICK x \in {"wait", "scan"} : pc' = [pc EXCEPT ![r] = x]
    BY <1>4 DEF Ask, LockNotify, Goes
  <2> QED
    BY <1>0, <2>1, <2>2, EditsKept DEF Point, Coming
<1>5. ASSUME NEW r \in Request, Drain(r) PROVE EditsRight'
  <2>1. /\ UNCHANGED <<setup, loaded, disk, reading, forceRefresh>> /\ pc[r] = "scan"
        /\ events' = [events EXCEPT ![1] = 0]
    BY <1>0, <1>5 DEF Drain, Goes
  <2>2. CASE events[1] > 0
    <3>1. pc' = [pc EXCEPT ![r] = "enter"]
      BY <1>0, <1>5, <2>2 DEF Drain, Goes
    <3> QED
      BY <1>3, <2>1, <3>1
  <2>3. CASE ~(events[1] > 0)
    <3>1. pc' = [pc EXCEPT ![r] = "check"]
      BY <1>0, <1>5, <2>3 DEF Drain, Goes
    <3>2. events' = events
      BY <1>0, <2>1, <2>3 DEF TypeOK
    <3> QED
      BY <1>0, <2>1, <3>1, <3>2, EditsKept DEF Point, Coming
  <2> QED
    BY <2>2, <2>3
<1>6. ASSUME NEW r \in Request, Check(r) PROVE EditsRight'
  <2>1. UNCHANGED <<setup, loaded, disk, events, reading, forceRefresh>> /\ pc[r] = "check"
    BY <1>6 DEF Check
  <2>2. CASE Needed(turn[r])
    BY <1>3, <1>6, <2>1, <2>2 DEF Check
  <2>3. CASE ~Needed(turn[r])
    <3>1. UnderWay
      BY <2>3 DEF Needed, EditsRight
    <3>2. pc' = [pc EXCEPT ![r] = "end"]
      BY <1>0, <1>6, <2>3 DEF Check, AfterTurn
    <3> QED
      BY <1>0, <2>1, <3>1, <3>2, EditsKept DEF Point, Coming
  <2> QED
    BY <2>2, <2>3
<1>7. ASSUME NEW r \in Request, Back(r) PROVE EditsRight'
  <2>1. UNCHANGED <<setup, loaded, disk, events, reading, forceRefresh>> /\ pc[r] = "back"
    BY <1>7 DEF Back
  <2>2. PICK x \in {"idle", "end"} : pc' = [pc EXCEPT ![r] = x]
    BY <1>0, <1>7 DEF Back, AfterTurn, Leaves
  <2>3. UnderWay
    BY <2>1 DEF EditsRight
  <2> QED
    BY <1>0, <2>1, <2>2, <2>3, EditsKept DEF Point, Coming
<1>8. ASSUME NEW r \in Request, End(r) PROVE EditsRight'
  <2>1. UNCHANGED <<setup, loaded, disk, events, reading>> /\ pc[r] = "end"
        /\ pc' = [pc EXCEPT ![r] = "idle"]
    BY <1>8 DEF End, Leaves
  <2>2. UnderWay
    BY <2>1 DEF EditsRight
  <2>3. \A q \in Request : pc'[q] \notin {"timer", "refresh", "panic"}
    <3>1. pc'[r] = "idle" /\ \A q \in Proc : q # r => pc'[q] = pc[q]
      BY <1>0, <2>1, Moved
    <3>2. \A q \in Request : InNotify(q) => q = r
      BY <2>1 DEF LocksRight, InNotify
    <3> QED
      BY <1>0, <3>1, <3>2 DEF InNotify
  <2> QED
    BY <1>0, <2>1, <2>2, <2>3, EditsKept DEF Point, Coming
<1>9. ASSUME NEW p \in Proc, Enter(p) PROVE EditsRight'
  <2>1. /\ UNCHANGED setup /\ forceRefresh' = TRUE /\ pc[p] = "enter"
        /\ \A q \in Proc : pc[q] \notin {"refresh", "send", "panic"}
        /\ \/ refreshTimer = None /\ pc' = [pc EXCEPT ![p] = "timer"]
           \/ refreshTimer # None /\ pc' = [pc EXCEPT ![p] = "join"]
    BY <1>9 DEF Enter, ForceUntilDone, Goes, TimerLocked
  <2>2. \E q \in Proc : pc'[q] = "timer"
    <3>1. CASE pc' = [pc EXCEPT ![p] = "timer"]
      BY <3>1, Moved
    <3>2. CASE refreshTimer # None /\ pc' = [pc EXCEPT ![p] = "join"]
      <4>1. refreshTimer \in Proc /\ pc[refreshTimer] = "timer"
        BY <2>1, <3>2 DEF LocksRight, TypeOK, Timed
      <4> QED
        BY <2>1, <3>2, <4>1, Moved
    <3> QED
      BY <2>1, <3>1, <3>2
  <2>3. \A q \in Proc : pc'[q] # "refresh"
    BY <2>1, Moved
  <2> QED
    BY <2>1, <2>2, <2>3, EditsComing
<1>10. ASSUME NEW p \in Proc, Receive(p) PROVE EditsRight'
  <2>1. UNCHANGED <<setup, loaded, disk, events, reading, forceRefresh>> /\ pc[p] = "join"
    BY <1>10 DEF Receive
  <2>2. PICK x \in {"back", "idle"} : pc' = [pc EXCEPT ![p] = x]
    BY <1>10 DEF Receive, Returns, Leaves
  <2>3. p \in Request => UnderWay
    BY <2>1 DEF EditsRight
  <2> QED
    BY <2>1, <2>2, <2>3, EditsKept DEF Point, Coming
<1>11. ASSUME NEW p \in Proc, StartRefresh(p) PROVE EditsRight'
  <2>1. /\ UNCHANGED <<setup, disk, forceRefresh>> /\ pc[p] = "timer" /\ reading' = disk[1]
        /\ pc' = [pc EXCEPT ![p] = "refresh"]
    BY <1>0, <1>11 DEF StartRefresh, Goes
  <2>2. pc'[p] = "refresh" /\ \A q \in Proc : q # p => pc'[q] = pc[q]
    BY <2>1, Moved
  <2>3. \A r \in Request : pc'[r] \in {"timer", "refresh", "panic"} => forceRefresh'
    BY <1>0, <2>1, <2>2 DEF EditsRight
  <2> QED
    BY <2>1, <2>2, <2>3, EditsComing
<1>12. ASSUME NEW p \in Proc, EndRefresh(p) PROVE EditsRight'
  <2>1. /\ UNCHANGED <<setup, disk, events, reading>> /\ pc[p] = "refresh"
        /\ pc' = [pc EXCEPT ![p] = "send"] /\ loaded' = [loaded EXCEPT ![1] = reading]
    BY <1>0, <1>12 DEF EndRefresh, Goes
  <2>2. pc'[p] = "send" /\ \A q \in Proc : q # p => pc'[q] = pc[q]
    BY <2>1, Moved
  <2>3. loaded'[1] = reading
    BY <1>0, <2>1 DEF TypeOK
  <2>4. \A q \in Proc : pc[q] \in Timed => q = p
    BY <2>1, OneTimer DEF Timed
  <2>5. UnderWay'
    BY <2>1, <2>2, <2>3 DEF EditsRight, UnderWay
  <2>6. \A q \in Proc : pc'[q] \notin {"timer", "refresh", "panic"}
    BY <2>2, <2>4 DEF Timed
  <2> QED
    BY <1>0, <2>1, <2>5, <2>6 DEF EditsRight
<1>13. ASSUME NEW p \in Proc, PanicInRefresh(p) PROVE EditsRight'
  <2>1. /\ p \in Request /\ UNCHANGED <<setup, forceRefresh>> /\ pc[p] = "refresh"
        /\ pc' = [pc EXCEPT ![p] = "panic"]
    BY <1>13 DEF PanicInRefresh, Goes
  <2>2. pc'[p] = "panic" /\ \A q \in Proc : q # p => pc'[q] = pc[q]
    BY <2>1, Moved
  <2>3. \A q \in Proc : pc'[q] # "refresh"
    BY <2>1, <2>2, OneTimer DEF Timed
  <2>4. forceRefresh'
    BY <2>1 DEF EditsRight
  <2>5. \A r \in Request : pc'[r] \notin {"join", "send", "back", "end"}
    <3>1. \A r \in Request : InNotify(r) => r = p
      BY <2>1 DEF LocksRight, InNotify
    <3> QED
      BY <1>0, <2>2, <3>1 DEF InNotify
  <2> QED
    BY <2>3, <2>4, <2>5 DEF EditsRight
<1>14. ASSUME NEW p \in Proc, Send(p) PROVE EditsRight'
  <2>1. UNCHANGED <<setup, pc, loaded, disk, events, reading, forceRefresh>>
    BY <1>14 DEF Send
  <2> QED
    BY <2>1 DEF EditsRight, UnderWay
<1>15. ASSUME NEW p \in Proc, Release(p) PROVE EditsRight'
  <2>1. UNCHANGED <<setup, loaded, disk, events, forceRefresh>> /\ pc[p] \in {"send", "panic"}
    BY <1>15 DEF Release
  <2>2. PICK x \in {"back", "idle"} :
          pc' = [pc EXCEPT ![p] = x] /\ (pc[p] = "panic" => x = "idle")
    BY <1>15 DEF Release, Returns, Leaves
  <2>3. pc'[p] = x /\ \A q \in Proc : q # p => pc'[q] = pc[q]
    BY <2>2, Moved
  <2>4. \A q \in Proc : pc'[q] # "refresh"
    BY <2>1, <2>3, OneTimer DEF Timed
  <2>5. UnderWay' <=> UnderWay
    BY <2>1, <2>3 DEF UnderWay
  <2>6. p \in Request /\ pc[p] = "send" => UnderWay
    BY DEF EditsRight
  <2>7. \A r \in Request : pc'[r] \in {"join", "send", "back", "end"} => UnderWay'
    BY <1>0, <2>1, <2>2, <2>3, <2>5, <2>6 DEF EditsRight
  <2>8. \A r \in Request : pc'[r] \in {"timer", "refresh", "panic"} => forceRefresh'
    BY <1>0, <2>1, <2>3 DEF EditsRight
  <2>9. UnderWay' \/ forceRefresh'
    BY <2>1, <2>5 DEF EditsRight
  <2> QED
    BY <2>4, <2>7, <2>8, <2>9 DEF EditsRight
<1> QED
  BY <1>1, <1>2, <1>4, <1>5, <1>6, <1>7, <1>8, <1>9, <1>10, <1>11, <1>12, <1>13, <1>14, <1>15
     DEF Next, Notify, Refreshing

-----------------------------------------------------------------------------
(* What a request of normal mode is served from. *)

LEMMA Numbers ==
  ASSUME TypeOK, setup.listeners = 1
  PROVE  /\ \A r \in Request : asked[r] \in Nat
         /\ loaded[1].edit \in Nat /\ disk[1].edit \in Nat /\ reading.edit \in Nat
         /\ DOMAIN disk = {1} /\ DOMAIN loaded = {1}
<1>1. listeners = {1}
  BY DEF listeners
<1>2. disk[1] \in Content /\ loaded[1] \in Content /\ reading \in Content
      /\ DOMAIN disk = {1} /\ DOMAIN loaded = {1}
  BY <1>1 DEF TypeOK
<1>3. \A c \in Content : c.edit \in Nat
  BY DEF Content
<1>4. \A r \in Request : asked[r] \in Nat
  <2>1. \A i \in 0..Edits : i \in Nat
    OBVIOUS
  <2> QED
    BY <2>1 DEF TypeOK
<1> QED
  BY <1>2, <1>3, <1>4

(* The request in Notify goes on. *)
LEMMA ServedKept ==
  ASSUME TypeOK, LocksRight, LocksRight', ServedRight, setup.listeners = 1, ~eager,
         NEW p \in Request, InNotify(p), NEW x, pc' = [pc EXCEPT ![p] = x],
         UNCHANGED <<setup, disk>>, \A q \in Request : q # p => asked'[q] = asked[q],
         loaded'[1].broken => forceRefresh',
         ServedRightTo(p)'
  PROVE  ServedRight'
<1>1. p \in Proc /\ Request \subseteq Proc
  BY DEF Proc
<1>2. \A q \in Proc : q # p => pc'[q] = pc[q]
  BY <1>1, Moved
<1>3. \A q \in Request : q # p => ~InNotify(q)
  BY DEF LocksRight
<1>4. ASSUME NEW q \in Request, q # p PROVE ServedRightTo(q)'
  <2>1. asked[q] <= disk[1].edit
    BY DEF ServedRight, ServedRightTo
  <2>2. pc'[q] \notin {"join", "check", "refresh", "send", "back", "end"}
    BY <1>1, <1>2, <1>3, <1>4 DEF InNotify
  <2> QED
    BY <1>4, <2>1, <2>2 DEF ServedRightTo
<1> QED
  BY <1>4 DEF ServedRight

LEMMA ServedStep ==
  ASSUME TypeOK, TypeOK', LocksRight, LocksRight', EditsRight, ServedRight, Next
  PROVE  ServedRight'
<1> USE DEF timing, flags, files
<1> SUFFICES ASSUME setup.listeners = 1, ~eager PROVE ServedRight'
  <2>1. UNCHANGED setup
    BY DEF Next, Edit, Spawn, Ask, Notify, LockNotify, Drain, Check, Back, End, Refreshing, Enter,
       Receive, StartRefresh, EndRefresh, PanicInRefresh, Send, Release
  <2> QED
    BY <2>1 DEF ServedRight, eager
<1>0. /\ listeners = {1} /\ (\A p \in Proc : turn[p] = 1) /\ events[1] \in Nat
      /\ Request \subseteq Proc
      /\ \A w \in Worker : pc[w] = "idle"
      /\ \A r \in Request : asked[r] \in Nat
      /\ loaded[1].edit \in Nat /\ disk[1].edit \in Nat /\ reading.edit \in Nat
      /\ DOMAIN disk = {1} /\ DOMAIN loaded = {1} /\ DOMAIN asked = Request /\ DOMAIN err = Proc
      /\ loaded[1].broken => forceRefresh
  BY Alone, Numbers DEF Proc, LocksRight, ServedRight, TypeOK
<1>1. ASSUME NEW l \in listeners, Edit(l) PROVE ServedRight'
  <2>1. UNCHANGED <<setup, pc, err, forceRefresh, loaded, asked, reading>>
    BY <1>1 DEF Edit
  <2>2. disk'[1].edit = disk[1].edit + 1
    BY <1>0, <1>1 DEF Edit
  <2>3. ASSUME NEW r \in Request PROVE ServedRightTo(r)'
    <3>1. ServedRightTo(r)
      BY DEF ServedRight
    <3>2. asked[r] <= disk[1].edit + 1
      BY <1>0, <3>1 DEF ServedRightTo
    <3> QED
      BY <2>1, <2>2, <3>1, <3>2 DEF ServedRightTo
  <2> QED
    BY <1>0, <2>1, <2>3 DEF ServedRight
<1>2. ASSUME NEW l \in listeners, NEW w \in Worker, Spawn(l, w) PROVE FALSE
  <2>1. w <= setup.goroutines /\ w \in 1..Workers /\ setup.goroutines \in 0..Workers
    BY <1>2, SetupFacts DEF Spawn, TypeOK, Worker
  <2> QED
    BY <2>1, BoundAssumption DEF eager
<1>3. ASSUME NEW r \in Request, Ask(r) PROVE ServedRight'
  <2>1. /\ UNCHANGED <<setup, err, forceRefresh, loaded, disk, reading>>
        /\ pc' = [pc EXCEPT ![r] = "wait"] /\ asked' = [asked EXCEPT ![r] = disk[1].edit]
    BY <1>3 DEF Ask, Goes
  <2>2. pc'[r] = "wait" /\ \A q \in Proc : q # r => pc'[q] = pc[q]
    BY <1>0, <2>1, Moved
  <2>3. ASSUME NEW q \in Request PROVE ServedRightTo(q)'
    <3>1. ServedRightTo(q)
      BY DEF ServedRight
    <3>2. CASE q = r
      <4>1. asked'[q] = disk[1].edit
        BY <1>0, <2>1, <3>2
      <4> QED
        BY <1>0, <2>1, <2>2, <3>2, <4>1 DEF ServedRightTo
    <3>3. CASE q # r
      <4>1. asked'[q] = asked[q] /\ pc'[q] = pc[q]
        BY <1>0, <2>1, <2>2, <3>3
      <4> QED
        BY <2>1, <3>1, <4>1 DEF ServedRightTo
    <3> QED
      BY <3>2, <3>3
  <2> QED
    BY <1>0, <2>1, <2>3 DEF ServedRight
<1>4. ASSUME NEW r \in Request, LockNotify(r) PROVE ServedRight'
  <2>1. UNCHANGED <<setup, err, forceRefresh, loaded, disk, reading, asked>>
        /\ pc' = [pc EXCEPT ![r] = "scan"]
    BY <1>4 DEF LockNotify, Goes
  <2>2. pc'[r] = "scan" /\ \A q \in Proc : q # r => pc'[q] = pc[q]
    BY <1>0, <2>1, Moved
  <2>3. ASSUME NEW q \in Request PROVE ServedRightTo(q)'
    <3>1. ServedRightTo(q)
      BY DEF ServedRight
    <3>2. CASE q = r
      BY <2>1, <2>2, <3>1, <3>2 DEF ServedRightTo
    <3>3. CASE q # r
      BY <1>0, <2>1, <2>2, <3>1, <3>3 DEF ServedRightTo
    <3> QED
      BY <3>2, <3>3
  <2> QED
    BY <1>0, <2>1, <2>3 DEF ServedRight
<1>5. ASSUME NEW r \in Request, Drain(r) PROVE ServedRight'
  <2>1. /\ UNCHANGED <<setup, err, forceRefresh, loaded, disk, reading, asked>> /\ pc[r] = "scan"
        /\ pc' = [pc EXCEPT ![r] = IF events[1] > 0 THEN "enter" ELSE "check"]
    BY <1>0, <1>5 DEF Drain, Goes
  <2>2. pc'[r] = IF events[1] > 0 THEN "enter" ELSE "check"
    BY <1>0, <2>1, Moved, ZenonT(60)
  <2>3. InNotify(r)
    BY <2>1 DEF InNotify
  <2>4. \A q \in Proc : pc[q] \notin {"enter", "timer", "refresh"}
    <3>1. \A q \in Request : InNotify(q) => q = r
      BY <2>3 DEF LocksRight
    <3> QED
      BY <1>0, <2>1, <3>1 DEF InNotify, Proc
  <2>5. ServedRightTo(r)
    BY DEF ServedRight
  <2>6. forceRefresh \/ asked[r] <= loaded[1].edit \/ events[1] > 0
    BY <2>4, <2>5 DEF EditsRight, UnderWay, ServedRightTo
  <2>7. ServedRightTo(r)'
    BY <2>1, <2>2, <2>5, <2>6 DEF ServedRightTo
  <2> QED
    BY <1>0, <2>1, <2>3, <2>7, ServedKept
<1>6. ASSUME NEW r \in Request, Check(r) PROVE ServedRight'
  <2>1. UNCHANGED <<setup, err, forceRefresh, loaded, disk, reading, asked>> /\ pc[r] = "check"
    BY <1>6 DEF Check
  <2>2. PICK x \in {"enter", "end"} : pc' = [pc EXCEPT ![r] = x] /\ (x = "end" => ~forceRefresh)
    BY <1>0, <1>6 DEF Check, AfterTurn, Needed
  <2>3. pc'[r] = x
    BY <1>0, <2>2, Moved
  <2>4. ServedRightTo(r)
    BY DEF ServedRight
  <2>5. ServedRightTo(r)'
    BY <1>0, <2>1, <2>2, <2>3, <2>4 DEF ServedRightTo
  <2>6. InNotify(r)
    BY <2>1 DEF InNotify
  <2> QED
    BY <1>0, <2>1, <2>2, <2>5, <2>6, ServedKept
<1>7. ASSUME NEW r \in Request, NEW x, pc' = [pc EXCEPT ![r] = x], x = "idle", InNotify(r),
             asked' = [asked EXCEPT ![r] = 0], UNCHANGED <<setup, loaded, disk>>,
             loaded[1].broken => forceRefresh'
      PROVE  ServedRight'
  <2>1. pc'[r] = "idle"
    BY <1>0, <1>7, Moved
  <2>2. asked'[r] = 0 /\ \A q \in Request : q # r => asked'[q] = asked[q]
    BY <1>0, <1>7
  <2>3. ServedRightTo(r)'
    BY <1>0, <1>7, <2>1, <2>2 DEF ServedRightTo
  <2> QED
    BY <1>7, <2>2, <2>3, ServedKept
<1>8. ASSUME NEW r \in Request, Back(r) PROVE ServedRight'
  <2>1. UNCHANGED <<setup, forceRefresh, loaded, disk, reading>> /\ pc[r] = "back"
    BY <1>8 DEF Back
  <2>2. InNotify(r)
    BY <2>1 DEF InNotify
  <2>3. CASE err[r] = "nil"
    <3>1. UNCHANGED asked /\ pc' = [pc EXCEPT ![r] = "end"]
      BY <1>0, <1>8, <2>3 DEF Back, AfterTurn
    <3>2. pc'[r] = "end"
      BY <1>0, <3>1, Moved
    <3>3. ServedRightTo(r)
      BY DEF ServedRight
    <3>4. ServedRightTo(r)'
      BY <2>1, <2>3, <3>1, <3>2, <3>3 DEF ServedRightTo
    <3> QED
      BY <1>0, <2>1, <2>2, <3>1, <3>4, ServedKept
  <2>4. CASE err[r] # "nil"
    <3>1. pc' = [pc EXCEPT ![r] = "idle"] /\ asked' = [asked EXCEPT ![r] = 0]
      BY <1>8, <2>4 DEF Back, Leaves
    <3> QED
      BY <1>0, <1>7, <2>1, <2>2, <3>1
  <2> QED
    BY <2>3, <2>4
<1>9. ASSUME NEW r \in Request, End(r) PROVE ServedRight'
  <2>1. /\ UNCHANGED <<setup, loaded, disk>> /\ pc[r] = "end"
        /\ pc' = [pc EXCEPT ![r] = "idle"] /\ asked' = [asked EXCEPT ![r] = 0]
    BY <1>9 DEF End, Leaves
  <2>2. ServedRightTo(r) /\ InNotify(r)
    BY <2>1 DEF ServedRight, InNotify
  <2>3. ~loaded[1].broken
    BY <2>1, <2>2 DEF ServedRightTo
  <2> QED
    BY <1>7, <2>1, <2>2, <2>3
<1>10. ASSUME NEW p \in Proc, Refreshing(p)
       PROVE  p \in Request /\ InNotify(p) /\ ServedRightTo(p) /\ pc[p] # "join" /\ DOMAIN pc = Proc
  <2>1. pc[p] \in {"enter", "join", "timer", "refresh", "send", "panic"}
    BY <1>10 DEF Refreshing, Enter, Receive, StartRefresh, EndRefresh, PanicInRefresh, Send, Release,
       Goes
  <2>2. p \in Request
    BY <1>0, <2>1 DEF Proc
  <2> QED
    BY <2>1, <2>2 DEF InNotify, ServedRight, ServedRightTo, TypeOK
<1>11. ASSUME NEW p \in Proc, Enter(p) PROVE ServedRight'
  <2>1. p \in Request /\ InNotify(p) /\ ServedRightTo(p)
    BY <1>10, <1>11 DEF Refreshing
  <2>2. UNCHANGED <<setup, err, loaded, disk, reading, asked>> /\ pc[p] = "enter" /\ forceRefresh' = TRUE
    BY <1>11 DEF Enter, Goes, ForceUntilDone
  <2>3. refreshTimer = None
    <3> SUFFICES ASSUME refreshTimer # None PROVE FALSE
      OBVIOUS
    <3>1. refreshTimer \in Proc /\ pc[refreshTimer] \in Timed
      BY DEF LocksRight, TypeOK
    <3>2. refreshTimer \in Request /\ InNotify(refreshTimer)
      BY <1>0, <3>1 DEF Timed, Proc, InNotify
    <3>3. refreshTimer = p
      BY <2>1, <3>2 DEF LocksRight
    <3> QED
      BY <2>2, <3>1, <3>3 DEF Timed
  <2>4. pc' = [pc EXCEPT ![p] = "timer"]
    BY <1>11, <2>3 DEF Enter, Goes
  <2>5. pc'[p] = "timer"
    BY <2>4, Moved
  <2>6. ServedRightTo(p)'
    BY <2>1, <2>2, <2>5 DEF ServedRightTo
  <2> QED
    BY <2>1, <2>2, <2>4, <2>6, ServedKept
<1>12. ASSUME NEW p \in Proc, Receive(p) PROVE FALSE
  BY <1>10, <1>12 DEF Refreshing, Receive
<1>13. ASSUME NEW p \in Proc, StartRefresh(p) PROVE ServedRight'
  <2>1. p \in Request /\ InNotify(p) /\ ServedRightTo(p)
    BY <1>10, <1>13 DEF Refreshing
  <2>2. /\ UNCHANGED <<setup, err, loaded, disk, asked, forceRefresh>> /\ reading' = disk[1]
        /\ pc' = [pc EXCEPT ![p] = "refresh"]
    BY <1>0, <1>13 DEF StartRefresh, Goes
  <2>3. pc'[p] = "refresh"
    BY <2>2, Moved
  <2>4. ServedRightTo(p)'
    BY <2>1, <2>2, <2>3 DEF ServedRightTo
  <2> QED
    BY <1>0, <2>1, <2>2, <2>4, ServedKept
<1>14. ASSUME NEW p \in Proc, EndRefresh(p) PROVE ServedRight'
  <2>1. p \in Request /\ InNotify(p) /\ ServedRightTo(p)
    BY <1>10, <1>14 DEF Refreshing
  <2>2. /\ UNCHANGED <<setup, disk, asked, reading>> /\ pc[p] = "refresh"
        /\ loaded' = [loaded EXCEPT ![1] = reading] /\ pc' = [pc EXCEPT ![p] = "send"]
        /\ err' = [err EXCEPT ![p] = IF reading.broken THEN "error" ELSE "nil"]
        /\ reading.broken => UNCHANGED forceRefresh
    BY <1>0, <1>14 DEF EndRefresh, Goes
  <2>3. pc'[p] = "send" /\ loaded'[1] = reading /\ (err'[p] = "nil" => ~reading.broken)
    BY <1>0, <2>2, Moved
  <2>4. ServedRightTo(p)'
    BY <2>1, <2>2, <2>3 DEF ServedRightTo
  <2>5. forceRefresh
    BY <2>1, <2>2 DEF EditsRight
  <2>6. loaded'[1].broken => forceRefresh'
    BY <2>2, <2>3, <2>5
  <2> QED
    BY <2>1, <2>2, <2>4, <2>6, ServedKept
<1>15. ASSUME NEW p \in Proc, PanicInRefresh(p) PROVE ServedRight'
  <2>1. p \in Request /\ InNotify(p) /\ ServedRightTo(p)
    BY <1>10, <1>15 DEF Refreshing
  <2>2. /\ UNCHANGED <<setup, loaded, disk, asked, reading, forceRefresh>>
        /\ pc' = [pc EXCEPT ![p] = "panic"]
    BY <1>15 DEF PanicInRefresh, Goes
  <2>3. pc'[p] = "panic"
    BY <2>2, Moved
  <2>4. ServedRightTo(p)'
    BY <2>1, <2>2, <2>3 DEF ServedRightTo
  <2> QED
    BY <1>0, <2>1, <2>2, <2>4, ServedKept
<1>16. ASSUME NEW p \in Proc, Send(p) PROVE ServedRight'
  <2>1. UNCHANGED <<setup, pc, err, loaded, disk, reading, forceRefresh, asked>>
    BY <1>16 DEF Send
  <2> QED
    BY <2>1 DEF ServedRight, ServedRightTo, eager
<1>17. ASSUME NEW p \in Proc, Release(p) PROVE ServedRight'
  <2>1. p \in Request /\ InNotify(p) /\ ServedRightTo(p)
    BY <1>10, <1>17 DEF Refreshing
  <2>2. UNCHANGED <<setup, loaded, disk, forceRefresh>>
    BY <1>17 DEF Release
  <2>3. CASE pc[p] = "send" /\ Returns(p, err[p])
    <3>1. /\ pc' = [pc EXCEPT ![p] = "back"] /\ UNCHANGED asked
          /\ err' = [err EXCEPT ![p] = err[p]]
      BY <2>1, <2>3 DEF Returns
    <3>2. pc'[p] = "back" /\ err'[p] = err[p]
      BY <1>0, <3>1, Moved
    <3>3. ServedRightTo(p)'
      BY <2>1, <2>2, <2>3, <3>1, <3>2 DEF ServedRightTo
    <3> QED
      BY <1>0, <2>1, <2>2, <3>1, <3>3, ServedKept
  <2>4. CASE pc[p] = "panic" /\ Leaves(p)
    <3>1. pc' = [pc EXCEPT ![p] = "idle"] /\ asked' = [asked EXCEPT ![p] = 0]
      BY <2>1, <2>4 DEF Leaves
    <3> QED
      BY <1>0, <1>7, <2>1, <2>2, <3>1
  <2> QED
    BY <1>17, <2>3, <2>4 DEF Release
<1> QED
  BY <1>1, <1>2, <1>3, <1>4, <1>5, <1>6, <1>8, <1>9, <1>11, <1>12, <1>13, <1>14, <1>15, <1>16, <1>17
     DEF Next, Notify, Refreshing

-----------------------------------------------------------------------------
LEMMA InitInvariant == Init => IInv
<1> SUFFICES ASSUME Init PROVE IInv
  OBVIOUS
<1>1. TypeOK /\ EventsRight
  BY TypeInit
<1>2. \A p \in Proc : pc[p] = "idle"
  BY DEF Init
<1>3. LocksRight
  BY <1>2, ProcAssumption DEF Init, LocksRight, InNotify, Timed, Proc
<1>4. WaitersRight
  <2>1. Waiting = {} /\ ~Sending
    BY <1>2 DEF Waiting, Sending
  <2>2. Owed = 0
    BY <2>1, Owing DEF Init
  <2> QED
    BY <2>1, <2>2, FS_EmptySet DEF Init, WaitersRight, WaitersCounted
<1>5. EditsRight
  BY <1>2 DEF Init, EditsRight, Proc
<1>6. ServedRight
  <2> SUFFICES ASSUME setup.listeners = 1, NEW r \in Request PROVE ServedRightTo(r)
    BY DEF Init, ServedRight
  <2>1. asked[r] = 0 /\ pc[r] = "idle"
    BY <1>2 DEF Init, Proc
  <2> QED
    BY <1>1, <2>1, Numbers DEF ServedRightTo
<1> QED
  BY <1>1, <1>3, <1>4, <1>5, <1>6 DEF IInv

LEMMA Stutter ==
  ASSUME IInv, UNCHANGED vars PROVE IInv'
<1>1. UNCHANGED <<setup, pc, turn, err, forceRefresh, lastError, refreshTimer, refreshChannelCount,
                  refreshChannel, left, reading, disk, events, loaded, asked>>
  BY DEF vars
<1>2. TypeOK' /\ EventsRight'
  BY <1>1 DEF IInv, TypeOK, EventsRight, listeners
<1>3. LocksRight'
  BY <1>1 DEF IInv, LocksRight, InNotify, eager
<1>4. WaitersRight'
  <2>1. Waiting' = Waiting /\ (Sending' <=> Sending)
    BY <1>1 DEF Waiting, Sending
  <2> QED
    BY <1>1, <1>2, <1>3, <2>1, Owing, WaitersKept DEF IInv
<1>5. EditsRight'
  BY <1>1 DEF IInv, EditsRight, UnderWay
<1>6. ServedRight'
  BY <1>1 DEF IInv, ServedRight, ServedRightTo, eager
<1> QED
  BY <1>2, <1>3, <1>4, <1>5, <1>6 DEF IInv

LEMMA Invariance == Spec => []IInv
<1>1. IInv /\ [Next]_vars => IInv'
  <2> SUFFICES ASSUME IInv, [Next]_vars PROVE IInv'
    OBVIOUS
  <2>1. CASE Next
    <3>1. TypeOK' /\ EventsRight'
      BY <2>1, TypeStep DEF IInv
    <3>2. LocksRight'
      BY <2>1, LocksStep DEF IInv
    <3>3. WaitersRight'
      BY <2>1, <3>1, <3>2, WaitersStep DEF IInv
    <3>4. EditsRight'
      BY <2>1, <3>2, EditsStep DEF IInv
    <3>5. ServedRight'
      BY <2>1, <3>1, <3>2, ServedStep DEF IInv
    <3> QED
      BY <3>1, <3>2, <3>3, <3>4, <3>5 DEF IInv
  <2>2. CASE UNCHANGED vars
    BY <2>2, Stutter
  <2> QED
    BY <2>1, <2>2
<1> QED
  BY <1>1, InitInvariant, PTL DEF Spec

-----------------------------------------------------------------------------
(* Every variable of the watcher keeps to its values; refreshChannel never    *)
(* holds more than its capacity.                                              *)
THEOREM TypeCorrect == Spec => []TypeOK
<1>1. IInv => TypeOK
  BY DEF IInv
<1> QED
  BY <1>1, Invariance, PTL

(* Everyone waiting on refreshChannel has a result in it or coming, and no    *)
(* result waits for nobody, for every number of waiters and every capacity.   *)
THEOREM ResultsCounted == Spec => []WaitersCounted
<1>1. IInv => WaitersCounted
  BY DEF IInv, WaitersRight
<1> QED
  BY <1>1, Invariance, PTL

(* No event is lost between the goroutines that pull events and those that    *)
(* refresh: what is not loaded when all is quiet will be forced.              *)
THEOREM EditsKeptInMind == Spec => []NoEditLost
<1>1. IInv => NoEditLost
  BY DEF IInv, EditsRight, UnderWay, NoEditLost
<1> QED
  BY <1>1, Invariance, PTL

(* In normal mode a request let through is served from what it asked for or   *)
(* newer, and from nothing that failed to load.                               *)
THEOREM RequestsServedFresh == Spec => ServedFresh
<1>1. IInv /\ [Next]_vars =>
        [\A r \in Request : ~eager /\ setup.listeners = 1 /\ End(r) =>
           loaded[1].edit >= asked[r] /\ ~loaded[1].broken]_vars
  <2> SUFFICES ASSUME IInv, NEW r \in Request, ~eager, setup.listeners = 1, End(r)
               PROVE  loaded[1].edit >= asked[r] /\ ~loaded[1].broken
    OBVIOUS
  <2>1. ServedRightTo(r) /\ pc[r] = "end"
    BY DEF IInv, ServedRight, End
  <2>2. asked[r] \in Nat /\ loaded[1].edit \in Nat
    BY Numbers DEF IInv
  <2> QED
    BY <2>1, <2>2 DEF ServedRightTo
<1> QED
  BY <1>1, Invariance, PTL DEF Spec, ServedFresh

=============================================================================
