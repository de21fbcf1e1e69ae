-------------------------- MODULE SimpleLockStack --------------------------
(* utils.SimpleLockStack: the doubly linked stack behind every object pool   *)
(* of the framework (GoContext, GoMultipartForm, Controller, and one stack   *)
(* of application controllers for each controller name).                     *)
(*                                                                           *)
(* Nodes are never freed, so a node is named by the order of its allocation. *)
(* Pop and Push hold the mutex for their whole body and are one step each;   *)
(* Push calls the object's Destroy before it takes the mutex, so Destroy is  *)
(* a step of its own.  A node popped off the stack keeps its stale Value.    *)
(* An object nothing refers to any more is garbage and its name can be used  *)
(* for an object the creator makes later.                                    *)
EXTENDS Integers, FiniteSets

CONSTANTS Client,      \* goroutines that use the stack
          Object,      \* objects the creator can make
          NoObject,    \* the nil value
          StartSizes,  \* the startsize arguments NewStackLock is called with
          MaxSizes,    \* the maxsize arguments NewStackLock is called with
          MaxNode,     \* no argument is larger; nodes are 1..MaxNode
          MaxActive    \* bound of the checking: no Pop once active reaches it

ASSUME SizeAssumption == /\ MaxNode \in Nat \ {0}
                         /\ StartSizes \subseteq 0..MaxNode
                         /\ MaxSizes \subseteq 0..MaxNode
                         /\ MaxActive \in Nat
ASSUME ObjectAssumption == NoObject \notin Object
ASSUME ClientAssumption == IsFiniteSet(Client)

Nil  == 0              \* the nil *SimpleLockStackElement
Node == 1..MaxNode

VARIABLES current,     \* SimpleLockStack.Current
          value,       \* value[n], next[n], previous[n]: the fields of node n
          next,
          previous,
          nodes,       \* nodes allocated so far: 1..nodes
          len,
          capacity,
          active,
          maxsize,
          held,        \* held[c]: the object c popped and has not pushed back
          destroyed,   \* clients between value.Destroy() and s.lock.Lock()
          dirty        \* objects with request data no Destroy has cleared

fields    == <<current, value, next, previous, nodes, len, capacity, active, maxsize>>
stackVars == <<fields, held, destroyed, dirty>>

InHand    == {held[c] : c \in Client} \ {NoObject}
Reachable == InHand \cup {value[n] : n \in 1..nodes}
Fresh     == Object \ Reachable

-----------------------------------------------------------------------------
(* NewStackLock.  With startsize = 0 there is still one node, and it holds a  *)
(* created value although len is 0: the first Push overwrites it.             *)

StackInit ==
  \E start \in StartSizes, max \in MaxSizes :
    LET made == IF start > 0 THEN start ELSE 1 IN
    /\ \E v \in [1..made -> Object] :
         /\ \A m, n \in 1..made : v[m] = v[n] => m = n
         /\ value = [n \in Node |-> IF n \in 1..made THEN v[n] ELSE NoObject]
    /\ next = [n \in Node |-> IF n < made THEN n + 1 ELSE Nil]
    /\ previous = [n \in Node |-> IF n \in 2..made THEN n - 1 ELSE Nil]
    /\ current = made
    /\ nodes = made
    /\ len = start
    /\ capacity = start
    /\ active = 0
    /\ maxsize = max
    /\ held = [c \in Client |-> NoObject]
    /\ destroyed = {}
    /\ dirty = {}

-----------------------------------------------------------------------------
(* Pop.  Definitions named after a slip (BelowUnchecked, ...) are variants no *)
(* action uses: the properties are shown to fail when one replaces the        *)
(* definition that follows it.                                               *)

PopCreatesUncounted(c) ==
  /\ held[c] = NoObject
  /\ len = 0
  /\ \E o \in Fresh : held' = [held EXCEPT ![c] = o]
  /\ UNCHANGED <<fields, destroyed, dirty>>

PopCreates(c) ==
  /\ held[c] = NoObject
  /\ active < MaxActive
  /\ len = 0
  /\ \E o \in Fresh : held' = [held EXCEPT ![c] = o]
  /\ active' = active + 1
  /\ UNCHANGED <<current, value, next, previous, nodes, len, capacity, maxsize,
                 destroyed, dirty>>

BelowUnchecked == previous[current]
BelowForgotten == current

(* The node Current steps back to: the first node has none before it. *)
Below == IF previous[current] # Nil THEN previous[current] ELSE current

PopStored(c) ==
  /\ held[c] = NoObject
  /\ active < MaxActive
  /\ len # 0
  /\ held' = [held EXCEPT ![c] = value[current]]
  /\ len' = len - 1
  /\ current' = Below
  /\ active' = active + 1
  /\ UNCHANGED <<value, next, previous, nodes, capacity, maxsize, destroyed, dirty>>

Pop(c) == PopCreates(c) \/ PopStored(c)

(* The request in hand writes into the object it popped. *)
Use(c) == /\ held[c] # NoObject
          /\ c \notin destroyed
          /\ dirty' = dirty \cup {held[c]}
          /\ UNCHANGED <<fields, held, destroyed>>

-----------------------------------------------------------------------------
(* Push: Destroy outside the lock, then one of four ways through the body.   *)

StillDirtySkipped(c) == dirty
StillDirty(c) == dirty \ {held[c]}

Destroy(c) == /\ held[c] # NoObject
              /\ c \notin destroyed
              /\ dirty' = StillDirty(c)
              /\ destroyed' = destroyed \cup {c}
              /\ UNCHANGED <<fields, held>>

LetGo(c) == /\ c \in destroyed
            /\ destroyed' = destroyed \ {c}
            /\ held' = [held EXCEPT ![c] = NoObject]
            /\ UNCHANGED <<dirty, maxsize>>

PushOntoEmpty(c) ==
  /\ LetGo(c)
  /\ len = 0
  /\ value' = [value EXCEPT ![current] = held[c]]
  /\ len' = len + 1
  /\ active' = active - 1
  /\ UNCHANGED <<current, next, previous, nodes, capacity>>

HasRoomOffByOne == len <= maxsize /\ len < MaxNode
HasRoom == len < maxsize

LinkedBackForgotten == previous
LinkedBack == [previous EXCEPT ![nodes + 1] = current]

PushAllocating(c) ==
  /\ LetGo(c)
  /\ len # 0
  /\ HasRoom
  /\ next[current] = Nil
  /\ nodes' = nodes + 1
  /\ next' = [next EXCEPT ![current] = nodes + 1, ![nodes + 1] = Nil]
  /\ value' = [value EXCEPT ![nodes + 1] = held[c]]
  /\ previous' = LinkedBack
  /\ current' = nodes + 1
  /\ capacity' = capacity + 1
  /\ len' = len + 1
  /\ active' = active - 1

PushReusing(c) ==
  /\ LetGo(c)
  /\ len # 0
  /\ HasRoom
  /\ next[current] # Nil
  /\ value' = [value EXCEPT ![next[current]] = held[c]]
  /\ current' = next[current]
  /\ len' = len + 1
  /\ active' = active - 1
  /\ UNCHANGED <<next, previous, nodes, capacity>>

(* A full stack returns early: the object is forgotten and active is not     *)
(* decremented.                                                              *)
PushOverflow(c) ==
  /\ LetGo(c)
  /\ len # 0
  /\ ~HasRoom
  /\ UNCHANGED <<current, value, next, previous, nodes, len, capacity, active>>

Push(c) == \/ PushOntoEmpty(c) \/ PushAllocating(c)
           \/ PushReusing(c)   \/ PushOverflow(c)

StackNext == \E c \in Client : Pop(c) \/ Use(c) \/ Destroy(c) \/ Push(c)

StackSpec == StackInit /\ [][StackNext]_stackVars

-----------------------------------------------------------------------------
(* The state the fields range over. *)
StackTypeOK ==
  /\ current \in Node
  /\ value \in [Node -> Object \cup {NoObject}]
  /\ next \in [Node -> Node \cup {Nil}]
  /\ previous \in [Node -> Node \cup {Nil}]
  /\ nodes \in Node
  /\ len \in 0..MaxNode
  /\ capacity \in 0..MaxNode
  /\ active \in Int
  /\ maxsize \in MaxSizes
  /\ held \in [Client -> Object \cup {NoObject}]
  /\ destroyed \subseteq Client
  /\ dirty \subseteq Object

(* The chain Pop and Push walk never breaks: it is the allocated nodes in     *)
(* order, linked both ways, every one holding an object, and Current stands   *)
(* on the len-th node (on the first one when the stack is empty), however     *)
(* pops, reuses of stale nodes, allocations and overflows are interleaved.    *)
Linked ==
  /\ \A n \in 1..nodes : /\ value[n] # NoObject
                         /\ next[n] = IF n = nodes THEN Nil ELSE n + 1
                         /\ previous[n] = n - 1
  /\ current = IF len = 0 THEN 1 ELSE len
  /\ len <= nodes
  /\ capacity \in {nodes, nodes - 1}

(* No object is handed to two requests, kept twice, or kept while a request   *)
(* has it in hand, although a popped node still refers to its old object.     *)
Exclusive ==
  /\ \A m, n \in 1..len : value[m] = value[n] => m = n
  /\ \A c, d \in Client : held[c] = held[d] /\ held[c] # NoObject => c = d
  /\ \A n \in 1..len, c \in Client : value[n] # held[c]

(* What the next Pop hands out carries nothing of an earlier request: Destroy *)
(* has run on every stored object since it was last used.                     *)
StoredClean == \A n \in 1..len : value[n] \notin dirty

(* Active, which the server's Stats report, counts at least the objects in    *)
(* hand (it overcounts once a push has overflowed).                           *)
ActiveCoversHeld == active >= Cardinality({c \in Client : held[c] # NoObject})

(* The linked stack implements the pool. *)
Pool == INSTANCE BoundedPool
          WITH room <- IF maxsize = 0 THEN 1 ELSE maxsize,
               free <- [n \in 1..len |-> value[n]]
Implements == Pool!Spec

=============================================================================
