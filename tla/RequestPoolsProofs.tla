------------------------- MODULE RequestPoolsProofs -------------------------
(* Theorems about the pooled objects a request is served with, for every      *)
(* number of goroutines, objects, types and names, every size of the pools    *)
(* and revel.controller.reuse on or off; and, in the last part, about the     *)
(* stack the pools are kept in, utils.SimpleLockStack, for every number of    *)
(* goroutines and objects and every startsize and maxsize.                    *)
EXTENDS RequestPools, SimpleLockStack, FiniteSetTheorems, TLAPS

Holding(r)  == Serving(r) \/ phase[r] = "cleared"    \* r has a controller
Open(r)     == phase[r] \notin {"idle", "closed"}    \* r's context is in use
StoredAs(n) == stack[cachedMap[n]].free

Fields == [in : Context \cup {None}, out : Context \cup {None}, socket : Slot \cup {None},
           type : Type \cup {None}, app : App \cup {None}, response : BOOLEAN]

(* Of a pool, by its stored objects f and who has which in hand: no object is  *)
(* in two hands, or in hand and stored, or stored twice.                      *)
Apart(f, h) ==
  /\ \A r, q \in Slot : h[r] = h[q] /\ h[r] # None => r = q
  /\ \A r \in Slot : \A i \in 1..Len(f) : f[i] # h[r]
  /\ \A i, j \in 1..Len(f) : f[i] = f[j] => i = j

(* Each goroutine has a context and a controller of its own exactly while its *)
(* request is where it needs one.                                             *)
PoolsApart ==
  /\ \A r \in Slot : ctxOf[r] = None <=> phase[r] = "idle"
  /\ \A r \in Slot : ctlOf[r] = None <=> ~Holding(r)
  /\ Apart(ctxFree, ctxOf) /\ Apart(ctlFree, ctlOf)

(* A context in use is its request's; every other one wraps no request and     *)
(* has no websocket to answer through, stored or not.                          *)
Vacant(c) == c.request = None /\ c.socket = None
ContextsRight ==
  /\ \A r \in Slot : Open(r) => /\ ctx[ctxOf[r]].request = r
                                /\ ctx[ctxOf[r]].socket \in {None, r}
  /\ \A x \in Context : Vacant(ctx[x]) \/ \E r \in Slot : Open(r) /\ ctxOf[r] = x

(* A controller in use leads to its request's context, and has a type and an  *)
(* application controller where the request needs them; every other one has   *)
(* neither, and leads nowhere.                                                *)
ControllersRight ==
  /\ \A r \in Slot : Serving(r) => /\ ctl[ctlOf[r]].in = ctxOf[r]
                                   /\ ctl[ctlOf[r]].out = ctxOf[r]
                                   /\ ctl[ctlOf[r]].socket = ctx[ctxOf[r]].socket
  /\ \A k \in Controller :
       \/ \E r \in Slot : Serving(r) /\ ctlOf[r] = k
       \/ ctl[k].in = None /\ ctl[k].type = None /\ ctl[k].app = None
  /\ \A r \in Slot : phase[r] \in {"install", "bind", "acting"} => ctl[ctlOf[r]].type # None
  /\ \A r \in Slot : phase[r] \in {"controller", "install", "bind"} => ctl[ctlOf[r]].app = None
  /\ \A r \in Slot : phase[r] = "acting" => ctl[ctlOf[r]].app # None

(* A stack holds application controllers of types of its name that embed no   *)
(* controller, each once and in no other stack.                               *)
StacksRight ==
  /\ \A n, m \in Name : cachedMap[n] = cachedMap[m] /\ cachedMap[n] # None => n = m
  /\ \A n \in Name : cachedMap[n] # None =>
       /\ stack[cachedMap[n]].type # None /\ NameOf[stack[cachedMap[n]].type] = n
       /\ Len(StoredAs(n)) <= AppDepth
       /\ \A i \in 1..Len(StoredAs(n)) :
            /\ app[StoredAs(n)[i]].controller = None
            /\ app[StoredAs(n)[i]].type # None /\ NameOf[app[StoredAs(n)[i]].type] = n
  /\ \A n, m \in Name : cachedMap[n] # None /\ cachedMap[m] # None =>
       \A i \in 1..Len(StoredAs(n)), j \in 1..Len(StoredAs(m)) :
         StoredAs(n)[i] = StoredAs(m)[j] => n = m /\ i = j

(* An application controller in use embeds the controller that refers to it,  *)
(* is of a type of the name looked up, and there is a stack to return it to.  *)
BindingsRight ==
  /\ \A k \in Controller : ctl[k].app # None =>
       /\ app[ctl[k].app].controller = k
       /\ ctl[k].type # None /\ app[ctl[k].app].type # None
       /\ NameOf[app[ctl[k].app].type] = NameOf[ctl[k].type]
       /\ reuse => cachedMap[NameOf[ctl[k].type]] # None
       /\ ~reuse => app[ctl[k].app].type = ctl[k].type
  /\ \A r \in Slot : reuse /\ phase[r] = "bind" => cachedMap[NameBound(r)] # None

IInv == TypeOK /\ PoolsApart /\ ContextsRight /\ ControllersRight /\ StacksRight /\ BindingsRight

-----------------------------------------------------------------------------
LEMMA InitInvariant == Init => IInv
<1> SUFFICES ASSUME Init PROVE IInv
  OBVIOUS
<1> USE NoneAssumption DEF Init
<1>1. TypeOK
  BY DEF TypeOK, BlankContext, BlankController, BlankApp, EmptyStack
<1>2. PoolsApart
  BY DEF PoolsApart, Apart, Holding, Serving
<1>3. ContextsRight /\ ControllersRight
  BY DEF ContextsRight, ControllersRight, Open, Serving, BlankController, BlankContext, Vacant
<1>4. StacksRight /\ BindingsRight
  BY DEF StacksRight, BindingsRight, BlankController
<1> QED
  BY <1>1, <1>2, <1>3, <1>4 DEF IInv

(* What an operation leaves alone. *)
LEMMA StacksKept ==
  ASSUME StacksRight, UNCHANGED <<cachedMap, stack, app>> PROVE StacksRight'
BY DEF StacksRight, StoredAs

LEMMA BindingsKept ==
  ASSUME BindingsRight, UNCHANGED <<reuse, ctl, app, cachedMap, ctlOf>>,
         \A q \in Slot : phase'[q] = "bind" => phase[q] = "bind"
  PROVE  BindingsRight'
<1>1. \A q \in Slot : NameBound(q)' = NameBound(q)
  BY DEF NameBound
<1> QED
  BY <1>1 DEF BindingsRight

(* What a request has in hand is nobody else's. *)
LEMMA SlotsHold ==
  ASSUME IInv, NEW r \in Slot
  PROVE  /\ phase[r] # "idle" => /\ ctxOf[r] \in Context
                                 /\ \A q \in Slot \ {r} : ctxOf[q] # ctxOf[r]
         /\ Holding(r) => /\ ctlOf[r] \in Controller
                          /\ \A q \in Slot \ {r} : ctlOf[q] # ctlOf[r]
BY NoneAssumption DEF IInv, TypeOK, PoolsApart, Apart

-----------------------------------------------------------------------------
(* A Pop and a Push of either pool.                                           *)

LEMMA FrontFacts ==
  ASSUME NEW S, NEW s \in Seq(S), s # << >>
  PROVE  LET g == SubSeq(s, 1, Len(s) - 1)
         IN  /\ g \in Seq(S) /\ Len(g) = Len(s) - 1
             /\ \A i \in 1..Len(g) : i \in 1..Len(s) /\ g[i] = s[i]
<1> DEFINE g == [i \in 1..(Len(s) - 1) |-> s[i]]
<1>1. SubSeq(s, 1, Len(s) - 1) = g
  OBVIOUS
<1>2. Len(s) - 1 \in Nat /\ g \in [1..(Len(s) - 1) -> S]
  OBVIOUS
<1>3. Len(g) = Len(s) - 1 /\ g \in Seq(S)
  BY <1>2
<1> QED
  BY <1>1, <1>2, <1>3

LEMMA TakeFacts ==
  ASSUME NEW Thing, None \notin Thing, NEW f \in Seq(Thing), NEW g,
         NEW h \in [Slot -> Thing \cup {None}], NEW k, NEW r \in Slot, Apart(f, h),
         \/ f # << >> /\ k = [h EXCEPT ![r] = f[Len(f)]] /\ g = SubSeq(f, 1, Len(f) - 1)
         \/ /\ g = f /\ f = << >>
            /\ \E o \in Thing \ ({h[c] : c \in Slot} \ {None}) : k = [h EXCEPT ![r] = o]
  PROVE  \E o \in Thing :
           /\ k = [h EXCEPT ![r] = o] /\ \A q \in Slot : h[q] # o
           /\ g \in Seq(Thing) /\ Apart(g, k)
           /\ \A i \in 1..Len(g) : i \in 1..Len(f) /\ g[i] = f[i] /\ g[i] # o
<1>1. CASE f # << >> /\ k = [h EXCEPT ![r] = f[Len(f)]] /\ g = SubSeq(f, 1, Len(f) - 1)
  <2> DEFINE o == f[Len(f)]
  <2>1. Len(f) \in Nat \ {0} /\ o \in Thing
    BY <1>1
  <2>2. g \in Seq(Thing) /\ Len(g) = Len(f) - 1 /\ \A i \in 1..Len(g) : g[i] = f[i]
    BY <1>1, FrontFacts
  <2>3. \A q \in Slot : h[q] # o
    BY <2>1 DEF Apart
  <2>4. \A i \in 1..Len(g) : i \in 1..Len(f) /\ g[i] # o
    BY <2>1, <2>2 DEF Apart
  <2>5. Apart(g, k)
    BY <1>1, <2>1, <2>2, <2>3, <2>4 DEF Apart
  <2> QED
    BY <1>1, <2>1, <2>2, <2>3, <2>4, <2>5
<1>2. CASE /\ g = f /\ f = << >>
           /\ \E o \in Thing \ ({h[c] : c \in Slot} \ {None}) : k = [h EXCEPT ![r] = o]
  <2>1. PICK o \in Thing \ ({h[c] : c \in Slot} \ {None}) : k = [h EXCEPT ![r] = o]
    BY <1>2
  <2>2. \A q \in Slot : h[q] # o
    BY <2>1
  <2>3. g \in Seq(Thing) /\ 1..Len(g) = {}
    BY <1>2
  <2>4. Apart(g, k)
    BY <2>1, <2>2, <2>3 DEF Apart
  <2> QED
    BY <2>1, <2>2, <2>3, <2>4
<1> QED
  BY <1>1, <1>2

LEMMA ReturnFacts ==
  ASSUME NEW Thing, None \notin Thing, NEW f \in Seq(Thing), NEW g, NEW room,
         NEW h \in [Slot -> Thing \cup {None}], NEW k, NEW r \in Slot, Apart(f, h),
         h[r] # None, k = [h EXCEPT ![r] = None],
         g = IF Len(f) < room THEN Append(f, h[r]) ELSE f
  PROVE  g \in Seq(Thing) /\ Apart(g, k)
<1>1. CASE g = f
  BY <1>1 DEF Apart
<1>2. CASE g = Append(f, h[r])
  <2>1. g \in Seq(Thing) /\ Len(g) = Len(f) + 1 /\ Len(f) \in Nat
    BY <1>2
  <2>2. g[Len(g)] = h[r] /\ \A i \in 1..Len(f) : g[i] = f[i]
    BY <1>2, <2>1
  <2>3. \A i \in 1..Len(g) : i = Len(g) \/ i \in 1..Len(f)
    BY <2>1
  <2>4. \A q \in Slot : k[q] = IF q = r THEN None ELSE h[q]
    OBVIOUS
  <2>5. \A i \in 1..Len(g) : g[i] \in Thing
    BY <2>1
  <2>6. \A q \in Slot, i \in 1..Len(g) : g[i] # k[q]
    BY <2>2, <2>3, <2>4, <2>5 DEF Apart
  <2>7. \A i, j \in 1..Len(g) : g[i] = g[j] => i = j
    BY <2>2, <2>3 DEF Apart
  <2> QED
    BY <2>1, <2>4, <2>6, <2>7 DEF Apart
<1> QED
  BY <1>1, <1>2

-----------------------------------------------------------------------------
(* handleMux. *)

LEMMA TakeContextStep ==
  ASSUME IInv, NEW r \in Slot, TakeContext(r) PROVE IInv'
<1> USE NoneAssumption DEF IInv
<1>1. PICK to \in {"context", "handshake"} : phase' = [phase EXCEPT ![r] = to]
  BY DEF TakeContext, Goes
<1>2. phase[r] = "idle" /\ UNCHANGED <<reuse, ctlFree, ctlOf, cachedMap, stack, ctl, app>>
  BY DEF TakeContext, Goes
<1>3. PICK x \in Context :
        /\ ctxOf' = [ctxOf EXCEPT ![r] = x] /\ \A q \in Slot : ctxOf[q] # x
        /\ ctxFree' \in Seq(Context) /\ Apart(ctxFree', ctxOf')
  <2>1. ctxFree \in Seq(Context) /\ ctxOf \in [Slot -> Context \cup {None}] /\ Apart(ctxFree, ctxOf)
    BY DEF TypeOK, PoolsApart
  <2>2. \/ /\ ctxFree # << >> /\ ctxOf' = [ctxOf EXCEPT ![r] = ctxFree[Len(ctxFree)]]
           /\ ctxFree' = SubSeq(ctxFree, 1, Len(ctxFree) - 1)
        \/ /\ ctxFree' = ctxFree /\ ctxFree = << >>
           /\ \E o \in Context \ ({ctxOf[c] : c \in Slot} \ {None}) : ctxOf' = [ctxOf EXCEPT ![r] = o]
    BY DEF TakeContext, Contexts!TakeStored, Contexts!TakeNew, Contexts!Taken, Contexts!InHand
  <2> QED
    BY <2>1, <2>2, TakeFacts
<1>4. PICK s \in Slot \cup {None} :
        ctx' = [ctx EXCEPT ![x] = [request |-> r, socket |-> None, conn |-> s]]
  <2>1. ctx[x] \in [request : Slot \cup {None}, socket : Slot \cup {None}, conn : Slot \cup {None}]
    BY DEF TypeOK
  <2>2. ctx[x].socket = None
    BY <1>3 DEF ContextsRight, Vacant
  <2>3. ctxOf'[r] = x
    BY <1>3 DEF TypeOK
  <2>4. \/ ctx' = [ctx EXCEPT ![x].request = r]
        \/ ctx' = [ctx EXCEPT ![x] = [BlankContext EXCEPT !.request = r]]
    BY <2>3 DEF TakeContext
  <2>5. [BlankContext EXCEPT !.request = r] = [request |-> r, socket |-> None, conn |-> None]
    BY DEF BlankContext
  <2>6. [ctx[x] EXCEPT !.request = r] = [request |-> r, socket |-> None, conn |-> ctx[x].conn]
    BY <2>1, <2>2
  <2>7. CASE ctx' = [ctx EXCEPT ![x].request = r]
    BY <2>1, <2>6, <2>7
  <2>8. CASE ctx' = [ctx EXCEPT ![x] = [BlankContext EXCEPT !.request = r]]
    BY <2>5, <2>8
  <2> QED
    BY <2>4, <2>7, <2>8
<1>5. TypeOK'
  BY <1>1, <1>2, <1>3, <1>4 DEF TypeOK
<1>6. PoolsApart'
  BY <1>1, <1>2, <1>3 DEF PoolsApart, TypeOK, Holding, Serving
<1>7. ContextsRight'
  BY <1>1, <1>2, <1>3, <1>4, SMTT(30) DEF ContextsRight, TypeOK, Open, Vacant
<1>8. ControllersRight'
  <2>1. \A q \in Slot : Serving(q) => Serving(q)' /\ ctxOf'[q] = ctxOf[q] /\ ctx'[ctxOf[q]] = ctx[ctxOf[q]]
    BY <1>1, <1>2, <1>3, <1>4 DEF Serving, TypeOK
  <2>2. \A q \in Slot : phase'[q] = phase[q] \/ phase'[q] \in {"context", "handshake"}
    BY <1>1 DEF TypeOK
  <2>3. \A q \in Slot : Serving(q)' => Serving(q)
    BY <2>2 DEF Serving
  <2> QED
    BY <1>2, <2>1, <2>2, <2>3 DEF ControllersRight
<1>9. StacksRight' /\ BindingsRight'
  <2>1. StacksRight'
    BY <1>1, <1>2, StacksKept
  <2>2. \A q \in Slot : phase'[q] = "bind" => phase[q] = "bind"
    BY <1>1 DEF TypeOK
  <2>3. BindingsRight'
    BY <1>1, <1>2, <2>2, BindingsKept
  <2> QED
    BY <2>1, <2>3
<1> QED
  BY <1>5, <1>6, <1>7, <1>8, <1>9

LEMMA UpgradeStep ==
  ASSUME IInv, NEW r \in Slot, Upgrade(r) PROVE IInv'
<1> USE NoneAssumption DEF IInv
<1>1. /\ phase[r] = "handshake" /\ phase' = [phase EXCEPT ![r] = "context"]
      /\ ctx' = [ctx EXCEPT ![ctxOf[r]].socket = r, ![ctxOf[r]].conn = r]
      /\ UNCHANGED <<reuse, ctxFree, ctxOf, ctlFree, ctlOf, cachedMap, stack, ctl, app>>
  BY DEF Upgrade, Goes
<1>2. ctxOf[r] \in Context /\ \A q \in Slot \ {r} : ctxOf[q] # ctxOf[r]
  BY <1>1, SlotsHold
<1>3. TypeOK'
  <2>1. ctx \in [Context -> [request : Slot \cup {None}, socket : Slot \cup {None},
                            conn : Slot \cup {None}]]
    BY DEF TypeOK
  <2>2. ctx' \in [Context -> [request : Slot \cup {None}, socket : Slot \cup {None},
                             conn : Slot \cup {None}]]
    BY <1>1, <1>2, <2>1
  <2> QED
    BY <1>1, <2>2 DEF TypeOK
<1>4. PoolsApart'
  BY <1>1 DEF PoolsApart, TypeOK, Holding, Serving
<1>5. ContextsRight'
  <2>1. ctx[ctxOf[r]] \in [request : Slot \cup {None}, socket : Slot \cup {None},
                           conn : Slot \cup {None}]
    BY <1>2 DEF TypeOK
  <2>2. ctx'[ctxOf[r]].request = ctx[ctxOf[r]].request /\ ctx'[ctxOf[r]].socket = r
    BY <1>1, <1>2, <2>1 DEF TypeOK
  <2>3. \A x \in Context \ {ctxOf[r]} : ctx'[x] = ctx[x]
    BY <1>1, <1>2 DEF TypeOK
  <2>4. phase[r] = "handshake" /\ phase'[r] = "context" /\ \A q \in Slot \ {r} : phase'[q] = phase[q]
    BY <1>1 DEF TypeOK
  <2>5. ctxOf' = ctxOf
    BY <1>1
  <2>6. \A q \in Slot : Open(q)' <=> Open(q)
    BY <2>4 DEF Open
  <2>7. \A q \in Slot \ {r} : Open(q) => ctxOf[q] \in Context \ {ctxOf[r]}
    BY <1>2, SlotsHold DEF Open
  <2>8. Open(r)
    BY <2>4 DEF Open
  <2>9. \A q \in Slot : Open(q)' => /\ ctx'[ctxOf'[q]].request = q
                                    /\ ctx'[ctxOf'[q]].socket \in {None, q}
    BY <2>2, <2>3, <2>5, <2>6, <2>7, <2>8 DEF ContextsRight
  <2>10. \A x \in Context : Vacant(ctx'[x]) \/ \E q \in Slot : Open(q)' /\ ctxOf'[q] = x
    BY <2>3, <2>5, <2>6, <2>8 DEF ContextsRight
  <2> QED
    BY <2>9, <2>10 DEF ContextsRight
<1>6. ControllersRight'
  <2>1. \A q \in Slot \ {r} : /\ phase'[q] = phase[q]
                              /\ phase[q] # "idle" => ctx'[ctxOf[q]] = ctx[ctxOf[q]]
    BY <1>1, <1>2, SlotsHold DEF TypeOK
  <2>2. phase[r] = "handshake" /\ phase'[r] = "context"
    BY <1>1 DEF TypeOK
  <2>3. UNCHANGED <<ctl, ctlOf, ctxOf>>
    BY <1>1
  <2> QED
    BY <2>1, <2>2, <2>3 DEF ControllersRight, Serving
<1>7. StacksRight' /\ BindingsRight'
  <2>1. StacksRight'
    BY <1>1, StacksKept
  <2>2. \A q \in Slot : phase'[q] = "bind" => phase[q] = "bind"
    BY <1>1 DEF TypeOK
  <2>3. BindingsRight'
    BY <1>1, <2>2, BindingsKept
  <2> QED
    BY <2>1, <2>3
<1> QED
  BY <1>3, <1>4, <1>5, <1>6, <1>7

LEMMA HandshakeFailsStep ==
  ASSUME IInv, NEW r \in Slot, HandshakeFails(r) PROVE IInv'
<1> USE NoneAssumption DEF IInv
<1>1. /\ phase[r] = "handshake" /\ phase' = [phase EXCEPT ![r] = "closing"]
      /\ UNCHANGED <<reuse, ctxFree, ctxOf, ctlFree, ctlOf, cachedMap, stack, ctx, ctl, app>>
  BY DEF HandshakeFails, Goes
<1>2. TypeOK'
  BY <1>1 DEF TypeOK
<1>3. PoolsApart'
  BY <1>1 DEF PoolsApart, TypeOK, Holding, Serving
<1>4. ContextsRight'
  BY <1>1 DEF ContextsRight, TypeOK, Open
<1>5. ControllersRight'
  BY <1>1 DEF ControllersRight, TypeOK, Serving
<1>6. StacksRight' /\ BindingsRight'
  <2>1. \A q \in Slot : phase'[q] = "bind" => phase[q] = "bind"
    BY <1>1 DEF TypeOK
  <2>2. StacksRight'
    BY <1>1, StacksKept
  <2>3. BindingsRight'
    BY <1>1, <2>1, BindingsKept
  <2> QED
    BY <2>2, <2>3
<1> QED
  BY <1>2, <1>3, <1>4, <1>5, <1>6

-----------------------------------------------------------------------------
(* handleInternal. *)

LEMMA TakeControllerStep ==
  ASSUME IInv, NEW r \in Slot, TakeController(r) PROVE IInv'
<1> USE NoneAssumption DEF IInv
<1>1. /\ phase[r] = "context" /\ phase' = [phase EXCEPT ![r] = "controller"]
      /\ UNCHANGED <<reuse, ctxFree, ctxOf, cachedMap, stack, ctx, app>>
  BY DEF TakeController, Goes
<1>2. PICK k \in Controller :
        /\ ctlOf' = [ctlOf EXCEPT ![r] = k] /\ \A q \in Slot : ctlOf[q] # k
        /\ ctlFree' \in Seq(Controller) /\ Apart(ctlFree', ctlOf')
  <2>1. /\ ctlFree \in Seq(Controller) /\ ctlOf \in [Slot -> Controller \cup {None}]
        /\ Apart(ctlFree, ctlOf)
    BY DEF TypeOK, PoolsApart
  <2>2. \/ /\ ctlFree # << >> /\ ctlOf' = [ctlOf EXCEPT ![r] = ctlFree[Len(ctlFree)]]
           /\ ctlFree' = SubSeq(ctlFree, 1, Len(ctlFree) - 1)
        \/ /\ ctlFree' = ctlFree /\ ctlFree = << >>
           /\ \E o \in Controller \ ({ctlOf[c] : c \in Slot} \ {None}) : ctlOf' = [ctlOf EXCEPT ![r] = o]
    BY DEF TakeController, Controllers!TakeStored, Controllers!TakeNew, Controllers!Taken, Controllers!InHand
  <2>3. None \notin Controller
    OBVIOUS
  <2> HIDE NoneAssumption DEF IInv
  <2> QED
    BY <2>1, <2>2, <2>3, TakeFacts
<1>3. ctxOf[r] \in Context
  BY <1>1, SlotsHold
<1>4. /\ ctl' \in [Controller -> Fields] /\ \A l \in Controller \ {k} : ctl'[l] = ctl[l]
      /\ ctl'[k].in = ctxOf[r] /\ ctl'[k].out = ctxOf[r]
      /\ ctl'[k].socket = ctx[ctxOf[r]].socket
      /\ ctl'[k].type = None /\ ctl'[k].app = None
  <2>1. ctl[k].type = None /\ ctl[k].app = None
    BY <1>2 DEF ControllersRight
  <2>2. ctl \in [Controller -> Fields] /\ ctl[k] \in Fields
    BY DEF TypeOK, Fields
  <2>3. ctx[ctxOf[r]].socket \in Slot \cup {None}
    BY <1>3 DEF TypeOK
  <2>4. \A c \in Fields : LET d == Attached(c, r) IN
          /\ d \in Fields /\ d.in = ctxOf[r] /\ d.out = ctxOf[r]
          /\ d.socket = ctx[ctxOf[r]].socket /\ d.type = c.type /\ d.app = c.app
    BY <1>3, <2>3 DEF Attached, Fields
  <2>5. BlankController \in Fields /\ BlankController.type = None /\ BlankController.app = None
    BY DEF BlankController, Fields
  <2>6. ctlOf'[r] = k
    BY <1>2 DEF TypeOK
  <2>7. \E c \in Fields : c.type = None /\ c.app = None /\ ctl' = [ctl EXCEPT ![k] = Attached(c, r)]
    BY <2>1, <2>2, <2>5, <2>6 DEF TakeController
  <2> QED
    BY <2>2, <2>4, <2>7
<1>6. TypeOK'
  BY <1>1, <1>2, <1>4 DEF TypeOK, Fields
<1>7. PoolsApart'
  BY <1>1, <1>2 DEF PoolsApart, TypeOK, Holding, Serving
<1>8. ContextsRight'
  BY <1>1 DEF ContextsRight, TypeOK, Open
<1>9. ControllersRight'
  <2>1. \A q \in Slot \ {r} : phase'[q] = phase[q] /\ ctlOf'[q] = ctlOf[q] /\ Serving(q)' = Serving(q)
    BY <1>1, <1>2 DEF TypeOK, Serving
  <2>2. \A q \in Slot \ {r} : phase[q] \in {"install", "bind", "acting"} => Serving(q)
    BY DEF Serving
  <2>3. \A q \in Slot : Serving(q) => q # r /\ ctlOf[q] \in Controller \ {k} /\ ctl'[ctlOf[q]] = ctl[ctlOf[q]]
    BY <1>1, <1>2, <1>4, SlotsHold DEF Serving, Holding
  <2>4. phase'[r] = "controller" /\ ctlOf'[r] = k /\ Serving(r)'
    BY <1>1, <1>2 DEF TypeOK, Serving
  <2> QED
    BY <1>1, <1>2, <1>4, <2>1, <2>2, <2>3, <2>4, SMTT(30) DEF ControllersRight, Serving
<1>10. StacksRight'
  BY <1>1, StacksKept
<1>11. BindingsRight'
  <2>1. \A q \in Slot : phase'[q] = "bind" => phase[q] = "bind" /\ ctlOf'[q] = ctlOf[q] /\ ctlOf[q] \in Controller
    BY <1>1, <1>2 DEF TypeOK, PoolsApart, Holding, Serving
  <2> QED
    BY <1>1, <1>2, <1>4, <2>1 DEF BindingsRight, NameBound
<1> QED
  BY <1>6, <1>7, <1>8, <1>9, <1>10, <1>11

-----------------------------------------------------------------------------
(* RouterFilter and SetTypeAction. *)

(* What a step of r that writes into its controller leaves to the others.     *)
LEMMA OthersKept ==
  ASSUME IInv, NEW r \in Slot, Holding(r), NEW to, phase' = [phase EXCEPT ![r] = to],
         \A l \in Controller \ {ctlOf[r]} : ctl'[l] = ctl[l]
  PROVE  /\ phase'[r] = to
         /\ \A q \in Slot \ {r} :
              /\ phase'[q] = phase[q]
              /\ Holding(q) => ctlOf[q] \in Controller \ {ctlOf[r]} /\ ctl'[ctlOf[q]] = ctl[ctlOf[q]]
<1>1. phase'[r] = to /\ \A q \in Slot \ {r} : phase'[q] = phase[q]
  BY DEF IInv, TypeOK
<1> QED
  BY <1>1, SlotsHold

LEMMA RouteFailsStep ==
  ASSUME IInv, NEW r \in Slot, RouteFails(r) PROVE IInv'
<1> USE DEF IInv
<1>1. /\ phase[r] = "controller" /\ phase' = [phase EXCEPT ![r] = "unwinding"]
      /\ UNCHANGED <<reuse, ctxFree, ctxOf, ctlFree, ctlOf, cachedMap, stack, ctx, app>>
  BY DEF RouteFails, Goes
<1> DEFINE k == ctlOf[r]
<1>2. Holding(r) /\ Serving(r) /\ k \in Controller
  BY <1>1, SlotsHold DEF Holding, Serving
<1>3. /\ ctl' \in [Controller -> Fields] /\ \A l \in Controller \ {k} : ctl'[l] = ctl[l]
      /\ ctl'[k].in = ctl[k].in /\ ctl'[k].out = ctl[k].out /\ ctl'[k].socket = ctl[k].socket
      /\ ctl'[k].app = ctl[k].app
  <2>1. ctl \in [Controller -> Fields]
    BY DEF TypeOK, Fields
  <2>2. PICK t \in Type \cup {None} : ctl' = [ctl EXCEPT ![k].type = t]
    BY DEF RouteFails
  <2> QED
    BY <1>2, <2>1, <2>2 DEF Fields
<1>4. /\ phase'[r] = "unwinding"
      /\ \A q \in Slot \ {r} :
           /\ phase'[q] = phase[q]
           /\ Holding(q) => ctlOf[q] \in Controller \ {k} /\ ctl'[ctlOf[q]] = ctl[ctlOf[q]]
  BY <1>1, <1>2, <1>3, OthersKept
<1>5. TypeOK'
  BY <1>1, <1>3 DEF TypeOK, Fields
<1>6. PoolsApart'
  BY <1>1, <1>4 DEF PoolsApart, Holding, Serving
<1>7. ContextsRight'
  BY <1>1, <1>4 DEF ContextsRight, Open
<1>8. ControllersRight'
  <2>1. UNCHANGED <<ctlOf, ctxOf, ctx>> /\ phase[r] = "controller"
    BY <1>1
  <2> QED
    BY <1>2, <1>3, <1>4, <2>1 DEF ControllersRight, Serving, Holding
<1>9. StacksRight'
  BY <1>1, StacksKept
<1>10. BindingsRight'
  <2>1. UNCHANGED <<ctlOf, reuse, cachedMap, app>>
    BY <1>1
  <2>2. ctl'[k].app = None
    BY <1>1, <1>3 DEF ControllersRight
  <2> QED
    BY <1>3, <1>4, <2>1, <2>2 DEF BindingsRight, NameBound, Holding, Serving
<1> QED
  BY <1>5, <1>6, <1>7, <1>8, <1>9, <1>10

LEMMA LookUpStackStep ==
  ASSUME IInv, NEW r \in Slot, NEW t \in Type, LookUpStack(r, t) PROVE IInv'
<1> USE DEF IInv
<1>1. /\ phase[r] = "controller"
      /\ UNCHANGED <<reuse, ctxFree, ctxOf, ctlFree, ctlOf, cachedMap, stack, ctx, app>>
      /\ ctl' = [ctl EXCEPT ![ctlOf[r]].type = t]
  BY DEF LookUpStack, Goes
<1>2. PICK to \in {"install", "bind"} :
        /\ phase' = [phase EXCEPT ![r] = to]
        /\ to = "bind" => (reuse => cachedMap[NameOf[t]] # None)
  BY DEF LookUpStack, Goes
<1> DEFINE k == ctlOf[r]
<1>3. Holding(r) /\ Serving(r) /\ k \in Controller
  BY <1>1, SlotsHold DEF Holding, Serving
<1>4. /\ ctl' \in [Controller -> Fields] /\ \A l \in Controller \ {k} : ctl'[l] = ctl[l]
      /\ ctl'[k].in = ctl[k].in /\ ctl'[k].out = ctl[k].out /\ ctl'[k].socket = ctl[k].socket
      /\ ctl'[k].app = ctl[k].app /\ ctl'[k].type = t
  <2>1. ctl \in [Controller -> Fields]
    BY DEF TypeOK, Fields
  <2> QED
    BY <1>1, <1>3, <2>1 DEF Fields
<1>5. /\ phase'[r] = to
      /\ \A q \in Slot \ {r} :
           /\ phase'[q] = phase[q]
           /\ Holding(q) => ctlOf[q] \in Controller \ {k} /\ ctl'[ctlOf[q]] = ctl[ctlOf[q]]
  BY <1>2, <1>3, <1>4, OthersKept
<1>6. TypeOK'
  BY <1>1, <1>2, <1>4 DEF TypeOK, Fields
<1>7. PoolsApart'
  BY <1>1, <1>5 DEF PoolsApart, Holding, Serving
<1>8. ContextsRight'
  BY <1>1, <1>5 DEF ContextsRight, Open
<1>9. ControllersRight'
  <2>1. UNCHANGED <<ctlOf, ctxOf, ctx>> /\ phase[r] = "controller" /\ t # None
    BY <1>1, NoneAssumption
  <2> QED
    BY <1>3, <1>4, <1>5, <2>1 DEF ControllersRight, Serving, Holding
<1>10. StacksRight'
  BY <1>1, StacksKept
<1>11. BindingsRight'
  <2>1. UNCHANGED <<ctlOf, reuse, cachedMap, app>>
    BY <1>1
  <2>2. ctl'[k].app = None
    BY <1>1, <1>4 DEF ControllersRight
  <2> QED
    BY <1>2, <1>4, <1>5, <2>1, <2>2 DEF BindingsRight, NameBound, Holding, Serving
<1> QED
  BY <1>6, <1>7, <1>8, <1>9, <1>10, <1>11

LEMMA FinishStep ==
  ASSUME IInv, NEW r \in Slot, Finish(r) PROVE IInv'
<1> USE DEF IInv
<1>1. /\ phase[r] = "acting" /\ phase' = [phase EXCEPT ![r] = "unwinding"]
      /\ UNCHANGED <<reuse, ctxFree, ctxOf, ctlFree, ctlOf, cachedMap, stack, ctx, ctl, app>>
  BY DEF Finish, Goes
<1>2. phase'[r] = "unwinding" /\ \A q \in Slot \ {r} : phase'[q] = phase[q]
  BY <1>1 DEF TypeOK
<1>3. TypeOK'
  BY <1>1 DEF TypeOK
<1>4. PoolsApart'
  BY <1>1, <1>2 DEF PoolsApart, Holding, Serving
<1>5. ContextsRight'
  BY <1>1, <1>2 DEF ContextsRight, Open
<1>6. ControllersRight'
  BY <1>1, <1>2 DEF ControllersRight, Serving
<1>7. StacksRight'
  BY <1>1, StacksKept
<1>8. BindingsRight'
  BY <1>1, <1>2 DEF BindingsRight, NameBound
<1> QED
  BY <1>3, <1>4, <1>5, <1>6, <1>7, <1>8

-----------------------------------------------------------------------------
(* Controller.Destroy and the Push of the controller. *)

LEMMA DestroyControllerStep ==
  ASSUME IInv, NEW r \in Slot, DestroyController(r) PROVE IInv'
<1> USE DEF IInv
<1> DEFINE k == ctlOf[r]
<1>1. /\ phase[r] = "unwinding" /\ phase' = [phase EXCEPT ![r] = "cleared"]
      /\ UNCHANGED <<reuse, ctxFree, ctxOf, ctlFree, ctlOf, cachedMap, stack, ctx, app>>
      /\ ctl[k].app = None /\ ctl' = [ctl EXCEPT ![k] = Cleared(ctl[k])]
  BY DEF DestroyController, Goes
<1>2. Holding(r) /\ Serving(r) /\ k \in Controller
  BY <1>1, SlotsHold DEF Holding, Serving
<1>3. /\ ctl' \in [Controller -> Fields] /\ \A l \in Controller \ {k} : ctl'[l] = ctl[l]
      /\ ctl'[k].in = None /\ ctl'[k].type = None /\ ctl'[k].app = None
  <2>1. ctl \in [Controller -> Fields]
    BY DEF TypeOK, Fields
  <2>2. \A c \in Fields : LET d == Cleared(c) IN
          d \in Fields /\ d.in = None /\ d.type = None /\ d.app = c.app
    BY DEF Fields, Cleared
  <2> QED
    BY <1>1, <1>2, <2>1, <2>2
<1>4. /\ phase'[r] = "cleared"
      /\ \A q \in Slot \ {r} :
           /\ phase'[q] = phase[q]
           /\ Holding(q) => ctlOf[q] \in Controller \ {k} /\ ctl'[ctlOf[q]] = ctl[ctlOf[q]]
  BY <1>1, <1>2, <1>3, OthersKept
<1>5. TypeOK'
  BY <1>1, <1>3 DEF TypeOK, Fields
<1>6. PoolsApart'
  BY <1>1, <1>4 DEF PoolsApart, Holding, Serving
<1>7. ContextsRight'
  BY <1>1, <1>4 DEF ContextsRight, Open
<1>8. ControllersRight'
  <2>1. UNCHANGED <<ctlOf, ctxOf, ctx>>
    BY <1>1
  <2> QED
    BY <1>2, <1>3, <1>4, <2>1 DEF ControllersRight, Serving, Holding
<1>9. StacksRight'
  BY <1>1, StacksKept
<1>10. BindingsRight'
  <2>1. UNCHANGED <<ctlOf, reuse, cachedMap, app>>
    BY <1>1
  <2> QED
    BY <1>3, <1>4, <2>1 DEF BindingsRight, NameBound, Holding, Serving
<1> QED
  BY <1>5, <1>6, <1>7, <1>8, <1>9, <1>10

LEMMA PushControllerStep ==
  ASSUME IInv, NEW r \in Slot, PushController(r) PROVE IInv'
<1> USE DEF IInv
<1>1. /\ phase[r] = "cleared" /\ phase' = [phase EXCEPT ![r] = "closing"]
      /\ UNCHANGED <<reuse, ctxFree, ctxOf, cachedMap, stack, ctx, ctl, app>>
  BY DEF PushController, Goes
<1>2. phase'[r] = "closing" /\ \A q \in Slot \ {r} : phase'[q] = phase[q]
  BY <1>1 DEF TypeOK
<1>3. ctlOf[r] # None /\ ctlOf' = [ctlOf EXCEPT ![r] = None]
  BY DEF PushController, Controllers!Return
<1>4. ctlFree' \in Seq(Controller) /\ Apart(ctlFree', ctlOf')
  <2>1. /\ ctlFree \in Seq(Controller) /\ ctlOf \in [Slot -> Controller \cup {None}]
        /\ Apart(ctlFree, ctlOf) /\ None \notin Controller
    BY NoneAssumption DEF TypeOK, PoolsApart
  <2>2. ctlFree' = IF Len(ctlFree) < ControllerRoom THEN Append(ctlFree, ctlOf[r]) ELSE ctlFree
    BY DEF PushController, Controllers!Return, Controllers!Returned
  <2> HIDE DEF IInv
  <2> QED
    BY <1>3, <2>1, <2>2, ReturnFacts
<1>5. ctlOf' \in [Slot -> Controller \cup {None}] /\ ctlOf'[r] = None
      /\ \A q \in Slot \ {r} : ctlOf'[q] = ctlOf[q]
  BY <1>3 DEF TypeOK
<1>6. TypeOK'
  BY <1>1, <1>4, <1>5 DEF TypeOK
<1>7. PoolsApart'
  BY <1>1, <1>2, <1>4, <1>5 DEF PoolsApart, Holding, Serving
<1>8. ContextsRight'
  BY <1>1, <1>2 DEF ContextsRight, Open
<1>9. ControllersRight'
  <2>1. UNCHANGED <<ctl, ctxOf, ctx>>
    BY <1>1
  <2> QED
    BY <1>1, <1>2, <1>5, <2>1 DEF ControllersRight, Serving
<1>10. StacksRight'
  BY <1>1, StacksKept
<1>11. BindingsRight'
  <2>1. UNCHANGED <<ctl, reuse, cachedMap, app>>
    BY <1>1
  <2> QED
    BY <1>2, <1>5, <2>1 DEF BindingsRight, NameBound
<1> QED
  BY <1>6, <1>7, <1>8, <1>9, <1>10, <1>11

LEMMA ForgetControllerStep ==
  ASSUME IInv, NEW r \in Slot, ForgetController(r) PROVE IInv'
<1> USE DEF IInv
<1> DEFINE k == ctlOf[r]
<1>1. /\ phase[r] = "unwinding" /\ phase' = [phase EXCEPT ![r] = "closing"]
      /\ UNCHANGED <<reuse, ctxFree, ctxOf, ctlFree, cachedMap, stack, ctx, app>>
      /\ ctlOf' = [ctlOf EXCEPT ![r] = None] /\ ctl' = [ctl EXCEPT ![k] = BlankController]
  BY DEF ForgetController, Goes
<1>2. Holding(r) /\ Serving(r) /\ k \in Controller
  BY <1>1, SlotsHold DEF Holding, Serving
<1>3. /\ ctl' \in [Controller -> Fields] /\ \A l \in Controller \ {k} : ctl'[l] = ctl[l]
      /\ ctl'[k].in = None /\ ctl'[k].type = None /\ ctl'[k].app = None
  <2>1. ctl \in [Controller -> Fields]
    BY DEF TypeOK, Fields
  <2> QED
    BY <1>1, <1>2, <2>1 DEF Fields, BlankController
<1>4. /\ phase'[r] = "closing"
      /\ \A q \in Slot \ {r} :
           /\ phase'[q] = phase[q]
           /\ Holding(q) => ctlOf[q] \in Controller \ {k} /\ ctl'[ctlOf[q]] = ctl[ctlOf[q]]
  BY <1>1, <1>2, <1>3, OthersKept
<1>5. ctlOf' \in [Slot -> Controller \cup {None}] /\ ctlOf'[r] = None
      /\ \A q \in Slot \ {r} : ctlOf'[q] = ctlOf[q]
  BY <1>1 DEF TypeOK
<1>6. TypeOK'
  BY <1>1, <1>3, <1>5 DEF TypeOK, Fields
<1>7. PoolsApart'
  <2>1. Apart(ctlFree', ctlOf')
    BY <1>1, <1>5, NoneAssumption DEF PoolsApart, Apart, TypeOK
  <2> QED
    BY <1>1, <1>4, <1>5, <2>1 DEF PoolsApart, Holding, Serving
<1>8. ContextsRight'
  BY <1>1, <1>4 DEF ContextsRight, Open
<1>9. ControllersRight'
  <2>1. UNCHANGED <<ctxOf, ctx>>
    BY <1>1
  <2> QED
    BY <1>2, <1>3, <1>4, <1>5, <2>1 DEF ControllersRight, Serving, Holding
<1>10. StacksRight'
  BY <1>1, StacksKept
<1>11. BindingsRight'
  <2>1. UNCHANGED <<reuse, cachedMap, app>>
    BY <1>1
  <2> QED
    BY <1>3, <1>4, <1>5, <2>1 DEF BindingsRight, NameBound, Holding, Serving
<1> QED
  BY <1>6, <1>7, <1>8, <1>9, <1>10, <1>11

-----------------------------------------------------------------------------
(* GoContext.Destroy and the Push of the context. *)

LEMMA DestroyContextStep ==
  ASSUME IInv, NEW r \in Slot, DestroyContext(r) PROVE IInv'
<1> USE DEF IInv
<1>1. /\ phase[r] = "closing" /\ phase' = [phase EXCEPT ![r] = "closed"]
      /\ UNCHANGED <<reuse, ctxFree, ctxOf, ctlFree, ctlOf, cachedMap, stack, ctl, app>>
      /\ ctx' = [ctx EXCEPT ![ctxOf[r]].request = None, ![ctxOf[r]].socket = None]
  BY DEF DestroyContext, Goes, Closed
<1>2. phase'[r] = "closed" /\ \A q \in Slot \ {r} : phase'[q] = phase[q]
  BY <1>1 DEF TypeOK
<1>3. ctxOf[r] \in Context /\ \A q \in Slot \ {r} : ctxOf[q] # ctxOf[r]
  BY <1>1, SlotsHold
<1>4. /\ ctx' \in [Context -> [request : Slot \cup {None}, socket : Slot \cup {None},
                             conn : Slot \cup {None}]]
      /\ Vacant(ctx'[ctxOf[r]]) /\ \A x \in Context \ {ctxOf[r]} : ctx'[x] = ctx[x]
  <2> DEFINE c == ctxOf[r]
             emptied == [ctx[c] EXCEPT !.request = None, !.socket = None]
  <2>1. ctx \in [Context -> [request : Slot \cup {None}, socket : Slot \cup {None},
                             conn : Slot \cup {None}]]
    BY DEF TypeOK
  <2>2. c \in Context
    BY <1>3
  <2>3. ctx' = [ctx EXCEPT ![c] = emptied]
    BY <1>1, <2>1, <2>2
  <2>4. /\ emptied \in [request : Slot \cup {None}, socket : Slot \cup {None},
                        conn : Slot \cup {None}]
        /\ emptied.request = None /\ emptied.socket = None
    BY <2>1, <2>2
  <2> HIDE DEF emptied, c
  <2>5. ctx'[c] = emptied /\ \A x \in Context \ {c} : ctx'[x] = ctx[x]
    BY <2>1, <2>2, <2>3
  <2> QED
    BY <2>1, <2>2, <2>3, <2>4, <2>5 DEF Vacant, c
<1>5. \A q \in Slot \ {r} : phase[q] # "idle" => ctx'[ctxOf[q]] = ctx[ctxOf[q]]
  BY <1>3, <1>4, SlotsHold
<1>6. TypeOK'
  BY <1>1, <1>4 DEF TypeOK
<1>7. PoolsApart'
  BY <1>1, <1>2 DEF PoolsApart, Holding, Serving
<1>8. UNCHANGED <<ctxOf, ctlOf, ctl>>
  BY <1>1
<1>9. ContextsRight'
  BY <1>2, <1>3, <1>4, <1>5, <1>8 DEF ContextsRight, Open
<1>10. ControllersRight'
  <2>1. \A q \in Slot : phase'[q] \in {"controller", "install", "bind", "acting", "unwinding"}
          <=> phase[q] \in {"controller", "install", "bind", "acting", "unwinding"}
    BY <1>1, <1>2
  <2>2. \A q \in Slot : Serving(q)' <=> Serving(q)
    BY <2>1 DEF Serving
  <2>3. \A q \in Slot : Serving(q) => q # r /\ phase[q] # "idle"
    BY <1>1 DEF Serving
  <2>4. \A q \in Slot : phase'[q] = phase[q] \/ phase'[q] = "closed"
    BY <1>1, <1>2
  <2> QED
    BY <1>5, <1>8, <2>2, <2>3, <2>4 DEF ControllersRight
<1>11. StacksRight'
  BY <1>1, StacksKept
<1>12. BindingsRight'
  BY <1>1, <1>2 DEF BindingsRight, NameBound
<1> QED
  BY <1>6, <1>7, <1>9, <1>10, <1>11, <1>12

LEMMA PushContextStep ==
  ASSUME IInv, NEW r \in Slot, PushContext(r) PROVE IInv'
<1> USE DEF IInv
<1>1. /\ phase[r] = "closed" /\ phase' = [phase EXCEPT ![r] = "idle"]
      /\ UNCHANGED <<reuse, ctlFree, ctlOf, cachedMap, stack, ctx, ctl, app>>
  BY DEF PushContext, Goes
<1>2. phase'[r] = "idle" /\ \A q \in Slot \ {r} : phase'[q] = phase[q]
  BY <1>1 DEF TypeOK
<1>3. ctxOf[r] # None /\ ctxOf' = [ctxOf EXCEPT ![r] = None]
  BY DEF PushContext, Contexts!Return
<1>4. ctxFree' \in Seq(Context) /\ Apart(ctxFree', ctxOf')
  <2>1. /\ ctxFree \in Seq(Context) /\ ctxOf \in [Slot -> Context \cup {None}]
        /\ Apart(ctxFree, ctxOf) /\ None \notin Context
    BY NoneAssumption DEF TypeOK, PoolsApart
  <2>2. ctxFree' = IF Len(ctxFree) < ContextRoom THEN Append(ctxFree, ctxOf[r]) ELSE ctxFree
    BY DEF PushContext, Contexts!Return, Contexts!Returned
  <2> HIDE DEF IInv
  <2> QED
    BY <1>3, <2>1, <2>2, ReturnFacts
<1>5. ctxOf' \in [Slot -> Context \cup {None}] /\ ctxOf'[r] = None
      /\ \A q \in Slot \ {r} : ctxOf'[q] = ctxOf[q]
  BY <1>3 DEF TypeOK
<1>6. TypeOK'
  BY <1>1, <1>4, <1>5 DEF TypeOK
<1>7. PoolsApart'
  BY <1>1, <1>2, <1>4, <1>5 DEF PoolsApart, Holding, Serving
<1>8. UNCHANGED <<ctx, ctlOf, ctl>>
  BY <1>1
<1>9. ContextsRight'
  BY <1>1, <1>2, <1>5, <1>8 DEF ContextsRight, Open
<1>10. ControllersRight'
  <2>1. \A q \in Slot : phase'[q] \in {"controller", "install", "bind", "acting", "unwinding"}
          <=> phase[q] \in {"controller", "install", "bind", "acting", "unwinding"}
    BY <1>1, <1>2
  <2>2. \A q \in Slot : Serving(q)' <=> Serving(q)
    BY <2>1 DEF Serving
  <2>3. \A q \in Slot : Serving(q) => q # r /\ phase[q] # "idle"
    BY <1>1 DEF Serving
  <2>4. \A q \in Slot : phase'[q] = phase[q] \/ phase'[q] = "idle"
    BY <1>1, <1>2
  <2> QED
    BY <1>5, <1>8, <2>2, <2>3, <2>4 DEF ControllersRight
<1>11. StacksRight'
  BY <1>1, StacksKept
<1>12. BindingsRight'
  BY <1>1, <1>2 DEF BindingsRight, NameBound
<1> QED
  BY <1>6, <1>7, <1>9, <1>10, <1>11, <1>12

-----------------------------------------------------------------------------
(* Application controllers. *)

(* Making a stack or an application controller always finds an unused name.   *)
LEMMA NamesLeft ==
  ASSUME IInv
  PROVE  /\ Stack \ Installed # {} /\ FreshApps # {}
         /\ \E f \in [1..AppStart -> FreshApps] : \A i, j \in 1..AppStart : f[i] = f[j] => i = j
<1>1. /\ cachedMap \in [Name -> Stack \cup {None}]
      /\ \A s \in Stack : stack[s].free \in Seq(App)
      /\ AppStart \in Nat /\ AppDepth \in Nat
  BY RoomAssumption DEF IInv, TypeOK, AppDepth
<1>2. Cardinality(Name) \in Nat /\ Cardinality(Controller) \in Nat /\ Cardinality(Stack) \in Nat
      /\ Cardinality(App) \in Nat
  BY EnoughAssumption, FS_CardinalityType
<1>3. Stack \ Installed # {}
  <2> DEFINE T == {cachedMap[n] : n \in Name}
  <2>1. cachedMap \in Surjection(Name, T)
    BY <1>1 DEF Surjection
  <2>2. IsFiniteSet(T) /\ Cardinality(T) <= Cardinality(Name)
    BY <2>1, EnoughAssumption, FS_Surjection
  <2>3. SUFFICES ASSUME Stack \subseteq Installed PROVE FALSE
    OBVIOUS
  <2>4. Stack \in SUBSET T
    BY <2>3 DEF Installed
  <2>5. Cardinality(Stack) <= Cardinality(T)
    BY <2>2, <2>4, FS_Subset
  <2>6. Cardinality(T) \in Nat
    BY <2>2, FS_CardinalityType
  <2> QED
    BY <1>2, <2>2, <2>5, <2>6, EnoughAssumption
<1>4. IsFiniteSet(StoredApps) /\ Cardinality(StoredApps) <= Cardinality(Name) * AppDepth
  <2> DEFINE D == Name \X (1..AppDepth)
             g == [p \in D |-> stack[cachedMap[p[1]]].free[p[2]]]
             T == {g[p] : p \in D}
  <2>1. g \in Surjection(D, T)
    BY DEF Surjection
  <2>2. IsFiniteSet(1..AppDepth) /\ Cardinality(1..AppDepth) = AppDepth
    BY <1>1, FS_Interval
  <2>3. IsFiniteSet(D) /\ Cardinality(D) = Cardinality(Name) * AppDepth
    BY <2>2, EnoughAssumption, FS_Product
  <2> HIDE DEF g, D
  <2>4. IsFiniteSet(T) /\ Cardinality(T) <= Cardinality(D)
    BY <2>1, <2>3, FS_Surjection
  <2>5. StoredApps \in SUBSET T
    <3> SUFFICES ASSUME NEW a \in StoredApps PROVE a \in T
      OBVIOUS
    <3>1. PICK n \in Name : cachedMap[n] # None /\ a \in Elements(stack[cachedMap[n]].free)
      BY DEF StoredApps, Installed
    <3>2. stack[cachedMap[n]].free \in Seq(App)
      BY <1>1, <3>1
    <3>3. PICK i \in 1..Len(stack[cachedMap[n]].free) : a = stack[cachedMap[n]].free[i]
      BY <3>1, <3>2 DEF Elements
    <3>4. i \in 1..AppDepth
      <4>1. Len(stack[cachedMap[n]].free) <= AppDepth
        BY <3>1 DEF IInv, StacksRight, StoredAs
      <4> QED
        BY <1>1, <3>2, <4>1
    <3>5. <<n, i>> \in D /\ g[<<n, i>>] = a
      BY <3>3, <3>4 DEF D, g
    <3> QED
      BY <3>5
  <2>6. IsFiniteSet(StoredApps) /\ Cardinality(StoredApps) <= Cardinality(T)
    BY <2>4, <2>5, FS_Subset
  <2>7. Cardinality(T) \in Nat /\ Cardinality(StoredApps) \in Nat /\ Cardinality(D) \in Nat
    BY <2>3, <2>4, <2>6, FS_CardinalityType
  <2> QED
    BY <2>3, <2>4, <2>6, <2>7
<1>5. IsFiniteSet(BoundApps) /\ Cardinality(BoundApps) <= Cardinality(Controller)
  <2> DEFINE g == [k \in Controller |-> ctl[k].app]
             T == {g[k] : k \in Controller}
  <2>1. g \in Surjection(Controller, T)
    BY DEF Surjection
  <2>2. BoundApps \in SUBSET T
    BY DEF BoundApps
  <2> HIDE DEF g
  <2>3. IsFiniteSet(T) /\ Cardinality(T) <= Cardinality(Controller)
    BY <2>1, EnoughAssumption, FS_Surjection
  <2>4. IsFiniteSet(BoundApps) /\ Cardinality(BoundApps) <= Cardinality(T)
    BY <2>2, <2>3, FS_Subset
  <2>5. Cardinality(T) \in Nat /\ Cardinality(BoundApps) \in Nat
    BY <2>3, <2>4, FS_CardinalityType
  <2> QED
    BY <1>2, <2>3, <2>4, <2>5
<1>6. IsFiniteSet(FreshApps) /\ Cardinality(FreshApps) > AppStart
  <2> DEFINE U == StoredApps \cup BoundApps
  <2>1. IsFiniteSet(U) /\ Cardinality(U) = Cardinality(StoredApps) + Cardinality(BoundApps)
                                           - Cardinality(StoredApps \cap BoundApps)
    BY <1>4, <1>5, FS_Union
  <2>2. IsFiniteSet(App \ U) /\ Cardinality(App \ U) = Cardinality(App) - Cardinality(App \cap U)
    BY EnoughAssumption, FS_Difference
  <2>3. IsFiniteSet(StoredApps \cap BoundApps) /\ IsFiniteSet(App \cap U)
        /\ Cardinality(App \cap U) <= Cardinality(U)
    BY <1>4, <2>1, FS_Intersection
  <2>4. {Cardinality(StoredApps), Cardinality(BoundApps), Cardinality(StoredApps \cap BoundApps),
         Cardinality(U), Cardinality(App \cap U)} \subseteq Nat
    BY <1>4, <1>5, <2>1, <2>3, FS_CardinalityType
  <2>5. PICK m \in Nat : /\ Cardinality(StoredApps) <= m
                         /\ Cardinality(App) > AppStart + Cardinality(Controller) + m
    BY <1>1, <1>2, <1>4, EnoughAssumption
  <2>6. Cardinality(U) <= Cardinality(Controller) + m
    BY <1>2, <1>5, <2>1, <2>4, <2>5
  <2> HIDE DEF U
  <2>7. Cardinality(App \ U) > AppStart
    BY <1>1, <1>2, <2>2, <2>3, <2>4, <2>5, <2>6
  <2> QED
    BY <2>2, <2>7 DEF FreshApps, U
<1>7. PICK b : b \in Bijection(1..Cardinality(FreshApps), FreshApps)
  BY <1>6, FS_CardinalityType DEF ExistsBijection
<1>8. b \in [1..Cardinality(FreshApps) -> FreshApps]
      /\ \A i, j \in 1..Cardinality(FreshApps) : b[i] = b[j] => i = j
  BY <1>7 DEF Bijection, Injection, IsInjective
<1>9. Cardinality(FreshApps) \in Nat /\ FreshApps # {}
  BY <1>1, <1>6, FS_CardinalityType, FS_EmptySet
<1> DEFINE f == [i \in 1..AppStart |-> b[i]]
<1>10. 1..AppStart \subseteq 1..Cardinality(FreshApps)
  BY <1>1, <1>6, <1>9
<1>11. f \in [1..AppStart -> FreshApps] /\ \A i, j \in 1..AppStart : f[i] = f[j] => i = j
  BY <1>8, <1>10
<1> QED
  BY <1>3, <1>9, <1>11

(* No application controller is in a stack and bound at once, or new and      *)
(* either of them.                                                            *)
LEMMA AppsApart ==
  ASSUME IInv
  PROVE  /\ \A n \in Name : cachedMap[n] # None =>
              /\ cachedMap[n] \in Stack \cap Installed /\ StoredAs(n) \in Seq(App)
              /\ \A i \in 1..Len(StoredAs(n)) : /\ StoredAs(n)[i] \in App \ FreshApps
                                                /\ \A l \in Controller : ctl[l].app # StoredAs(n)[i]
         /\ \A l \in Controller : ctl[l].app # None => ctl[l].app \in App \ FreshApps
<1> USE DEF IInv
<1>1. SUFFICES ASSUME NEW n \in Name, cachedMap[n] # None
               PROVE  /\ cachedMap[n] \in Stack \cap Installed /\ StoredAs(n) \in Seq(App)
                      /\ \A i \in 1..Len(StoredAs(n)) :
                           /\ StoredAs(n)[i] \in App \ FreshApps
                           /\ \A l \in Controller : ctl[l].app # StoredAs(n)[i]
  BY DEF TypeOK, FreshApps, BoundApps
<1>2. cachedMap[n] \in Stack \cap Installed /\ StoredAs(n) \in Seq(App)
  BY <1>1 DEF TypeOK, Installed, StoredAs
<1>3. ASSUME NEW i \in 1..Len(StoredAs(n))
      PROVE  StoredAs(n)[i] \in App /\ StoredAs(n)[i] \in StoredApps
  BY <1>2 DEF StoredApps, Elements, StoredAs
<1>4. ASSUME NEW i \in 1..Len(StoredAs(n)), NEW l \in Controller
      PROVE  ctl[l].app # StoredAs(n)[i]
  <2>1. app[StoredAs(n)[i]].controller = None
    BY <1>1 DEF StacksRight
  <2>2. StoredAs(n)[i] # None
    BY <1>3, NoneAssumption
  <2> QED
    BY <2>1, <2>2, NoneAssumption DEF BindingsRight
<1> QED
  BY <1>2, <1>3, <1>4 DEF FreshApps

LEMMA InstallStackStep ==
  ASSUME IInv, NEW r \in Slot, InstallStack(r) PROVE IInv'
<1> USE DEF IInv
<1> DEFINE t == ctl[ctlOf[r]].type
           n == NameOf[t]
           s == CHOOSE s \in Stack \ Installed : TRUE
           f == CHOOSE f \in [1..AppStart -> FreshApps] :
                  \A i, j \in 1..AppStart : f[i] = f[j] => i = j
<1>1. /\ phase[r] = "install" /\ phase' = [phase EXCEPT ![r] = "bind"]
      /\ cachedMap' = [cachedMap EXCEPT ![n] = s]
      /\ stack' = [z \in Stack |-> IF z = s THEN [type |-> t, free |-> f]
                                   ELSE IF z \in Installed' THEN stack[z] ELSE EmptyStack]
      /\ app' = [a \in App |-> IF a \in Elements(f) THEN [BlankApp EXCEPT !.type = t] ELSE app[a]]
      /\ UNCHANGED <<reuse, ctxFree, ctxOf, ctlFree, ctlOf, ctx, ctl>>
  BY DEF InstallStack, Goes
<1>2. s \in Stack \ Installed /\ f \in [1..AppStart -> FreshApps]
      /\ \A i, j \in 1..AppStart : f[i] = f[j] => i = j
  BY NamesLeft
<1> HIDE DEF s, f
<1>3. ctlOf[r] \in Controller /\ t \in Type /\ n \in Name
  <2>1. ctlOf[r] \in Controller
    BY <1>1, SlotsHold DEF Holding, Serving
  <2>2. t # None
    BY <1>1 DEF ControllersRight
  <2> QED
    BY <2>1, <2>2, NameAssumption DEF TypeOK
<1>4. AppStart \in Nat /\ AppDepth \in Nat /\ AppStart <= AppDepth
  BY RoomAssumption DEF AppDepth
<1>5. f \in Seq(App) /\ Len(f) = AppStart
      /\ \A i \in 1..Len(f) : f[i] \in FreshApps /\ f[i] \in App /\ f[i] \in Elements(f)
  BY <1>2, <1>4 DEF FreshApps, Elements
<1>6. Elements(f) \subseteq FreshApps
  BY <1>2 DEF Elements
<1>7. cachedMap' \in [Name -> Stack \cup {None}] /\ cachedMap'[n] = s
      /\ \A m \in Name \ {n} : cachedMap'[m] = cachedMap[m]
  BY <1>1, <1>2, <1>3 DEF TypeOK
<1>8. s # None /\ \A m \in Name : cachedMap[m] # s
  BY <1>2, NoneAssumption DEF Installed
<1>9. /\ \A m \in Name \ {n} : cachedMap[m] # None => stack'[cachedMap[m]] = stack[cachedMap[m]]
      /\ stack'[s] = [type |-> t, free |-> f]
  <2>1. \A m \in Name \ {n} : cachedMap[m] # None => cachedMap[m] \in Installed' /\ cachedMap[m] \in Stack
    BY <1>7 DEF Installed, TypeOK
  <2> QED
    BY <1>1, <1>2, <1>8, <2>1
<1>10. /\ \A a \in App \ FreshApps : app'[a] = app[a]
       /\ \A a \in Elements(f) : app'[a].type = t /\ app'[a].controller = None
       /\ app' \in [App -> [type : Type \cup {None}, controller : Controller \cup {None}]]
  <2>1. [BlankApp EXCEPT !.type = t] = [type |-> t, controller |-> None]
    BY DEF BlankApp
  <2>2. Elements(f) \subseteq App
    BY <1>6 DEF FreshApps
  <2> QED
    BY <1>1, <1>3, <1>6, <2>1, <2>2 DEF TypeOK
<1>11. TypeOK'
  <2>1. stack' \in [Stack -> [type : Type \cup {None}, free : Seq(App)]]
    <3>1. \A z \in Stack : stack[z] \in [type : Type \cup {None}, free : Seq(App)]
      BY DEF TypeOK
    <3>2. EmptyStack \in [type : Type \cup {None}, free : Seq(App)]
      BY DEF EmptyStack
    <3>3. [type |-> t, free |-> f] \in [type : Type \cup {None}, free : Seq(App)]
      BY <1>3, <1>5
    <3> QED
      BY <1>1, <3>1, <3>2, <3>3
  <2> QED
    BY <1>1, <1>7, <1>10, <2>1 DEF TypeOK
<1>12. phase'[r] = "bind" /\ \A q \in Slot \ {r} : phase'[q] = phase[q]
  BY <1>1 DEF TypeOK
<1>13. PoolsApart' /\ ContextsRight'
  BY <1>1, <1>12 DEF PoolsApart, ContextsRight, Holding, Serving, Open
<1>14. ControllersRight'
  BY <1>1, <1>12 DEF ControllersRight, Serving
<1> DEFINE S(m) == stack'[cachedMap'[m]].free
<1>15. \A m \in Name \ {n} : cachedMap[m] # None => S(m) = StoredAs(m)
  BY <1>7, <1>9 DEF StoredAs
<1>16. S(n) = f /\ stack'[cachedMap'[n]].type = t
  BY <1>7, <1>9
<1>17. StacksRight'
  <2>1. \A m, l \in Name : cachedMap'[m] = cachedMap'[l] /\ cachedMap'[m] # None => m = l
    BY <1>7, <1>8 DEF StacksRight
  <2>2. ASSUME NEW m \in Name, cachedMap'[m] # None
        PROVE  /\ stack'[cachedMap'[m]].type # None /\ NameOf[stack'[cachedMap'[m]].type] = m
               /\ Len(S(m)) <= AppDepth
               /\ \A i \in 1..Len(S(m)) :
                    /\ app'[S(m)[i]].controller = None
                    /\ app'[S(m)[i]].type # None /\ NameOf[app'[S(m)[i]].type] = m
    <3>1. CASE m = n
      <4>1. NameOf[t] = m /\ t # None
        BY <3>1, <1>3, NoneAssumption
      <4>2. S(m) = f /\ stack'[cachedMap'[m]].type = t
        BY <3>1, <1>16
      <4> HIDE DEF S, n
      <4>3. Len(S(m)) <= AppDepth /\ \A i \in 1..Len(S(m)) : S(m)[i] \in Elements(f)
        BY <4>2, <1>4, <1>5
      <4> HIDE DEF t
      <4> QED
        BY <4>1, <4>2, <4>3, <1>10
    <3>2. CASE m # n
      <4> HIDE DEF n, t
      <4>1. cachedMap[m] # None /\ S(m) = StoredAs(m) /\ stack'[cachedMap'[m]] = stack[cachedMap[m]]
        BY <3>2, <2>2, <1>7, <1>9, <1>15
      <4>2. \A i \in 1..Len(StoredAs(m)) : StoredAs(m)[i] \in App \ FreshApps
        BY <4>1, AppsApart
      <4> HIDE DEF S
      <4>3. \A i \in 1..Len(StoredAs(m)) : app'[StoredAs(m)[i]] = app[StoredAs(m)[i]]
        BY <4>2, <1>10
      <4> QED
        BY <4>1, <4>3 DEF StacksRight
    <3> QED
      BY <3>1, <3>2
  <2> HIDE DEF S, n, t
  <2>3. ASSUME NEW m \in Name, NEW l \in Name, cachedMap'[m] # None, cachedMap'[l] # None,
               NEW i \in 1..Len(S(m)), NEW j \in 1..Len(S(l)), S(m)[i] = S(l)[j]
        PROVE  m = l /\ i = j
    <3>1. \A d \in Name : d # n /\ cachedMap'[d] # None => cachedMap[d] # None /\ S(d) = StoredAs(d)
      BY <1>7, <1>15
    <3>2. \A d \in Name : d # n /\ cachedMap'[d] # None => \A e \in 1..Len(S(d)) : S(d)[e] \notin FreshApps
      BY <3>1, AppsApart
    <3>3. CASE m = n /\ l = n
      BY <3>3, <2>3, <1>2, <1>5, <1>16
    <3>4. CASE m # n /\ l # n
      BY <3>4, <2>3, <3>1 DEF StacksRight
    <3>5. CASE m = n /\ l # n
      BY <3>5, <2>3, <3>2, <1>5, <1>16
    <3>6. CASE m # n /\ l = n
      BY <3>6, <2>3, <3>2, <1>5, <1>16
    <3> QED
      BY <3>3, <3>4, <3>5, <3>6
  <2> USE DEF S
  <2> QED
    BY <2>1, <2>2, <2>3 DEF StacksRight, StoredAs
<1>18. BindingsRight'
  <2>1. UNCHANGED <<reuse, ctlOf, ctl>>
    BY <1>1
  <2>2. \A m \in Name : cachedMap[m] # None => cachedMap'[m] # None
    BY <1>7, <1>8
  <2>3. \A k \in Controller : ctl[k].app # None =>
          ctl[k].type \in Type /\ NameOf[ctl[k].type] \in Name /\ app'[ctl[k].app] = app[ctl[k].app]
    BY <1>10, AppsApart, NameAssumption DEF BindingsRight, TypeOK
  <2>4. \A q \in Slot : phase[q] = "bind" => NameBound(q) \in Name
    <3> SUFFICES ASSUME NEW q \in Slot, phase[q] = "bind" PROVE NameBound(q) \in Name
      OBVIOUS
    <3>1. ctlOf[q] \in Controller /\ ctl[ctlOf[q]].type # None
      BY SlotsHold DEF Holding, Serving, ControllersRight
    <3> QED
      BY <3>1, NameAssumption DEF NameBound, TypeOK
  <2>5. NameBound(r)' = n
    BY <2>1 DEF NameBound
  <2> QED
    BY <1>7, <1>8, <1>12, <2>1, <2>2, <2>3, <2>4, <2>5 DEF BindingsRight, NameBound
<1> QED
  BY <1>11, <1>13, <1>14, <1>17, <1>18

-----------------------------------------------------------------------------
(* SetTypeAction: pop an application controller and bind it. *)

(* g is f, or f without its last element, and does not hold a.                *)
OnlyFrom(g, f, a) == /\ Len(g) <= Len(f)
                     /\ \A i \in 1..Len(g) : i \in 1..Len(f) /\ g[i] = f[i] /\ g[i] # a

(* Popped or made, it is bound to no controller and left in no stack, and it   *)
(* is of a type of the name looked up, of the very type without reuse.         *)
LEMMA PoppedFacts ==
  ASSUME IInv, NEW r \in Slot, PopApp(r)
  PROVE  \E a \in App, ty \in Type :
           /\ ctl' = [ctl EXCEPT ![ctlOf[r]].app = a]
           /\ app' = [app EXCEPT ![a] = [type |-> ty, controller |-> ctlOf[r]]]
           /\ \A l \in Controller : ctl[l].app # a
           /\ NameOf[ty] = NameOf[ctl[ctlOf[r]].type]
           /\ ~reuse => ty = ctl[ctlOf[r]].type
           /\ stack' \in [Stack -> [type : Type \cup {None}, free : Seq(App)]]
           /\ \A n \in Name : cachedMap[n] # None =>
                /\ stack'[cachedMap[n]].type = stack[cachedMap[n]].type
                /\ OnlyFrom(stack'[cachedMap[n]].free, StoredAs(n), a)
<1> DEFINE k == ctlOf[r]
           n == NameOf[ctl[k].type]
           s == cachedMap[n]
<1>1. phase[r] = "bind"
  BY DEF PopApp, Goes
<1>2. k \in Controller /\ ctl[k].type \in Type /\ n \in Name
  <2>1. k \in Controller
    BY <1>1, SlotsHold DEF Holding, Serving
  <2>2. ctl[k].type # None
    BY <1>1 DEF IInv, ControllersRight
  <2> QED
    BY <2>1, <2>2, NameAssumption DEF IInv, TypeOK
<1>3. reuse => s # None /\ s \in Stack
  <2>1. reuse => s # None
    BY <1>1 DEF IInv, BindingsRight, NameBound
  <2>2. s # None => s \in Stack
    BY <1>2 DEF IInv, TypeOK
  <2> QED
    BY <2>1, <2>2
<1>4. \A m \in Name : cachedMap[m] # None =>
        /\ StoredAs(m) \in Seq(App) /\ cachedMap[m] \in Stack
        /\ \A i \in 1..Len(StoredAs(m)) : StoredAs(m)[i] \in App \ FreshApps
  BY AppsApart
<1>5. stack \in [Stack -> [type : Type \cup {None}, free : Seq(App)]]
  BY DEF IInv, TypeOK
<1>6. CASE reuse /\ stack[s].free # << >>
  <2> DEFINE f == stack[s].free
             a == f[Len(f)]
  <2>1. stack' = [stack EXCEPT ![s].free = SubSeq(f, 1, Len(f) - 1)] /\ Bound(r, a, app[a].type)
    BY <1>6 DEF PopApp, NameBound, Apps!Taken
  <2>2. f \in Seq(App) /\ f = StoredAs(n) /\ Len(f) \in 1..Len(f)
    <3>1. f \in Seq(App) /\ f = StoredAs(n)
      BY <1>2, <1>3, <1>4, <1>6 DEF StoredAs
    <3> HIDE DEF f
    <3>2. f # << >>
      BY <1>6 DEF f
    <3> QED
      BY <3>1, <3>2
  <2>3. a \in App /\ \A l \in Controller : ctl[l].app # a
    BY <1>2, <1>3, <1>6, <2>2, AppsApart
  <2>4. app[a].type \in Type /\ NameOf[app[a].type] = n
    <3>1. app[StoredAs(n)[Len(f)]].type # None /\ NameOf[app[StoredAs(n)[Len(f)]].type] = n
      BY <1>2, <1>3, <1>6, <2>2, ZenonT(60) DEF IInv, StacksRight
    <3> QED
      BY <2>2, <2>3, <3>1 DEF IInv, TypeOK
  <2> DEFINE g == SubSeq(f, 1, Len(f) - 1)
  <2>5. g \in Seq(App) /\ Len(g) = Len(f) - 1 /\ \A i \in 1..Len(g) : i \in 1..Len(f) /\ g[i] = f[i]
    BY <1>6, <2>2, FrontFacts
  <2> HIDE DEF g
  <2>6. /\ stack' \in [Stack -> [type : Type \cup {None}, free : Seq(App)]]
        /\ stack'[s].free = g /\ stack'[s].type = stack[s].type
        /\ \A z \in Stack \ {s} : stack'[z] = stack[z]
    BY <1>3, <1>5, <1>6, <2>1, <2>5, ZenonT(60) DEF g
  <2>7. \A m \in Name : cachedMap[m] # None /\ m # n => cachedMap[m] # s
    BY <1>2 DEF IInv, StacksRight
  <2>8. ASSUME NEW m \in Name, cachedMap[m] # None
        PROVE  /\ stack'[cachedMap[m]].type = stack[cachedMap[m]].type
               /\ OnlyFrom(stack'[cachedMap[m]].free, StoredAs(m), a)
    <3>1. CASE m = n
      <4>1. \A i \in 1..Len(g) : f[i] # f[Len(f)]
        <5> SUFFICES ASSUME NEW i \in 1..Len(g), f[i] = f[Len(f)] PROVE FALSE
          OBVIOUS
        <5>1. i \in 1..Len(StoredAs(n)) /\ Len(f) \in 1..Len(StoredAs(n)) /\ i # Len(f)
          <6>1. f = StoredAs(n) /\ Len(f) \in 1..Len(f) /\ Len(g) = Len(f) - 1
            BY <2>2, <2>5
          <6> HIDE DEF f
          <6>2. i \in 1..Len(f) /\ i # Len(f)
            BY <6>1
          <6> QED
            BY <6>1, <6>2
        <5>2. ASSUME NEW b \in Name, cachedMap[b] # None,
                     NEW j \in 1..Len(StoredAs(b)), NEW l \in 1..Len(StoredAs(b)),
                     StoredAs(b)[j] = StoredAs(b)[l]
              PROVE  j = l
          <6>1. \A d, e \in Name : cachedMap[d] # None /\ cachedMap[e] # None =>
                  \A x \in 1..Len(StoredAs(d)), y \in 1..Len(StoredAs(e)) :
                    StoredAs(d)[x] = StoredAs(e)[y] => d = e /\ x = y
            BY Zenon DEF IInv, StacksRight
          <6> QED
            BY <5>2, <6>1, ZenonT(60)
        <5>3. \A j, l \in 1..Len(StoredAs(n)) : StoredAs(n)[j] = StoredAs(n)[l] => j = l
          BY <1>2, <1>3, <1>6, <5>2
        <5> QED
          BY <2>2, <5>1, <5>3
      <4> QED
        <5> HIDE DEF f
        <5>1. OnlyFrom(g, f, a)
          <6>1. f = StoredAs(n) /\ Len(g) <= Len(f) /\ a = f[Len(f)]
            <7>1. f = StoredAs(n) /\ Len(f) \in 1..Len(f) /\ Len(g) = Len(f) - 1
              BY <2>2, <2>5
            <7> QED
              BY <7>1
          <6>2. \A i \in 1..Len(g) : i \in 1..Len(f) /\ g[i] = f[i] /\ g[i] # a
            BY <2>5, <4>1, <6>1, Zenon
          <6> QED
            BY <6>1, <6>2, Zenon DEF OnlyFrom
        <5> HIDE DEF a
        <5> QED
          BY <3>1, <2>2, <2>6, <5>1
    <3>2. CASE m # n
      <4>1. stack'[cachedMap[m]] = stack[cachedMap[m]]
        BY <3>2, <2>6, <2>7, <2>8, <1>4
      <4>2. \A i \in 1..Len(StoredAs(m)) : StoredAs(m)[i] # a
        <5>1. \A i \in 1..Len(StoredAs(m)), j \in 1..Len(StoredAs(n)) : StoredAs(m)[i] # StoredAs(n)[j]
          BY <3>2, <2>8, <1>2, <1>3, <1>6 DEF IInv, StacksRight
        <5> QED
          BY <2>2, <5>1
      <4>3. Len(StoredAs(m)) \in Nat
        BY <1>4, <2>8
      <4> QED
        <5>1. stack'[cachedMap[m]].free = StoredAs(m)
          BY <4>1 DEF StoredAs
        <5>2. OnlyFrom(StoredAs(m), StoredAs(m), a)
          <6>1. Len(StoredAs(m)) <= Len(StoredAs(m))
            BY <4>3
          <6> QED
            BY <4>2, <6>1, Zenon DEF OnlyFrom
        <5> QED
          BY <4>1, <5>1, <5>2, Zenon
    <3> QED
      BY <3>1, <3>2
  <2>9. /\ ctl' = [ctl EXCEPT ![k].app = a]
        /\ app' = [app EXCEPT ![a] = [type |-> app[a].type, controller |-> k]]
    BY <2>1 DEF Bound
  <2> HIDE DEF f, a, s
  <2> QED
    BY <1>6, <2>3, <2>4, <2>6, <2>8, <2>9
<1>7. ASSUME NEW ty \in Type, NEW a \in FreshApps, Bound(r, a, ty), UNCHANGED stack,
             NameOf[ty] = n, ~reuse => ty = ctl[k].type
      PROVE  \E b \in App, tb \in Type :
           /\ ctl' = [ctl EXCEPT ![ctlOf[r]].app = b]
           /\ app' = [app EXCEPT ![b] = [type |-> tb, controller |-> ctlOf[r]]]
           /\ \A l \in Controller : ctl[l].app # b
           /\ NameOf[tb] = NameOf[ctl[ctlOf[r]].type]
           /\ ~reuse => tb = ctl[ctlOf[r]].type
           /\ stack' \in [Stack -> [type : Type \cup {None}, free : Seq(App)]]
           /\ \A m \in Name : cachedMap[m] # None =>
                /\ stack'[cachedMap[m]].type = stack[cachedMap[m]].type
                /\ OnlyFrom(stack'[cachedMap[m]].free, StoredAs(m), b)
  <2>1. a \in App /\ \A l \in Controller : ctl[l].app # a
    BY <1>7, AppsApart, NoneAssumption DEF FreshApps
  <2>2. ASSUME NEW m \in Name, cachedMap[m] # None
        PROVE  /\ stack'[cachedMap[m]].type = stack[cachedMap[m]].type
               /\ OnlyFrom(stack'[cachedMap[m]].free, StoredAs(m), a)
    <3>1. stack'[cachedMap[m]].free = StoredAs(m) /\ Len(StoredAs(m)) \in Nat
      BY <1>4, <1>7, <2>2 DEF StoredAs
    <3> QED
      BY <3>1, <1>4, <1>7, <2>2 DEF OnlyFrom
  <2> QED
    BY <1>5, <1>7, <2>1, <2>2 DEF Bound
<1>8. PICK a \in FreshApps : a = CHOOSE b \in FreshApps : TRUE
  BY NamesLeft
<1>9. CASE reuse /\ stack[s].free = << >>
  <2>1. Bound(r, a, stack[s].type) /\ UNCHANGED stack
    BY <1>8, <1>9 DEF PopApp, NameBound
  <2>2. stack[s].type \in Type /\ NameOf[stack[s].type] = n
    <3>1. \A m \in Name : cachedMap[m] # None =>
            stack[cachedMap[m]].type # None /\ NameOf[stack[cachedMap[m]].type] = m
      BY DEF IInv, StacksRight
    <3>2. stack[s].type # None /\ NameOf[stack[s].type] = n
      BY <1>2, <1>3, <1>9, <3>1
    <3> QED
      BY <1>3, <1>5, <1>9, <3>2
  <2> HIDE DEF n, s, k
  <2> QED
    BY <1>7, <1>9, <2>1, <2>2
<1>10. CASE ~reuse
  <2>1. Bound(r, a, ctl[k].type) /\ UNCHANGED stack
    BY <1>8, <1>10 DEF PopApp
  <2> QED
    BY <1>2, <1>7, <2>1
<1> QED
  BY <1>6, <1>9, <1>10

LEMMA PopAppStep ==
  ASSUME IInv, NEW r \in Slot, PopApp(r) PROVE IInv'
<1> USE DEF IInv
<1> DEFINE k == ctlOf[r]
<1>1. /\ phase[r] = "bind" /\ phase' = [phase EXCEPT ![r] = "acting"]
      /\ UNCHANGED <<reuse, ctxFree, ctxOf, ctlFree, ctlOf, cachedMap, ctx>>
  BY DEF PopApp, Goes
<1>2. phase'[r] = "acting" /\ \A q \in Slot \ {r} : phase'[q] = phase[q]
  BY <1>1 DEF TypeOK
<1>3. /\ Serving(r) /\ k \in Controller /\ ctl[k].type \in Type
      /\ \A q \in Slot \ {r} : ctlOf[q] # k
  <2>1. Serving(r) /\ k \in Controller /\ \A q \in Slot \ {r} : ctlOf[q] # k
    BY <1>1, SlotsHold DEF Holding, Serving
  <2>2. ctl[k].type # None
    BY <1>1 DEF ControllersRight
  <2> QED
    BY <2>1, <2>2 DEF TypeOK
<1>4. PICK a \in App, ty \in Type :
        /\ ctl' = [ctl EXCEPT ![k].app = a]
        /\ app' = [app EXCEPT ![a] = [type |-> ty, controller |-> k]]
        /\ \A l \in Controller : ctl[l].app # a
        /\ NameOf[ty] = NameOf[ctl[k].type]
        /\ ~reuse => ty = ctl[k].type
        /\ stack' \in [Stack -> [type : Type \cup {None}, free : Seq(App)]]
        /\ \A n \in Name : cachedMap[n] # None =>
             /\ stack'[cachedMap[n]].type = stack[cachedMap[n]].type
             /\ OnlyFrom(stack'[cachedMap[n]].free, StoredAs(n), a)
  BY PoppedFacts
<1> DEFINE S(n) == stack'[cachedMap[n]].free
<1>5. /\ ctl' \in [Controller -> Fields] /\ \A l \in Controller \ {k} : ctl'[l] = ctl[l]
      /\ ctl'[k].in = ctl[k].in /\ ctl'[k].out = ctl[k].out /\ ctl'[k].socket = ctl[k].socket
      /\ ctl'[k].type = ctl[k].type /\ ctl'[k].app = a
  <2>1. ctl \in [Controller -> Fields]
    BY DEF TypeOK, Fields
  <2>2. \A c \in Fields : LET d == [c EXCEPT !.app = a] IN
          /\ d \in Fields /\ d.in = c.in /\ d.out = c.out /\ d.socket = c.socket
          /\ d.type = c.type /\ d.app = a
    BY DEF Fields
  <2>3. ctl' = [ctl EXCEPT ![k] = [ctl[k] EXCEPT !.app = a]]
    BY <1>4
  <2> HIDE DEF IInv
  <2> QED
    BY <2>1, <2>2, <2>3, <1>3
<1>6. /\ app' \in [App -> [type : Type \cup {None}, controller : Controller \cup {None}]]
      /\ app'[a].type = ty /\ app'[a].controller = k
      /\ \A b \in App \ {a} : app'[b] = app[b]
  BY <1>3, <1>4 DEF TypeOK
<1>7. a # None /\ ty # None
  BY NoneAssumption
<1>8. /\ \A n \in Name : cachedMap[n] # None =>
           /\ stack'[cachedMap[n]].type = stack[cachedMap[n]].type
           /\ Len(S(n)) <= Len(StoredAs(n))
           /\ \A i \in 1..Len(S(n)) : i \in 1..Len(StoredAs(n)) /\ S(n)[i] = StoredAs(n)[i] /\ S(n)[i] # a
      /\ \A l \in Controller : ctl[l].app # a
      /\ NameOf[ty] = NameOf[ctl[k].type]
      /\ ~reuse => ty = ctl[k].type
  BY <1>4 DEF OnlyFrom
<1> HIDE DEF S
<1>9. TypeOK'
  BY <1>1, <1>4, <1>5, <1>6 DEF TypeOK, Fields
<1>10. PoolsApart' /\ ContextsRight'
  BY <1>1, <1>2 DEF PoolsApart, ContextsRight, Holding, Serving, Open
<1>11. ControllersRight'
  <2>1. UNCHANGED <<ctx, ctxOf, ctlOf>>
    BY <1>1
  <2>2. \A q \in Slot : Serving(q)' <=> Serving(q)
    BY <1>1, <1>2 DEF Serving
  <2>3. \A q \in Slot \ {r} : Serving(q) => ctl'[ctlOf[q]] = ctl[ctlOf[q]]
    BY <1>3, <1>5, SlotsHold DEF Holding
  <2>4. \A q \in Slot : Serving(q) =>
          /\ ctl'[ctlOf[q]].in = ctl[ctlOf[q]].in /\ ctl'[ctlOf[q]].out = ctl[ctlOf[q]].out
          /\ ctl'[ctlOf[q]].socket = ctl[ctlOf[q]].socket /\ ctl'[ctlOf[q]].type = ctl[ctlOf[q]].type
    BY <1>5, <2>3
  <2>5. \A q \in Slot : phase'[q] \in {"install", "bind", "acting"} => Serving(q) /\ ctl[ctlOf[q]].type # None
    BY <1>1, <1>2 DEF Serving, ControllersRight
  <2>6. \A q \in Slot : phase'[q] \in {"controller", "install", "bind"} =>
           q # r /\ Serving(q) /\ ctl[ctlOf[q]].app = None
    BY <1>1, <1>2 DEF Serving, ControllersRight
  <2>7. \A q \in Slot : phase'[q] = "acting" => ctl'[ctlOf[q]].app # None
    BY <1>2, <1>5, <1>7, <2>3 DEF Serving, ControllersRight
  <2>8. \A l \in Controller \ {k} :
           \/ \E q \in Slot : Serving(q)' /\ ctlOf[q] = l
           \/ ctl'[l].in = None /\ ctl'[l].type = None /\ ctl'[l].app = None
    BY <1>5, <2>2 DEF ControllersRight
  <2>9. Serving(r)' /\ ctlOf[r] = k
    BY <1>3, <2>2
  <2>10. \A q \in Slot : Serving(q)' =>
           /\ ctl'[ctlOf[q]].in = ctxOf[q] /\ ctl'[ctlOf[q]].out = ctxOf[q]
           /\ ctl'[ctlOf[q]].socket = ctx[ctxOf[q]].socket
    BY <2>2, <2>4 DEF ControllersRight
  <2> QED
    BY <2>1, <2>3, <2>4, <2>5, <2>6, <2>7, <2>8, <2>9, <2>10 DEF ControllersRight
<1>12. StacksRight'
  <2>1. ASSUME NEW m \in Name, cachedMap[m] # None
        PROVE  /\ stack'[cachedMap[m]].type # None /\ NameOf[stack'[cachedMap[m]].type] = m
               /\ Len(S(m)) <= AppDepth
               /\ \A i \in 1..Len(S(m)) :
                    /\ app'[S(m)[i]].controller = None
                    /\ app'[S(m)[i]].type # None /\ NameOf[app'[S(m)[i]].type] = m
    <3>1. stack'[cachedMap[m]].type # None /\ NameOf[stack'[cachedMap[m]].type] = m
      BY <2>1, <1>8 DEF StacksRight
    <3>2. Len(S(m)) <= AppDepth
      <4>1. Len(S(m)) \in Nat /\ Len(StoredAs(m)) \in Nat /\ AppDepth \in Nat
        BY <2>1, <1>4, AppsApart, RoomAssumption DEF S, AppDepth
      <4> QED
        BY <4>1, <2>1, <1>8 DEF StacksRight
    <3>3. \A i \in 1..Len(S(m)) : app'[S(m)[i]] = app[StoredAs(m)[i]]
      BY <2>1, <1>6, <1>8, AppsApart
    <3> QED
      BY <2>1, <1>8, <3>1, <3>2, <3>3 DEF StacksRight
  <2>2. ASSUME NEW m \in Name, NEW l \in Name, cachedMap[m] # None, cachedMap[l] # None,
               NEW i \in 1..Len(S(m)), NEW j \in 1..Len(S(l)), S(m)[i] = S(l)[j]
        PROVE  m = l /\ i = j
    BY <2>2, <1>8 DEF StacksRight
  <2>3. \A m, l \in Name : cachedMap[m] = cachedMap[l] /\ cachedMap[m] # None => m = l
    BY DEF StacksRight
  <2>4. UNCHANGED cachedMap
    BY <1>1
  <2>5. \A m \in Name : StoredAs(m)' = S(m)
    BY <2>4 DEF StoredAs, S
  <2> QED
    BY <2>1, <2>2, <2>3, <2>4, <2>5 DEF StacksRight
<1>13. BindingsRight'
  <2>1. UNCHANGED <<reuse, ctlOf, cachedMap>>
    BY <1>1
  <2>2. \A l \in Controller \ {k} : ctl'[l] = ctl[l] /\ (ctl[l].app # None => app'[ctl[l].app] = app[ctl[l].app])
    <3>1. \A l \in Controller : ctl[l].app # None => ctl[l].app \in App \ {a}
      BY <1>8 DEF TypeOK
    <3> QED
      BY <1>5, <1>6, <3>1
  <2>3. reuse => cachedMap[NameOf[ctl[k].type]] # None
    BY <1>1 DEF BindingsRight, NameBound
  <2>4. /\ app'[ctl'[k].app].controller = k
        /\ ctl'[k].type # None /\ app'[ctl'[k].app].type # None
        /\ NameOf[app'[ctl'[k].app].type] = NameOf[ctl'[k].type]
        /\ reuse => cachedMap[NameOf[ctl'[k].type]] # None
        /\ ~reuse => app'[ctl'[k].app].type = ctl'[k].type
    BY <1>3, <1>5, <1>6, <1>7, <1>8, <2>3, NoneAssumption
  <2>5. \A l \in Controller \ {k} : ctl'[l].app # None =>
          /\ app'[ctl'[l].app].controller = l
          /\ ctl'[l].type # None /\ app'[ctl'[l].app].type # None
          /\ NameOf[app'[ctl'[l].app].type] = NameOf[ctl'[l].type]
          /\ reuse => cachedMap[NameOf[ctl'[l].type]] # None
          /\ ~reuse => app'[ctl'[l].app].type = ctl'[l].type
    BY <2>2 DEF BindingsRight
  <2>6. \A q \in Slot : reuse /\ phase'[q] = "bind" => cachedMap[NameOf[ctl'[ctlOf[q]].type]] # None
    <3>1. \A q \in Slot : phase'[q] = "bind" => phase[q] = "bind" /\ q # r /\ ctl'[ctlOf[q]] = ctl[ctlOf[q]]
      <4>1. \A q \in Slot : phase'[q] = "bind" => phase[q] = "bind" /\ q # r
        BY <1>2
      <4> QED
        BY <4>1, <1>3, <1>5, SlotsHold DEF Holding, Serving
    <3> QED
      BY <3>1 DEF BindingsRight, NameBound
  <2> QED
    BY <2>1, <2>4, <2>5, <2>6 DEF BindingsRight, NameBound
<1> QED
  BY <1>9, <1>10, <1>11, <1>12, <1>13

-----------------------------------------------------------------------------
(* Controller.Destroy: return the application controller. *)

LEMMA ReturnAppStep ==
  ASSUME IInv, NEW r \in Slot, ReturnApp(r) PROVE IInv'
<1> USE DEF IInv
<1> DEFINE k == ctlOf[r]
           n == NameOf[ctl[k].type]
           S(m) == stack'[cachedMap[m]].free
<1>1. /\ reuse /\ phase[r] = "unwinding"
      /\ UNCHANGED <<phase, reuse, ctxFree, ctxOf, ctlFree, ctlOf, cachedMap, ctx>>
  BY DEF ReturnApp
<1>2. PICK a : a = ctl[k].app /\ a # None
  BY DEF ReturnApp
<1>3. /\ app' = [app EXCEPT ![a].controller = None]
      /\ ctl' = [ctl EXCEPT ![k].app = None]
      /\ stack' = [stack EXCEPT ![cachedMap[n]].free = Apps!Returned(@, a)]
  BY <1>2 DEF ReturnApp, NameBound
<1>4. Serving(r) /\ k \in Controller /\ \A q \in Slot \ {r} : ctlOf[q] # k
  BY <1>1, SlotsHold DEF Holding, Serving
<1>5. /\ a \in App /\ app[a].controller = k /\ app[a].type # None /\ NameOf[app[a].type] = n
      /\ n \in Name /\ cachedMap[n] # None /\ cachedMap[n] \in Stack
  <2>1. a \in App /\ ctl[k].type \in Type \cup {None}
    BY <1>2, <1>4 DEF TypeOK
  <2>2. /\ app[a].controller = k /\ app[a].type # None /\ NameOf[app[a].type] = n
        /\ ctl[k].type # None /\ cachedMap[n] # None
    BY <1>1, <1>2, <1>4 DEF BindingsRight
  <2>3. n \in Name
    BY <2>1, <2>2, NameAssumption
  <2> QED
    BY <2>1, <2>2, <2>3 DEF TypeOK
<1>6. \A l \in Controller \ {k} : ctl[l].app # a
  BY <1>2, <1>5 DEF BindingsRight
<1>7. \A m \in Name : cachedMap[m] # None =>
        /\ StoredAs(m) \in Seq(App) /\ Len(StoredAs(m)) \in Nat /\ Len(StoredAs(m)) <= AppDepth
        /\ \A i \in 1..Len(StoredAs(m)) : StoredAs(m)[i] \in App /\ StoredAs(m)[i] # a
  <2> SUFFICES ASSUME NEW m \in Name, cachedMap[m] # None
               PROVE  /\ StoredAs(m) \in Seq(App) /\ Len(StoredAs(m)) \in Nat
                      /\ Len(StoredAs(m)) <= AppDepth
                      /\ \A i \in 1..Len(StoredAs(m)) : StoredAs(m)[i] \in App /\ StoredAs(m)[i] # a
    OBVIOUS
  <2>1. StoredAs(m) \in Seq(App)
    BY AppsApart
  <2>2. /\ Len(StoredAs(m)) <= AppDepth
        /\ \A i \in 1..Len(StoredAs(m)) : app[StoredAs(m)[i]].controller = None
    BY DEF StacksRight
  <2>3. app[a].controller # None
    BY <1>4, <1>5, NoneAssumption
  <2> QED
    BY <2>1, <2>2, <2>3
<1>8. /\ stack' \in [Stack -> [type : Type \cup {None}, free : Seq(App)]]
      /\ stack'[cachedMap[n]].type = stack[cachedMap[n]].type
      /\ \/ S(n) = StoredAs(n)
         \/ Len(StoredAs(n)) < AppRoom /\ S(n) = Append(StoredAs(n), a)
      /\ \A z \in Stack \ {cachedMap[n]} : stack'[z] = stack[z]
  <2>1. stack \in [Stack -> [type : Type \cup {None}, free : Seq(App)]]
    BY DEF TypeOK
  <2>2. PICK z \in Stack : z = cachedMap[n]
    BY <1>5
  <2>3. PICK g \in Seq(App) :
          /\ \/ g = stack[z].free
             \/ Len(stack[z].free) < AppRoom /\ g = Append(stack[z].free, a)
          /\ stack' = [stack EXCEPT ![z].free = g]
    <3>1. stack[z].free \in Seq(App)
      BY <2>1
    <3>2. /\ Apps!Returned(stack[z].free, a) \in Seq(App)
          /\ \/ Apps!Returned(stack[z].free, a) = stack[z].free
             \/ /\ Len(stack[z].free) < AppRoom
                /\ Apps!Returned(stack[z].free, a) = Append(stack[z].free, a)
      BY <3>1, <1>5 DEF Apps!Returned
    <3>3. stack' = [stack EXCEPT ![z].free = Apps!Returned(stack[z].free, a)]
      BY <1>3, <2>2
    <3> DEFINE h == Apps!Returned(stack[z].free, a)
    <3>4. /\ h \in Seq(App) /\ stack' = [stack EXCEPT ![z].free = h]
          /\ \/ h = stack[z].free
             \/ Len(stack[z].free) < AppRoom /\ h = Append(stack[z].free, a)
      BY <3>2, <3>3
    <3> HIDE DEF h
    <3> QED
      BY <3>4
  <2> HIDE DEF n
  <2>4. /\ stack' \in [Stack -> [type : Type \cup {None}, free : Seq(App)]]
        /\ stack'[z].type = stack[z].type /\ stack'[z].free = g
        /\ \A y \in Stack \ {z} : stack'[y] = stack[y]
    BY <2>1, <2>3
  <2> QED
    BY <2>2, <2>3, <2>4 DEF StoredAs
<1>9. \A m \in Name \ {n} : cachedMap[m] # None =>
        S(m) = StoredAs(m) /\ stack'[cachedMap[m]].type = stack[cachedMap[m]].type
  <2>1. \A m \in Name \ {n} : cachedMap[m] # None => cachedMap[m] \in Stack \ {cachedMap[n]}
    BY <1>5 DEF StacksRight, TypeOK
  <2> QED
    BY <2>1, <1>8 DEF StoredAs
<1> HIDE DEF S
<1>10. ASSUME NEW m \in Name, cachedMap[m] # None
       PROVE  /\ Len(S(m)) \in Nat /\ Len(S(m)) <= AppDepth
              /\ \A i \in 1..Len(S(m)) :
                   \/ i \in 1..Len(StoredAs(m)) /\ S(m)[i] = StoredAs(m)[i]
                   \/ i = Len(StoredAs(m)) + 1 /\ S(m)[i] = a /\ m = n
  <2>1. AppRoom \in Nat /\ AppDepth \in Nat /\ AppRoom <= AppDepth
    BY RoomAssumption DEF AppDepth
  <2>2. /\ StoredAs(m) \in Seq(App) /\ Len(StoredAs(m)) \in Nat /\ Len(StoredAs(m)) <= AppDepth
    BY <1>7, <1>10
  <2>3. CASE S(m) = StoredAs(m)
    BY <2>2, <2>3
  <2>4. CASE m = n /\ Len(StoredAs(n)) < AppRoom /\ S(n) = Append(StoredAs(n), a)
    <3> HIDE DEF n
    <3>1. Len(StoredAs(m)) < AppRoom /\ S(m) = Append(StoredAs(m), a)
      BY <2>4
    <3>2. Len(S(m)) = Len(StoredAs(m)) + 1 /\ S(m)[Len(StoredAs(m)) + 1] = a
          /\ \A i \in 1..Len(StoredAs(m)) : S(m)[i] = StoredAs(m)[i]
      BY <3>1, <2>2, <1>5
    <3>3. \A i \in 1..Len(S(m)) : i \in 1..Len(StoredAs(m)) \/ i = Len(StoredAs(m)) + 1
      BY <3>2, <2>2
    <3>4. Len(S(m)) \in Nat /\ Len(S(m)) <= AppDepth
      BY <2>1, <2>2, <3>1, <3>2
    <3> QED
      BY <2>4, <3>2, <3>3, <3>4
  <2> QED
    BY <1>8, <1>9, <1>10, <2>3, <2>4
<1>11. /\ ctl' \in [Controller -> Fields] /\ \A l \in Controller \ {k} : ctl'[l] = ctl[l]
       /\ ctl'[k].in = ctl[k].in /\ ctl'[k].out = ctl[k].out /\ ctl'[k].socket = ctl[k].socket
       /\ ctl'[k].type = ctl[k].type /\ ctl'[k].app = None
  <2>1. ctl \in [Controller -> Fields]
    BY DEF TypeOK, Fields
  <2>2. \A c \in Fields : LET d == [c EXCEPT !.app = None] IN
          /\ d \in Fields /\ d.in = c.in /\ d.out = c.out /\ d.socket = c.socket
          /\ d.type = c.type /\ d.app = None
    BY DEF Fields
  <2>3. ctl' = [ctl EXCEPT ![k] = [ctl[k] EXCEPT !.app = None]]
    BY <1>3
  <2> HIDE DEF IInv
  <2> QED
    BY <2>1, <2>2, <2>3, <1>4
<1>12. /\ app' \in [App -> [type : Type \cup {None}, controller : Controller \cup {None}]]
       /\ app'[a].type = app[a].type /\ app'[a].controller = None
       /\ \A b \in App \ {a} : app'[b] = app[b]
  <2>1. app \in [App -> [type : Type \cup {None}, controller : Controller \cup {None}]]
    BY DEF TypeOK
  <2> QED
    BY <1>3, <1>5, <2>1
<1>13. TypeOK'
  BY <1>1, <1>8, <1>11, <1>12 DEF TypeOK, Fields
<1>14. PoolsApart' /\ ContextsRight'
  BY <1>1 DEF PoolsApart, ContextsRight, Holding, Serving, Open
<1>15. ControllersRight'
  <2>1. UNCHANGED <<phase, ctx, ctxOf, ctlOf>>
    BY <1>1
  <2>2. \A q \in Slot \ {r} : Serving(q) => ctl'[ctlOf[q]] = ctl[ctlOf[q]]
    BY <1>4, <1>11, SlotsHold DEF Holding
  <2>3. \A q \in Slot : Serving(q) =>
          /\ ctl'[ctlOf[q]].in = ctxOf[q] /\ ctl'[ctlOf[q]].out = ctxOf[q]
          /\ ctl'[ctlOf[q]].socket = ctx[ctxOf[q]].socket
    BY <1>11, <2>2 DEF ControllersRight
  <2>4. \A l \in Controller :
           \/ \E q \in Slot : Serving(q) /\ ctlOf[q] = l
           \/ ctl'[l].in = None /\ ctl'[l].type = None /\ ctl'[l].app = None
    BY <1>4, <1>11 DEF ControllersRight
  <2>5. \A q \in Slot : phase[q] \in {"controller", "install", "bind", "acting"} => q # r /\ Serving(q)
    BY <1>1 DEF Serving
  <2>6. /\ \A q \in Slot : phase[q] \in {"install", "bind", "acting"} => ctl'[ctlOf[q]].type # None
        /\ \A q \in Slot : phase[q] \in {"controller", "install", "bind"} => ctl'[ctlOf[q]].app = None
        /\ \A q \in Slot : phase[q] = "acting" => ctl'[ctlOf[q]].app # None
    BY <2>2, <2>5 DEF ControllersRight
  <2> QED
    BY <2>1, <2>3, <2>4, <2>6 DEF ControllersRight, Serving
<1>16. StacksRight'
  <2>1. ASSUME NEW m \in Name, cachedMap[m] # None
        PROVE  /\ stack'[cachedMap[m]].type # None /\ NameOf[stack'[cachedMap[m]].type] = m
               /\ Len(S(m)) <= AppDepth
               /\ \A i \in 1..Len(S(m)) :
                    /\ app'[S(m)[i]].controller = None
                    /\ app'[S(m)[i]].type # None /\ NameOf[app'[S(m)[i]].type] = m
    <3>1. stack'[cachedMap[m]].type # None /\ NameOf[stack'[cachedMap[m]].type] = m
      <4>1. stack'[cachedMap[m]].type = stack[cachedMap[m]].type
        BY <2>1, <1>8, <1>9
      <4> HIDE DEF n, k
      <4> QED
        BY <2>1, <4>1 DEF StacksRight
    <3>2. \A i \in 1..Len(StoredAs(m)) : app'[StoredAs(m)[i]] = app[StoredAs(m)[i]]
      BY <2>1, <1>7, <1>12
    <3>3. \A i \in 1..Len(StoredAs(m)) :
            /\ app[StoredAs(m)[i]].controller = None
            /\ app[StoredAs(m)[i]].type # None /\ NameOf[app[StoredAs(m)[i]].type] = m
      BY <2>1 DEF StacksRight
    <3>4. app'[a].controller = None /\ app'[a].type # None /\ NameOf[app'[a].type] = n
      BY <1>5, <1>12
    <3> HIDE DEF n
    <3> QED
      BY <2>1, <1>10, <3>1, <3>2, <3>3, <3>4
  <2>2. ASSUME NEW m \in Name, NEW l \in Name, cachedMap[m] # None, cachedMap[l] # None,
               NEW i \in 1..Len(S(m)), NEW j \in 1..Len(S(l)), S(m)[i] = S(l)[j]
        PROVE  m = l /\ i = j
    <3> HIDE DEF n
    <3>1. \A d, e \in Name : cachedMap[d] # None /\ cachedMap[e] # None =>
            \A x \in 1..Len(StoredAs(d)), y \in 1..Len(StoredAs(e)) :
              StoredAs(d)[x] = StoredAs(e)[y] => d = e /\ x = y
      BY Zenon DEF IInv, StacksRight
    <3>2. /\ \/ i \in 1..Len(StoredAs(m)) /\ S(m)[i] = StoredAs(m)[i]
             \/ i = Len(StoredAs(m)) + 1 /\ S(m)[i] = a /\ m = n
          /\ \/ j \in 1..Len(StoredAs(l)) /\ S(l)[j] = StoredAs(l)[j]
             \/ j = Len(StoredAs(l)) + 1 /\ S(l)[j] = a /\ l = n
      BY <2>2, <1>10
    <3>3. /\ \A x \in 1..Len(StoredAs(m)) : StoredAs(m)[x] # a
          /\ \A x \in 1..Len(StoredAs(l)) : StoredAs(l)[x] # a
      BY <2>2, <1>7
    <3> QED
      BY <2>2, <3>1, <3>2, <3>3
  <2>3. \A m, l \in Name : cachedMap[m] = cachedMap[l] /\ cachedMap[m] # None => m = l
    BY DEF StacksRight
  <2>4. UNCHANGED cachedMap
    BY <1>1
  <2>5. \A m \in Name : StoredAs(m)' = S(m)
    BY <2>4 DEF StoredAs, S
  <2> QED
    BY <2>1, <2>2, <2>3, <2>4, <2>5 DEF StacksRight
<1>17. BindingsRight'
  <2>1. UNCHANGED <<phase, reuse, ctlOf, cachedMap>>
    BY <1>1
  <2>2. \A l \in Controller \ {k} : ctl'[l] = ctl[l] /\ (ctl[l].app # None => app'[ctl[l].app] = app[ctl[l].app])
    <3>1. \A l \in Controller \ {k} : ctl[l].app # None => ctl[l].app \in App \ {a}
      BY <1>6 DEF TypeOK
    <3> QED
      BY <1>11, <1>12, <3>1
  <2>3. \A l \in Controller : ctl'[l].app # None =>
          /\ app'[ctl'[l].app].controller = l
          /\ ctl'[l].type # None /\ app'[ctl'[l].app].type # None
          /\ NameOf[app'[ctl'[l].app].type] = NameOf[ctl'[l].type]
          /\ reuse => cachedMap[NameOf[ctl'[l].type]] # None
          /\ ~reuse => app'[ctl'[l].app].type = ctl'[l].type
    BY <1>11, <2>2 DEF BindingsRight
  <2>4. \A q \in Slot : reuse /\ phase[q] = "bind" => cachedMap[NameOf[ctl'[ctlOf[q]].type]] # None
    <3>1. \A q \in Slot : phase[q] = "bind" => ctl'[ctlOf[q]] = ctl[ctlOf[q]]
      BY <1>1, <1>4, <1>11, SlotsHold DEF Holding, Serving
    <3> QED
      BY <3>1 DEF BindingsRight, NameBound
  <2> QED
    BY <2>1, <2>3, <2>4 DEF BindingsRight, NameBound
<1> QED
  BY <1>13, <1>14, <1>15, <1>16, <1>17

-----------------------------------------------------------------------------
(* What every reachable state satisfies. *)

LEMMA Invariance == Spec => []IInv
<1>1. ASSUME IInv, [Next]_vars PROVE IInv'
  <2>1. CASE UNCHANGED vars
    <3> USE <2>1 DEF vars
    <3>1. TypeOK'
      BY <1>1 DEF IInv, TypeOK
    <3>2. PoolsApart' /\ ContextsRight'
      BY <1>1 DEF IInv, PoolsApart, ContextsRight, Holding, Serving, Open
    <3>3. ControllersRight'
      BY <1>1 DEF IInv, ControllersRight, Serving
    <3>4. StacksRight'
      BY <1>1, StacksKept DEF IInv
    <3>5. BindingsRight'
      BY <1>1 DEF IInv, BindingsRight, NameBound
    <3> QED
      BY <3>1, <3>2, <3>3, <3>4, <3>5 DEF IInv
  <2>2. CASE Next
    <3>1. PICK r \in Slot : Serve(r)
      BY <2>2 DEF Next
    <3> QED
      BY <1>1, <3>1, TakeContextStep, UpgradeStep, HandshakeFailsStep, TakeControllerStep,
         RouteFailsStep, LookUpStackStep, InstallStackStep, PopAppStep, FinishStep, ReturnAppStep,
         DestroyControllerStep, PushControllerStep, ForgetControllerStep, DestroyContextStep,
         PushContextStep DEF Serve
  <2> QED
    BY <1>1, <2>1, <2>2
<1> QED
  BY <1>1, InitInvariant, PTL DEF Spec

(* The variables keep their types. *)
THEOREM TypeCorrect == Spec => []TypeOK
<1>1. IInv => TypeOK
  BY DEF IInv
<1> QED
  BY <1>1, Invariance, PTL

(* SetController, NewResponse and the Destroy methods keep requests apart: a  *)
(* controller in use leads to its own request's context and client, and none  *)
(* leads to a context after its request has let the controller go.            *)
THEOREM RequestsIsolated == Spec => []Isolation
<1>1. IInv => Isolation
  <2> SUFFICES ASSUME IInv PROVE Isolation
    OBVIOUS
  <2>1. \A r \in Slot : Serving(r) => Open(r) /\ phase[r] # "idle"
    BY DEF Serving, Open
  <2>2. ASSUME NEW r \in Slot, Serving(r)
        PROVE  /\ ctl[ctlOf[r]].in = ctxOf[r] /\ ctx[ctxOf[r]].request = r
               /\ ClientOf(ctl[ctlOf[r]]) = r
    <3>1. ctx[ctxOf[r]].request = r /\ ctx[ctxOf[r]].socket \in {None, r}
      BY <2>1, <2>2 DEF IInv, ContextsRight
    <3>2. /\ ctl[ctlOf[r]].in = ctxOf[r] /\ ctl[ctlOf[r]].out = ctxOf[r]
          /\ ctl[ctlOf[r]].socket = ctx[ctxOf[r]].socket
      BY <2>2 DEF IInv, ControllersRight
    <3> QED
      BY <3>1, <3>2, NoneAssumption DEF ClientOf
  <2>3. \A k \in Controller : ctl[k].in # None =>
          \E r \in Slot : ctlOf[r] = k /\ ctxOf[r] = ctl[k].in
    BY DEF IInv, ControllersRight
  <2> QED
    BY <2>2, <2>3 DEF Isolation
<1> QED
  BY <1>1, Invariance, PTL

(* What the Destroy methods leave in a pool wraps no request, has no websocket *)
(* to answer through, no type and no controller, whatever the request that     *)
(* had it before was and however it ended.                                     *)
THEOREM StoredObjectsBlank == Spec => []StoredBlank
<1>1. IInv => StoredBlank
  <2> SUFFICES ASSUME IInv PROVE StoredBlank
    OBVIOUS
  <2>1. ASSUME NEW x \in Elements(ctxFree) PROVE Vacant(ctx[x])
    <3>1. ctxFree \in Seq(Context)
      BY DEF IInv, TypeOK
    <3>2. x \in Context /\ \A r \in Slot : ctxOf[r] # x
      BY <3>1 DEF IInv, PoolsApart, Apart, Elements
    <3> QED
      BY <3>2 DEF IInv, ContextsRight
  <2>2. ASSUME NEW k \in Elements(ctlFree)
        PROVE  ctl[k].in = None /\ ctl[k].type = None /\ ctl[k].app = None
    <3>1. ctlFree \in Seq(Controller)
      BY DEF IInv, TypeOK
    <3>2. k \in Controller /\ \A r \in Slot : ctlOf[r] # k
      BY <3>1 DEF IInv, PoolsApart, Apart, Elements
    <3> QED
      BY <3>2 DEF IInv, ControllersRight
  <2>3. ASSUME NEW a \in StoredApps PROVE app[a].controller = None
    <3>1. PICK n \in Name : cachedMap[n] # None /\ a \in Elements(StoredAs(n))
      BY DEF StoredApps, Installed, StoredAs
    <3>2. PICK i \in DOMAIN StoredAs(n) : a = StoredAs(n)[i]
      BY <3>1 DEF Elements
    <3>3. i \in 1..Len(StoredAs(n))
      BY <3>1, <3>2, AppsApart
    <3> QED
      BY <3>1, <3>2, <3>3 DEF IInv, StacksRight
  <2> QED
    BY <2>1, <2>2, <2>3 DEF StoredBlank, Vacant
<1> QED
  BY <1>1, Invariance, PTL

(* SetTypeAction binds a receiver nobody else has or can take while the       *)
(* action runs, and its embedded controller is the one of this request.       *)
THEOREM ReceiversBound == Spec => []ReceiverBound
<1>1. IInv => ReceiverBound
  <2> SUFFICES ASSUME IInv, NEW r \in Slot, phase[r] = "acting"
               PROVE  LET a == ctl[ctlOf[r]].app IN
                      /\ app[a].controller = ctlOf[r]
                      /\ a \notin StoredApps
                      /\ \A k \in Controller \ {ctlOf[r]} : ctl[k].app # a
    BY DEF ReceiverBound
  <2>1. ctlOf[r] \in Controller /\ ctl[ctlOf[r]].app # None
    BY SlotsHold DEF IInv, ControllersRight, Holding, Serving
  <2>2. app[ctl[ctlOf[r]].app].controller = ctlOf[r]
    BY <2>1 DEF IInv, BindingsRight
  <2>3. \A k \in Controller \ {ctlOf[r]} : ctl[k].app # ctl[ctlOf[r]].app
    BY <2>1, <2>2 DEF IInv, BindingsRight
  <2>4. \A n \in Name : cachedMap[n] # None => ctl[ctlOf[r]].app \notin Elements(StoredAs(n))
    <3> SUFFICES ASSUME NEW n \in Name, cachedMap[n] # None,
                        NEW i \in DOMAIN StoredAs(n), ctl[ctlOf[r]].app = StoredAs(n)[i]
                 PROVE  FALSE
      BY DEF Elements
    <3>1. i \in 1..Len(StoredAs(n))
      BY AppsApart
    <3> QED
      BY <2>1, <3>1, AppsApart
  <2> QED
    BY <2>2, <2>3, <2>4 DEF StoredApps, Installed, StoredAs
<1> QED
  BY <1>1, Invariance, PTL

(* Types of different names get receivers of their own type: the pools are    *)
(* looked up by name alone.                                                   *)
THEOREM ReceiversTyped ==
  ASSUME \A s, t \in Type : NameOf[s] = NameOf[t] => s = t
  PROVE  Spec => []ReceiverOfType
<1>1. IInv => ReceiverOfType
  <2> SUFFICES ASSUME IInv, NEW r \in Slot, phase[r] = "acting"
               PROVE  app[ctl[ctlOf[r]].app].type = ctl[ctlOf[r]].type
    BY DEF ReceiverOfType
  <2>1. ctlOf[r] \in Controller /\ ctl[ctlOf[r]].app # None
    BY SlotsHold DEF IInv, ControllersRight, Holding, Serving
  <2>2. /\ app[ctl[ctlOf[r]].app].type # None /\ ctl[ctlOf[r]].type # None
        /\ NameOf[app[ctl[ctlOf[r]].app].type] = NameOf[ctl[ctlOf[r]].type]
    BY <2>1 DEF IInv, BindingsRight
  <2>3. app[ctl[ctlOf[r]].app].type \in Type /\ ctl[ctlOf[r]].type \in Type
    BY <2>1, <2>2 DEF IInv, TypeOK
  <2> QED
    BY <2>2, <2>3
<1> QED
  BY <1>1, Invariance, PTL

(* What requests do with the contexts is what clients of a pool may do: with  *)
(* Refinement below, which says that the lock stack is such a pool, nothing   *)
(* proved of the requests depends on how goContextStack keeps its objects.    *)
THEOREM ContextsPooled == Spec => Contexts!Spec
<1>1. Init => Contexts!Init
  BY RoomAssumption DEF Init, Contexts!Init
<1>2. [Next]_vars => [Contexts!Next]_(Contexts!vars)
  <2>1. ASSUME NEW r \in Slot, TakeContext(r) \/ PushContext(r) PROVE Contexts!Next
    BY <2>1 DEF TakeContext, PushContext, Contexts!Next
  <2>2. ASSUME NEW r \in Slot, Serve(r), ~TakeContext(r), ~PushContext(r)
        PROVE  UNCHANGED <<ctxFree, ctxOf>>
    BY <2>2 DEF Serve, Upgrade, HandshakeFails, TakeController, RouteFails, LookUpStack, InstallStack,
                PopApp, Finish, ReturnApp, DestroyController, PushController, ForgetController,
                DestroyContext
  <2> QED
    BY <2>1, <2>2 DEF Next, vars, Contexts!vars
<1> QED
  BY <1>1, <1>2, PTL DEF Spec, Contexts!Spec

(* The same of the controllers and Controller.Stack, when they are reused:    *)
(* otherwise handleInternal lets go of a controller without returning it.     *)
THEOREM ControllersPooled ==
  ASSUME Reuses = {TRUE}
  PROVE  Spec => Controllers!Spec
<1>1. Init => Controllers!Init
  BY RoomAssumption DEF Init, Controllers!Init
<1>2. IInv /\ [Next]_vars => [Controllers!Next]_(Controllers!vars)
  <2> SUFFICES ASSUME IInv, [Next]_vars PROVE [Controllers!Next]_(Controllers!vars)
    OBVIOUS
  <2>1. ASSUME NEW r \in Slot, TakeController(r) \/ PushController(r) PROVE Controllers!Next
    BY <2>1 DEF TakeController, PushController, Controllers!Next
  <2>2. ASSUME NEW r \in Slot, ForgetController(r) PROVE FALSE
    BY <2>2 DEF ForgetController, IInv, TypeOK
  <2>3. ASSUME NEW r \in Slot, Serve(r), ~TakeController(r), ~PushController(r), ~ForgetController(r)
        PROVE  UNCHANGED <<ctlFree, ctlOf>>
    BY <2>3 DEF Serve, TakeContext, Upgrade, HandshakeFails, RouteFails, LookUpStack, InstallStack,
                PopApp, Finish, ReturnApp, DestroyController, DestroyContext, PushContext
  <2> QED
    BY <2>1, <2>2, <2>3 DEF Next, vars, Controllers!vars
<1> QED
  BY <1>1, <1>2, Invariance, PTL DEF Spec, Controllers!Spec

-----------------------------------------------------------------------------
(* utils.SimpleLockStack.                                                     *)

(* What Exclusive and StoredClean need to be inductive: only a request that   *)
(* still has its object in hand, and has not begun to push it back, has       *)
(* written into it.                                                           *)
DirtyInHand ==
  /\ \A c \in destroyed : held[c] # NoObject
  /\ \A o \in dirty : \E c \in Client \ destroyed : held[c] = o

StackInv == StackTypeOK /\ Linked /\ Exclusive /\ DirtyInHand

-----------------------------------------------------------------------------
(* NewStackLock establishes the invariant. *)
LEMMA StackInitInvariant == StackInit => StackInv
<1> SUFFICES ASSUME StackInit PROVE StackInv
  OBVIOUS
<1> USE SizeAssumption, ObjectAssumption DEF Node, Nil
<1>1. PICK start \in StartSizes, max \in MaxSizes :
        LET made == IF start > 0 THEN start ELSE 1 IN
        /\ \E v \in [1..made -> Object] :
             /\ \A m, n \in 1..made : v[m] = v[n] => m = n
             /\ value = [n \in Node |-> IF n \in 1..made THEN v[n] ELSE NoObject]
        /\ next = [n \in Node |-> IF n < made THEN n + 1 ELSE Nil]
        /\ previous = [n \in Node |-> IF n \in 2..made THEN n - 1 ELSE Nil]
        /\ current = made
        /\ nodes = made
        /\ len = start
        /\ capacity = start
        /\ active = 0
        /\ maxsize = max
        /\ held = [c \in Client |-> NoObject]
        /\ destroyed = {}
        /\ dirty = {}
  BY DEF StackInit
<1> DEFINE made == IF start > 0 THEN start ELSE 1
<1>2. made \in 1..MaxNode /\ start \in 0..made /\ start \in 0..MaxNode
  OBVIOUS
<1>3. PICK v \in [1..made -> Object] :
        /\ \A m, n \in 1..made : v[m] = v[n] => m = n
        /\ value = [n \in Node |-> IF n \in 1..made THEN v[n] ELSE NoObject]
  BY <1>1
<1>4. StackTypeOK
  <2>1. value \in [Node -> Object \cup {NoObject}]
    BY <1>2, <1>3
  <2>2. next \in [Node -> Node \cup {Nil}] /\ previous \in [Node -> Node \cup {Nil}]
    BY <1>1, <1>2
  <2> QED
    BY <1>1, <1>2, <2>1, <2>2 DEF StackTypeOK
<1>5. Linked
  <2>1. \A n \in 1..made : value[n] # NoObject
    BY <1>2, <1>3
  <2>2. \A n \in 1..made : /\ next[n] = IF n = made THEN Nil ELSE n + 1
                           /\ previous[n] = n - 1
    BY <1>1, <1>2
  <2> QED
    BY <1>1, <1>2, <2>1, <2>2 DEF Linked
<1>6. Exclusive
  <2>1. \A n \in 1..made : n \in Node /\ value[n] = v[n] /\ v[n] \in Object
    BY <1>2, <1>3
  <2>2. \A c \in Client : held[c] = NoObject
    BY <1>1
  <2>3. \A n \in 1..len : n \in 1..made
    BY <1>1, <1>2
  <2> QED
    BY <1>3, <2>1, <2>2, <2>3 DEF Exclusive
<1>7. DirtyInHand
  BY <1>1 DEF DirtyInHand
<1> QED
  BY <1>4, <1>5, <1>6, <1>7 DEF StackInv

-----------------------------------------------------------------------------
(* One lemma per operation of the stack. *)

LEMMA PopCreatesStep ==
  ASSUME StackInv, NEW c \in Client, PopCreates(c) PROVE StackInv'
<1> USE SizeAssumption, ObjectAssumption DEF Node, Nil, StackInv
<1>1. PICK o \in Fresh : held' = [held EXCEPT ![c] = o]
  BY DEF PopCreates
<1>2. /\ o \in Object
      /\ \A d \in Client : held[d] # o
  BY <1>1 DEF Fresh, Reachable, InHand
<1>3. len = 0 /\ active' = active + 1 /\ held[c] = NoObject
  BY DEF PopCreates
<1>4. UNCHANGED <<current, value, next, previous, nodes, len, capacity, maxsize,
                  destroyed, dirty>>
  BY DEF PopCreates
<1>5. StackTypeOK'
  BY <1>1, <1>2, <1>3, <1>4 DEF StackTypeOK
<1>6. Linked'
  BY <1>4 DEF Linked
<1>7. Exclusive'
  BY <1>1, <1>2, <1>3, <1>4 DEF Exclusive, StackTypeOK
<1>8. DirtyInHand'
  BY <1>1, <1>2, <1>3, <1>4 DEF DirtyInHand, StackTypeOK
<1> QED
  BY <1>5, <1>6, <1>7, <1>8

LEMMA PopStoredStep ==
  ASSUME StackInv, NEW c \in Client, PopStored(c) PROVE StackInv'
<1> USE SizeAssumption, ObjectAssumption DEF Node, Nil, StackInv
<1>1. /\ held[c] = NoObject
      /\ held' = [held EXCEPT ![c] = value[current]]
      /\ len # 0
      /\ len' = len - 1
      /\ current' = IF previous[current] # Nil THEN previous[current] ELSE current
      /\ active' = active + 1
      /\ UNCHANGED <<value, next, previous, nodes, capacity, maxsize, destroyed, dirty>>
  BY DEF PopStored, Below
<1>2. /\ current = len
      /\ len \in 1..nodes
      /\ previous[len] = len - 1
      /\ value[len] # NoObject
      /\ value[len] \in Object
      /\ nodes \in Node
  BY <1>1 DEF Linked, StackTypeOK
<1>3. StackTypeOK'
  BY <1>1, <1>2 DEF StackTypeOK
<1>4. Linked'
  BY <1>1, <1>2 DEF Linked, StackTypeOK
<1>5. Exclusive'
  BY <1>1, <1>2 DEF Exclusive, StackTypeOK
<1>6. DirtyInHand'
  BY <1>1, <1>2 DEF DirtyInHand, StackTypeOK
<1> QED
  BY <1>3, <1>4, <1>5, <1>6

LEMMA UseStep ==
  ASSUME StackInv, NEW c \in Client, Use(c) PROVE StackInv'
<1> USE DEF StackInv
<1>1. /\ held[c] # NoObject
      /\ c \notin destroyed
      /\ dirty' = dirty \cup {held[c]}
      /\ UNCHANGED <<fields, held, destroyed>>
  BY DEF Use
<1>2. StackTypeOK'
  BY <1>1 DEF StackTypeOK, fields
<1>3. Linked' /\ Exclusive'
  BY <1>1 DEF Linked, Exclusive, fields
<1>4. DirtyInHand'
  BY <1>1 DEF DirtyInHand
<1> QED
  BY <1>2, <1>3, <1>4

LEMMA DestroyStep ==
  ASSUME StackInv, NEW c \in Client, Destroy(c) PROVE StackInv'
<1> USE DEF StackInv
<1>1. /\ held[c] # NoObject
      /\ dirty' = dirty \ {held[c]}
      /\ destroyed' = destroyed \cup {c}
      /\ UNCHANGED <<fields, held>>
  BY DEF Destroy, StillDirty
<1>2. StackTypeOK'
  BY <1>1 DEF StackTypeOK, fields
<1>3. Linked' /\ Exclusive'
  BY <1>1 DEF Linked, Exclusive, fields
<1>4. DirtyInHand'
  BY <1>1 DEF DirtyInHand
<1> QED
  BY <1>2, <1>3, <1>4

(* What the four ways through Push have in common: the object in hand is a    *)
(* real one, nobody else has it, and nothing the client wrote is left in it.  *)
LEMMA LetGoFacts ==
  ASSUME StackInv, NEW c \in Client, LetGo(c)
  PROVE  /\ held[c] \in Object
         /\ held[c] # NoObject
         /\ held' = [held EXCEPT ![c] = NoObject]
         /\ \A n \in 1..len : value[n] # held[c]
         /\ \A d \in Client : d # c => held[d] # held[c]
         /\ DirtyInHand'
         /\ maxsize' = maxsize /\ dirty' = dirty /\ destroyed' \subseteq Client
<1>1. /\ c \in destroyed
      /\ destroyed' = destroyed \ {c}
      /\ held' = [held EXCEPT ![c] = NoObject]
      /\ UNCHANGED <<dirty, maxsize>>
  BY DEF LetGo
<1>2. held[c] # NoObject /\ held[c] \in Object
  BY <1>1 DEF StackInv, DirtyInHand, StackTypeOK
<1>3. \A n \in 1..len : value[n] # held[c]
  BY DEF StackInv, Exclusive
<1>4. \A d \in Client : d # c => held[d] # held[c]
  BY <1>2 DEF StackInv, Exclusive
<1>5. DirtyInHand'
  BY <1>1 DEF StackInv, DirtyInHand, StackTypeOK
<1>6. destroyed' \subseteq Client
  BY <1>1 DEF StackInv, StackTypeOK
<1> QED
  BY <1>1, <1>2, <1>3, <1>4, <1>5, <1>6

LEMMA PushOntoEmptyStep ==
  ASSUME StackInv, NEW c \in Client, PushOntoEmpty(c) PROVE StackInv'
<1> USE SizeAssumption, ObjectAssumption DEF Node, Nil, StackInv
<1>1. LetGo(c)
  BY DEF PushOntoEmpty
<1>2. /\ held[c] \in Object
      /\ held[c] # NoObject
      /\ held' = [held EXCEPT ![c] = NoObject]
      /\ \A d \in Client : d # c => held[d] # held[c]
      /\ DirtyInHand'
      /\ maxsize' = maxsize /\ dirty' = dirty /\ destroyed' \subseteq Client
  BY <1>1, LetGoFacts
<1>3. /\ len = 0 /\ len' = 1
      /\ value' = [value EXCEPT ![current] = held[c]]
      /\ active' = active - 1
      /\ UNCHANGED <<current, next, previous, nodes, capacity>>
  BY DEF PushOntoEmpty
<1>4. current = 1 /\ 1 \in Node /\ nodes \in Node
  BY <1>3 DEF Linked, StackTypeOK
<1>5. Linked'
  BY <1>2, <1>3, <1>4 DEF Linked, StackTypeOK
<1>6. Exclusive'
  BY <1>2, <1>3, <1>4 DEF Exclusive, StackTypeOK
<1>7. StackTypeOK'
  BY <1>2, <1>3, <1>4 DEF StackTypeOK
<1> QED
  BY <1>2, <1>5, <1>6, <1>7

LEMMA PushAllocatingStep ==
  ASSUME StackInv, NEW c \in Client, PushAllocating(c) PROVE StackInv'
<1> USE SizeAssumption, ObjectAssumption DEF Node, Nil, StackInv
<1>1. LetGo(c)
  BY DEF PushAllocating
<1>2. /\ held[c] \in Object
      /\ held[c] # NoObject
      /\ held' = [held EXCEPT ![c] = NoObject]
      /\ \A n \in 1..len : value[n] # held[c]
      /\ \A d \in Client : d # c => held[d] # held[c]
      /\ DirtyInHand'
      /\ maxsize' = maxsize /\ dirty' = dirty /\ destroyed' \subseteq Client
  BY <1>1, LetGoFacts
<1>3. /\ len # 0 /\ len < maxsize /\ len' = len + 1
      /\ next[current] = Nil
      /\ nodes' = nodes + 1
      /\ next' = [next EXCEPT ![current] = nodes + 1, ![nodes + 1] = Nil]
      /\ value' = [value EXCEPT ![nodes + 1] = held[c]]
      /\ previous' = [previous EXCEPT ![nodes + 1] = current]
      /\ current' = nodes + 1
      /\ capacity' = capacity + 1
      /\ active' = active - 1
  BY DEF PushAllocating, HasRoom, LinkedBack
(* The stack only allocates when Current is the last node of the chain. *)
<1>4. /\ current = len /\ len = nodes
      /\ nodes + 1 \in Node /\ nodes \in Node
      /\ len \in Node /\ maxsize \in 0..MaxNode
  BY <1>3 DEF Linked, StackTypeOK
<1>5. StackTypeOK'
  <2>1. capacity + 1 \in 0..MaxNode
    BY <1>4 DEF Linked, StackTypeOK
  <2> QED
    BY <1>2, <1>3, <1>4, <2>1 DEF StackTypeOK
<1>6. Linked'
  <2>1. \A n \in 1..nodes' : /\ value'[n] # NoObject
                             /\ next'[n] = IF n = nodes' THEN Nil ELSE n + 1
                             /\ previous'[n] = n - 1
    <3> SUFFICES ASSUME NEW n \in 1..(nodes + 1)
                 PROVE  /\ value'[n] # NoObject
                        /\ next'[n] = IF n = nodes + 1 THEN Nil ELSE n + 1
                        /\ previous'[n] = n - 1
      BY <1>3
    <3>1. CASE n = nodes + 1
      BY <1>2, <1>3, <1>4, <3>1 DEF StackTypeOK
    <3>2. CASE n # nodes + 1
      <4>1. /\ n \in 1..nodes /\ n \in Node
            /\ value'[n] = value[n] /\ previous'[n] = previous[n]
        BY <1>3, <1>4, <3>2 DEF StackTypeOK
      <4>2. next'[n] = IF n = nodes THEN nodes + 1 ELSE next[n]
        BY <1>3, <1>4, <4>1 DEF StackTypeOK
      <4> QED
        BY <3>2, <1>4, <4>1, <4>2 DEF Linked, StackTypeOK
    <3> QED
      BY <3>1, <3>2
  <2> QED
    BY <1>3, <1>4, <2>1 DEF Linked, StackTypeOK
<1>7. Exclusive'
  <2>1. \A n \in 1..len' : /\ n \in Node
                           /\ value'[n] = IF n = len + 1 THEN held[c] ELSE value[n]
                           /\ n # len + 1 => n \in 1..len
    BY <1>3, <1>4 DEF StackTypeOK
  <2>2. \A d \in Client : held'[d] = IF d = c THEN NoObject ELSE held[d]
    BY <1>2 DEF StackTypeOK
  <2>3. \A n \in 1..len : value[n] # NoObject
    BY DEF Linked, StackTypeOK
  <2>4. \A m, n \in 1..len' : value'[m] = value'[n] => m = n
    BY <1>2, <2>1 DEF Exclusive
  <2>5. \A d, e \in Client : held'[d] = held'[e] /\ held'[d] # NoObject => d = e
    BY <2>2 DEF Exclusive
  <2>6. \A n \in 1..len', d \in Client : value'[n] # held'[d]
    BY <1>2, <2>1, <2>2, <2>3 DEF Exclusive
  <2> QED
    BY <2>4, <2>5, <2>6 DEF Exclusive
<1> QED
  BY <1>2, <1>5, <1>6, <1>7

LEMMA PushReusingStep ==
  ASSUME StackInv, NEW c \in Client, PushReusing(c) PROVE StackInv'
<1> USE SizeAssumption, ObjectAssumption DEF Node, Nil, StackInv
<1>1. LetGo(c)
  BY DEF PushReusing
<1>2. /\ held[c] \in Object
      /\ held[c] # NoObject
      /\ held' = [held EXCEPT ![c] = NoObject]
      /\ \A n \in 1..len : value[n] # held[c]
      /\ \A d \in Client : d # c => held[d] # held[c]
      /\ DirtyInHand'
      /\ maxsize' = maxsize /\ dirty' = dirty /\ destroyed' \subseteq Client
  BY <1>1, LetGoFacts
<1>3. /\ len # 0 /\ len < maxsize /\ len' = len + 1
      /\ next[current] # Nil
      /\ value' = [value EXCEPT ![next[current]] = held[c]]
      /\ current' = next[current]
      /\ active' = active - 1
      /\ UNCHANGED <<next, previous, nodes, capacity>>
  BY DEF PushReusing, HasRoom
<1>4. /\ current = len /\ next[current] = len + 1
      /\ len + 1 \in 1..nodes /\ nodes \in Node
      /\ len \in Node /\ maxsize \in 0..MaxNode
  BY <1>3 DEF Linked, StackTypeOK
<1>5. StackTypeOK'
  BY <1>2, <1>3, <1>4 DEF StackTypeOK
<1>6. Linked'
  BY <1>2, <1>3, <1>4 DEF Linked, StackTypeOK
<1>7. Exclusive'
  <2>1. \A n \in 1..len' : /\ n \in Node
                           /\ value'[n] = IF n = len + 1 THEN held[c] ELSE value[n]
                           /\ n # len + 1 => n \in 1..len
    BY <1>3, <1>4 DEF StackTypeOK
  <2>2. \A d \in Client : held'[d] = IF d = c THEN NoObject ELSE held[d]
    BY <1>2 DEF StackTypeOK
  <2>3. \A n \in 1..len : value[n] # NoObject
    BY DEF Linked, StackTypeOK
  <2>4. \A m, n \in 1..len' : value'[m] = value'[n] => m = n
    BY <1>2, <2>1 DEF Exclusive
  <2>5. \A d, e \in Client : held'[d] = held'[e] /\ held'[d] # NoObject => d = e
    BY <2>2 DEF Exclusive
  <2>6. \A n \in 1..len', d \in Client : value'[n] # held'[d]
    BY <1>2, <2>1, <2>2, <2>3 DEF Exclusive
  <2> QED
    BY <2>4, <2>5, <2>6 DEF Exclusive
<1> QED
  BY <1>2, <1>5, <1>6, <1>7

LEMMA PushOverflowStep ==
  ASSUME StackInv, NEW c \in Client, PushOverflow(c) PROVE StackInv'
<1> USE SizeAssumption, ObjectAssumption DEF Node, Nil, StackInv
<1>1. LetGo(c) /\ UNCHANGED <<current, value, next, previous, nodes, len, capacity, active>>
  BY DEF PushOverflow
<1>2. /\ held' = [held EXCEPT ![c] = NoObject]
      /\ DirtyInHand'
      /\ maxsize' = maxsize /\ dirty' = dirty /\ destroyed' \subseteq Client
  BY <1>1, LetGoFacts
<1>3. StackTypeOK'
  BY <1>1, <1>2 DEF StackTypeOK
<1>4. Linked'
  BY <1>1 DEF Linked
<1>5. Exclusive'
  <2>1. \A n \in 1..len : value[n] # NoObject
    BY DEF Linked, StackTypeOK
  <2> QED
    BY <1>1, <1>2, <2>1 DEF Exclusive, StackTypeOK
<1> QED
  BY <1>2, <1>3, <1>4, <1>5

LEMMA StackStepInvariant == StackInv /\ [StackNext]_stackVars => StackInv'
<1> SUFFICES ASSUME StackInv, [StackNext]_stackVars PROVE StackInv'
  OBVIOUS
<1>1. ASSUME NEW c \in Client, Pop(c) PROVE StackInv'
  BY <1>1, PopCreatesStep, PopStoredStep DEF Pop
<1>2. ASSUME NEW c \in Client, Use(c) PROVE StackInv'
  BY <1>2, UseStep
<1>3. ASSUME NEW c \in Client, Destroy(c) PROVE StackInv'
  BY <1>3, DestroyStep
<1>4. ASSUME NEW c \in Client, Push(c) PROVE StackInv'
  BY <1>4, PushOntoEmptyStep, PushAllocatingStep, PushReusingStep, PushOverflowStep
     DEF Push
<1>5. ASSUME UNCHANGED stackVars PROVE StackInv'
  BY <1>5 DEF stackVars, fields, StackInv, StackTypeOK, Linked, Exclusive, DirtyInHand
<1> QED
  BY <1>1, <1>2, <1>3, <1>4, <1>5 DEF StackNext

(* The fields keep their types. *)
THEOREM StackTypeCorrect == StackSpec => []StackTypeOK
<1>1. StackInv => StackTypeOK
  BY DEF StackInv
<1> QED
  BY StackInitInvariant, StackStepInvariant, <1>1, PTL DEF StackSpec

(* The chain of nodes is never broken. *)
THEOREM ChainCorrect == StackSpec => []Linked
<1>1. StackInv => Linked
  BY DEF StackInv
<1> QED
  BY StackInitInvariant, StackStepInvariant, <1>1, PTL DEF StackSpec

(* No object is in two places. *)
THEOREM Exclusion == StackSpec => []Exclusive
<1>1. StackInv => Exclusive
  BY DEF StackInv
<1> QED
  BY StackInitInvariant, StackStepInvariant, <1>1, PTL DEF StackSpec

(* No stored object carries anything of an earlier request. *)
THEOREM CleanStore == StackSpec => []StoredClean
<1>1. StackInv => StoredClean
  BY DEF StackInv, Exclusive, DirtyInHand, StoredClean, StackTypeOK
<1> QED
  BY StackInitInvariant, StackStepInvariant, <1>1, PTL DEF StackSpec

-----------------------------------------------------------------------------
(* The Active counter never falls below the number of objects in hand.        *)

Holders == {c \in Client : held[c] # NoObject}

LEMMA HoldersFinite == /\ IsFiniteSet(Holders)
                       /\ Cardinality(Holders) \in Nat
<1>1. Holders \subseteq Client
  BY DEF Holders
<1> QED
  BY <1>1, ClientAssumption, FS_Subset, FS_CardinalityType

LEMMA PopHolders ==
  ASSUME StackInv, NEW c \in Client, held[c] = NoObject,
         NEW o, o # NoObject, held' = [held EXCEPT ![c] = o]
  PROVE  Cardinality(Holders') = Cardinality(Holders) + 1
<1>1. Holders' = Holders \cup {c} /\ c \notin Holders
  BY DEF Holders, StackInv, StackTypeOK
<1> QED
  BY <1>1, HoldersFinite, FS_AddElement

LEMMA PushHolders ==
  ASSUME StackInv, NEW c \in Client, held[c] # NoObject,
         held' = [held EXCEPT ![c] = NoObject]
  PROVE  Cardinality(Holders') = Cardinality(Holders) - 1
<1>1. Holders' = Holders \ {c} /\ c \in Holders
  BY DEF Holders, StackInv, StackTypeOK
<1> QED
  BY <1>1, HoldersFinite, FS_RemoveElement

(* Active never undercounts, whatever overflows. *)
THEOREM ActiveCorrect == StackSpec => []ActiveCoversHeld
<1> USE DEF ActiveCoversHeld
<1>1. StackInit => ActiveCoversHeld
  <2>1. StackInit => active = 0 /\ {c \in Client : held[c] # NoObject} = {}
    BY DEF StackInit
  <2> QED
    BY <2>1, FS_EmptySet
<1>2. StackInv /\ ActiveCoversHeld /\ [StackNext]_stackVars => ActiveCoversHeld'
  <2> SUFFICES ASSUME StackInv, active >= Cardinality(Holders), [StackNext]_stackVars
               PROVE  active' >= Cardinality(Holders')
    BY DEF Holders
  <2>0. active \in Int /\ Cardinality(Holders) \in Nat
    BY HoldersFinite DEF StackInv, StackTypeOK
  <2>1. ASSUME NEW c \in Client, Pop(c) PROVE active' >= Cardinality(Holders')
    <3>1. active' = active + 1 /\ held[c] = NoObject
      BY <2>1 DEF Pop, PopCreates, PopStored
    <3>2. CASE PopCreates(c)
      <4>1. PICK o \in Fresh : held' = [held EXCEPT ![c] = o]
        BY <3>2 DEF PopCreates
      <4>2. o # NoObject
        BY ObjectAssumption DEF Fresh
      <4>3. Cardinality(Holders') = Cardinality(Holders) + 1
        BY <3>1, <4>1, <4>2, PopHolders
      <4> QED
        BY <2>0, <3>1, <4>3
    <3>3. CASE PopStored(c)
      <4>1. held' = [held EXCEPT ![c] = value[current]] /\ len # 0
        BY <3>3 DEF PopStored
      <4>2. value[current] # NoObject
        BY <4>1 DEF StackInv, StackTypeOK, Linked
      <4>3. Cardinality(Holders') = Cardinality(Holders) + 1
        BY <3>1, <4>1, <4>2, PopHolders
      <4> QED
        BY <2>0, <3>1, <4>3
    <3> QED
      BY <2>1, <3>2, <3>3 DEF Pop
  <2>2. ASSUME NEW c \in Client, Push(c) PROVE active' >= Cardinality(Holders')
    <3>1. LetGo(c) /\ active' \in {active, active - 1}
      BY <2>2 DEF Push, PushOntoEmpty, PushAllocating, PushReusing, PushOverflow
    <3>2. held[c] # NoObject /\ held' = [held EXCEPT ![c] = NoObject]
      BY <3>1, LetGoFacts
    <3>3. Cardinality(Holders') = Cardinality(Holders) - 1
      BY <3>2, PushHolders
    <3> QED
      BY <2>0, <3>1, <3>3
  <2>3. ASSUME NEW c \in Client, Use(c) \/ Destroy(c)
        PROVE  active' >= Cardinality(Holders')
    BY <2>3 DEF Use, Destroy, fields, Holders
  <2>4. ASSUME UNCHANGED stackVars PROVE active' >= Cardinality(Holders')
    BY <2>4 DEF stackVars, fields, Holders
  <2> QED
    BY <2>1, <2>2, <2>3, <2>4 DEF StackNext
<1> QED
  BY StackInitInvariant, StackStepInvariant, <1>1, <1>2, PTL DEF StackSpec

-----------------------------------------------------------------------------
(* The linked stack implements the pool.  The refinement mapping reads the    *)
(* stored objects off the first len nodes, which Linked makes the part of the *)
(* chain from the bottom up to Current.                                       *)

Kept == [n \in 1..len |-> value[n]]
Room == IF maxsize = 0 THEN 1 ELSE maxsize

LEMMA KeptFacts ==
  ASSUME StackInv
  PROVE  /\ Kept \in Seq(Object)
         /\ Len(Kept) = len
         /\ len \in Nat
         /\ Room \in Nat \ {0}
<1>1. len \in Nat /\ \A n \in 1..len : value[n] \in Object
  BY SizeAssumption DEF StackInv, StackTypeOK, Linked, Node
<1>2. Kept \in Seq(Object) /\ Len(Kept) = len
  BY <1>1 DEF Kept
<1>3. Room \in Nat \ {0}
  BY SizeAssumption DEF StackInv, StackTypeOK, Room
<1> QED
  BY <1>1, <1>2, <1>3

LEMMA RefinesInit == StackInit => Pool!Init
<1> SUFFICES ASSUME StackInit PROVE Pool!Init
  OBVIOUS
<1>1. StackInv
  BY StackInitInvariant
<1>2. held = [c \in Client |-> NoObject]
  BY DEF StackInit
<1>3. \A i, j \in DOMAIN Kept : Kept[i] = Kept[j] => i = j
  BY <1>1 DEF StackInv, Exclusive, Kept
<1> QED
  BY <1>1, <1>2, <1>3, KeptFacts DEF Pool!Init, Kept, Room

LEMMA RefinesPop ==
  ASSUME StackInv, NEW c \in Client, Pop(c)
  PROVE  (Pool!TakeStored(c) \/ Pool!TakeNew(c)) /\ maxsize' = maxsize
<1>1. CASE PopCreates(c)
  <2>1. PICK o \in Fresh : held' = [held EXCEPT ![c] = o]
    BY <1>1 DEF PopCreates
  <2>2. o \in Object \ Pool!InHand
    BY DEF Fresh, Reachable, InHand, Pool!InHand
  <2>3. Kept = << >> /\ Kept' = Kept /\ Room' = Room
    BY <1>1, KeptFacts DEF PopCreates, Kept, Room
  <2> QED
    BY <1>1, <2>1, <2>2, <2>3 DEF PopCreates, Pool!TakeNew, Kept, Room
<1>2. CASE PopStored(c)
  <2>1. /\ held[c] = NoObject
        /\ held' = [held EXCEPT ![c] = value[current]]
        /\ len # 0 /\ len' = len - 1
        /\ value' = value /\ maxsize' = maxsize
    BY <1>2 DEF PopStored
  <2>2. current = len /\ len \in Nat \ {0}
    BY <2>1, KeptFacts DEF StackInv, Linked
  <2>3. Kept # << >> /\ Kept[Len(Kept)] = value[current]
    BY <2>2, KeptFacts DEF Kept
  <2>4. Kept' = SubSeq(Kept, 1, Len(Kept) - 1)
    BY <2>1, <2>2, KeptFacts DEF Kept
  <2> QED
    BY <2>1, <2>3, <2>4 DEF Pool!TakeStored, Pool!Taken, Kept, Room
<1> QED
  BY <1>1, <1>2 DEF Pop

LEMMA RefinesPush ==
  ASSUME StackInv, NEW c \in Client, Push(c)
  PROVE  Pool!Return(c) /\ maxsize' = maxsize
<1>1. LetGo(c)
  BY DEF Push, PushOntoEmpty, PushAllocating, PushReusing, PushOverflow
<1>2. /\ held[c] # NoObject /\ held[c] \in Object
      /\ held' = [held EXCEPT ![c] = NoObject]
      /\ maxsize' = maxsize
  BY <1>1, LetGoFacts
<1>3. /\ Kept \in Seq(Object) /\ Len(Kept) = len /\ len \in Nat
      /\ nodes \in Node /\ Room \in Nat \ {0} /\ maxsize \in Nat
  BY SizeAssumption, KeptFacts DEF StackInv, StackTypeOK
(* The three ways of storing: the object lands on node len + 1. *)
<1>4. ASSUME len < Room, len' = len + 1, NEW k, k = len + 1, k \in Node,
             value' = [value EXCEPT ![k] = held[c]]
      PROVE  Kept' = IF Len(Kept) < Room THEN Append(Kept, held[c]) ELSE Kept
  <2>1. \A n \in 1..len : n \in Node /\ value'[n] = value[n]
    BY <1>3, <1>4, SizeAssumption DEF StackInv, StackTypeOK, Linked, Node
  <2>2. value'[len + 1] = held[c]
    BY <1>4 DEF StackInv, StackTypeOK
  <2>3. Kept' = [n \in 1..(len + 1) |-> IF n = len + 1 THEN held[c] ELSE value[n]]
    BY <1>3, <1>4, <2>1, <2>2 DEF Kept
  <2>4. Append(Kept, held[c]) = [n \in 1..(len + 1) |-> IF n = len + 1 THEN held[c] ELSE value[n]]
    BY <1>3 DEF Kept
  <2> QED
    BY <1>3, <1>4, <2>3, <2>4
<1>5. CASE PushOntoEmpty(c)
  <2>1. /\ len < Room /\ len' = len + 1 /\ current = len + 1 /\ current \in Node
        /\ value' = [value EXCEPT ![current] = held[c]]
    BY <1>3, <1>5 DEF PushOntoEmpty, StackInv, StackTypeOK, Linked
  <2>2. Kept' = IF Len(Kept) < Room THEN Append(Kept, held[c]) ELSE Kept
    BY <1>4, <2>1
  <2> QED
    BY <1>2, <2>2 DEF Pool!Return, Pool!Returned, Kept, Room
<1>6. CASE PushAllocating(c)
  <2>1. /\ len # 0 /\ len < maxsize /\ len' = len + 1 /\ next[current] = Nil
        /\ value' = [value EXCEPT ![nodes + 1] = held[c]]
    BY <1>6 DEF PushAllocating, HasRoom
  <2>2. nodes = len /\ nodes + 1 \in Node
    BY <1>3, <2>1, SizeAssumption DEF StackInv, StackTypeOK, Linked, Node, Nil
  <2>3. len < Room
    BY <1>3, <2>1 DEF Room
  <2> QED
    BY <1>2, <1>4, <2>1, <2>2, <2>3 DEF Pool!Return, Pool!Returned, Kept, Room
<1>7. CASE PushReusing(c)
  <2>1. /\ len # 0 /\ len < maxsize /\ len' = len + 1 /\ next[current] # Nil
        /\ value' = [value EXCEPT ![next[current]] = held[c]]
    BY <1>7 DEF PushReusing, HasRoom
  <2>2. next[current] = len + 1 /\ len + 1 \in Node
    BY <1>3, <2>1, SizeAssumption DEF StackInv, StackTypeOK, Linked, Node, Nil
  <2>3. len < Room
    BY <1>3, <2>1 DEF Room
  <2> QED
    BY <1>2, <1>4, <2>1, <2>2, <2>3 DEF Pool!Return, Pool!Returned, Kept, Room
<1>8. CASE PushOverflow(c)
  <2>1. /\ len # 0 /\ ~(len < maxsize) /\ len' = len /\ value' = value
    BY <1>8 DEF PushOverflow, HasRoom
  <2>2. ~(len < Room) /\ Kept' = Kept
    BY <1>3, <2>1 DEF Room, Kept
  <2> QED
    BY <1>2, <1>3, <2>1, <2>2 DEF Pool!Return, Pool!Returned, Kept, Room
<1> QED
  BY <1>5, <1>6, <1>7, <1>8 DEF Push

LEMMA RefinesStep == StackInv /\ [StackNext]_stackVars => [Pool!Next]_(Pool!vars)
<1> SUFFICES ASSUME StackInv, [StackNext]_stackVars PROVE [Pool!Next]_(Pool!vars)
  OBVIOUS
<1>1. ASSUME NEW c \in Client, Pop(c) PROVE Pool!Next
  BY <1>1, RefinesPop DEF Pool!Next
<1>2. ASSUME NEW c \in Client, Push(c) PROVE Pool!Next
  BY <1>2, RefinesPush DEF Pool!Next
<1>3. ASSUME NEW c \in Client, Use(c) \/ Destroy(c) PROVE UNCHANGED Pool!vars
  BY <1>3 DEF Use, Destroy, fields, Pool!vars
<1>4. ASSUME UNCHANGED stackVars PROVE UNCHANGED Pool!vars
  BY <1>4 DEF stackVars, fields, Pool!vars
<1> QED
  BY <1>1, <1>2, <1>3, <1>4 DEF StackNext

(* Every behaviour of the linked stack is one of the pool. *)
THEOREM Refinement == StackSpec => Implements
<1>1. StackInit => Pool!Init
  BY RefinesInit
<1>2. StackInv /\ [StackNext]_stackVars => [Pool!Next]_(Pool!vars)
  BY RefinesStep
<1>3. StackSpec => []StackInv
  BY StackInitInvariant, StackStepInvariant, PTL DEF StackSpec
<1> QED
  BY <1>1, <1>2, <1>3, PTL DEF StackSpec, Implements, Pool!Spec
=============================================================================
