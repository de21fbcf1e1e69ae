---------------------------- MODULE RequestPools ----------------------------
(* The pooled objects a request is served with: handleMux takes a GoContext,  *)
(* handleInternal a Controller, SetTypeAction an application controller from  *)
(* the stack of its name, and the deferred calls destroy them and push them   *)
(* back in the opposite order, whether the request ends or panics.            *)
(*                                                                           *)
(* The pools of contexts and controllers are BoundedPool, which               *)
(* utils.SimpleLockStack implements; the stacks of application controllers    *)
(* use its operators.  A Pop or a Push is one step, and so is what the code   *)
(* does between two of them with objects only this request can reach.  Which  *)
(* unused name a newly made object gets makes no difference.                  *)
EXTENDS Naturals, Sequences, FiniteSets

CONSTANTS Slot,            \* goroutines of net/http, each serving requests in turn
          Context,         \* GoContext objects
          Controller,      \* revel.Controller objects
          App,             \* application controller objects
          Stack,           \* the stacks CachedMap can refer to
          Type,            \* application controller types
          Name,            \* their bare names, the keys of CachedMap
          NameOf,          \* NameOf[t]: t.Type.Name()
          None,
          ContextRoom,     \* server.context.maxstack
          ControllerRoom,  \* revel.controller.maxstack
          AppRoom,         \* revel.cache.controller.maxstack
          AppStart,        \* revel.cache.controller.stack
          Reuses           \* the values of revel.controller.reuse to consider

ASSUME RoomAssumption == /\ {ContextRoom, ControllerRoom, AppRoom} \subseteq Nat \ {0}
                         /\ AppStart \in Nat
                         /\ Reuses \subseteq BOOLEAN
ASSUME NameAssumption == NameOf \in [Type -> Name]
ASSUME NoneAssumption ==
  None \notin Slot \cup Context \cup Controller \cup App \cup Stack \cup Type

(* Making a stack or an application controller never fails for want of an     *)
(* unused name: there are more than can be stored, bound or about to be made. *)
AppDepth == IF AppStart > AppRoom THEN AppStart ELSE AppRoom
ASSUME EnoughAssumption ==
  /\ IsFiniteSet(Name) /\ IsFiniteSet(Controller) /\ IsFiniteSet(Stack) /\ IsFiniteSet(App)
  /\ Cardinality(Stack) > Cardinality(Name)
  /\ Cardinality(App) > AppStart + Cardinality(Controller) + Cardinality(Name) * AppDepth

VARIABLES
  phase,      \* phase[r]: how far r is with its request
  reuse,      \* RevelConfig.Controller.Reuse
  ctxFree, ctxOf,  \* goContextStack, and the context each slot popped
  ctlFree, ctlOf,  \* Controller.Stack, and the controller each slot popped
  cachedMap,  \* cachedMap[n]: the stack of the controllers named n, or None
  stack,      \* stack[s]: the type its creator makes and the stored objects
  ctx,        \* ctx[x]: the http.Request it wraps, its websocket, and its
              \*   Request.WebSocket, each by the slot it belongs to
  ctl,        \* ctl[k]: the fields of a revel.Controller
  app         \* app[a]: its Go type and the *revel.Controller embedded in it

vars == <<phase, reuse, ctxFree, ctxOf, ctlFree, ctlOf, cachedMap, stack, ctx, ctl, app>>

Contexts == INSTANCE BoundedPool
              WITH Client <- Slot, Object <- Context, NoObject <- None,
                   room <- ContextRoom, free <- ctxFree, held <- ctxOf
Controllers == INSTANCE BoundedPool
              WITH Client <- Slot, Object <- Controller, NoObject <- None,
                   room <- ControllerRoom, free <- ctlFree, held <- ctlOf
Apps == INSTANCE BoundedPool
              WITH Client <- Slot, Object <- App, NoObject <- None,
                   room <- AppRoom, free <- << >>, held <- << >>

BlankContext    == [request |-> None, socket |-> None, conn |-> None]
BlankController == [in |-> None, out |-> None, socket |-> None,
                    type |-> None, app |-> None, response |-> TRUE]
EmptyStack      == [type |-> None, free |-> << >>]
BlankApp        == [type |-> None, controller |-> None]

Elements(f) == {f[i] : i \in DOMAIN f}
Installed   == {cachedMap[n] : n \in Name} \ {None}
StoredApps  == UNION {Elements(stack[s].free) : s \in Installed}
BoundApps   == {ctl[k].app : k \in Controller} \ {None}
FreshApps   == App \ (StoredApps \cup BoundApps)

Init == /\ phase = [r \in Slot |-> "idle"]
        /\ reuse \in Reuses
        /\ ctxFree = << >> /\ ctxOf = [r \in Slot |-> None]
        /\ ctlFree = << >> /\ ctlOf = [r \in Slot |-> None]
        /\ cachedMap = [n \in Name |-> None]
        /\ stack = [s \in Stack |-> EmptyStack]
        /\ ctx = [x \in Context |-> BlankContext]
        /\ ctl = [k \in Controller |-> BlankController]
        /\ app = [a \in App |-> BlankApp]

Goes(r, from, to) == phase[r] = from /\ phase' = [phase EXCEPT ![r] = to]

-----------------------------------------------------------------------------
(* handleMux: take a context and point it at this request. *)

TakeContext(r) ==
  /\ \/ Goes(r, "idle", "context")
     \/ Goes(r, "idle", "handshake")     \* Upgrade: websocket
  /\ \/ /\ Contexts!TakeStored(r)
        /\ ctx' = [ctx EXCEPT ![ctxOf'[r]].request = r]
     \/ /\ Contexts!TakeNew(r)
        /\ ctx' = [ctx EXCEPT ![ctxOf'[r]] = [BlankContext EXCEPT !.request = r]]
  /\ UNCHANGED <<reuse, ctlFree, ctlOf, cachedMap, stack, ctl, app>>

Upgrade(r) ==
  /\ Goes(r, "handshake", "context")
  /\ ctx' = [ctx EXCEPT ![ctxOf[r]].socket = r, ![ctxOf[r]].conn = r]
  /\ UNCHANGED <<reuse, ctxFree, ctxOf, ctlFree, ctlOf, cachedMap, stack, ctl, app>>

HandshakeFails(r) ==
  /\ Goes(r, "handshake", "closing")
  /\ UNCHANGED <<reuse, ctxFree, ctxOf, ctlFree, ctlOf, cachedMap, stack, ctx, ctl, app>>

-----------------------------------------------------------------------------
(* handleInternal: take a controller and point it at the context.             *)
(* OutResponse.response is set by NewResponse only: a reused controller keeps *)
(* what Destroy left there.                                                   *)

Attached(c, r) == [c EXCEPT !.in = ctxOf[r], !.out = ctxOf[r],
                            !.socket = ctx[ctxOf[r]].socket]

TakeController(r) ==
  /\ Goes(r, "context", "controller")
  /\ \/ /\ Controllers!TakeStored(r)
        /\ ctl' = [ctl EXCEPT ![ctlOf'[r]] = Attached(@, r)]
     \/ /\ Controllers!TakeNew(r)
        /\ ctl' = [ctl EXCEPT ![ctlOf'[r]] = Attached(BlankController, r)]
  /\ UNCHANGED <<reuse, ctxFree, ctxOf, cachedMap, stack, ctx, app>>

-----------------------------------------------------------------------------
(* RouterFilter and SetTypeAction: no route or no such action, or a type is   *)
(* set, the stack of its name is looked up and made if it is not there, and   *)
(* an application controller is popped from the stack then under that name.   *)
(* CachedMap has no lock: looking up, installing and popping are three steps. *)

RouteFails(r) ==
  /\ Goes(r, "controller", "unwinding")
  /\ \E t \in Type \cup {None} : ctl' = [ctl EXCEPT ![ctlOf[r]].type = t]
  /\ UNCHANGED <<reuse, ctxFree, ctxOf, ctlFree, ctlOf, cachedMap, stack, ctx, app>>

LookUpStack(r, t) ==
  /\ \/ reuse /\ cachedMap[NameOf[t]] = None /\ Goes(r, "controller", "install")
     \/ (reuse => cachedMap[NameOf[t]] # None) /\ Goes(r, "controller", "bind")
  /\ ctl' = [ctl EXCEPT ![ctlOf[r]].type = t]
  /\ UNCHANGED <<reuse, ctxFree, ctxOf, ctlFree, ctlOf, cachedMap, stack, ctx, app>>

NameBound(r) == NameOf[ctl[ctlOf[r]].type]

InstallStack(r) ==
  LET t == ctl[ctlOf[r]].type
      s == CHOOSE s \in Stack \ Installed : TRUE
      f == CHOOSE f \in [1..AppStart -> FreshApps] :
             \A i, j \in 1..AppStart : f[i] = f[j] => i = j
  IN /\ Goes(r, "install", "bind")
     /\ cachedMap' = [cachedMap EXCEPT ![NameOf[t]] = s]
     /\ stack' = [z \in Stack |-> IF z = s THEN [type |-> t, free |-> f]
                                ELSE IF z \in Installed' THEN stack[z] ELSE EmptyStack]
     /\ app' = [a \in App |-> IF a \in Elements(f) THEN [BlankApp EXCEPT !.type = t] ELSE app[a]]
     /\ UNCHANGED <<reuse, ctxFree, ctxOf, ctlFree, ctlOf, ctx, ctl>>

Bound(r, a, t) ==
  /\ ctl' = [ctl EXCEPT ![ctlOf[r]].app = a]
  /\ app' = [app EXCEPT ![a] = [type |-> t, controller |-> ctlOf[r]]]

PopApp(r) ==
  LET s     == cachedMap[NameBound(r)]
      fresh == CHOOSE a \in FreshApps : TRUE
  IN /\ Goes(r, "bind", "acting")
     /\ \/ /\ reuse
           /\ stack[s].free # << >>
           /\ LET a == stack[s].free[Len(stack[s].free)] IN Bound(r, a, app[a].type)
           /\ stack' = [stack EXCEPT ![s].free = Apps!Taken(@)]
        \/ /\ reuse
           /\ stack[s].free = << >>
           /\ Bound(r, fresh, stack[s].type)
           /\ UNCHANGED stack
        \/ /\ ~reuse
           /\ Bound(r, fresh, ctl[ctlOf[r]].type)
           /\ UNCHANGED stack
     /\ UNCHANGED <<reuse, ctxFree, ctxOf, ctlFree, ctlOf, cachedMap, ctx>>

(* The action ran and its result was applied, or one of them panicked: the    *)
(* deferred calls are the same.                                               *)
Finish(r) ==
  /\ Goes(r, "acting", "unwinding")
  /\ UNCHANGED <<reuse, ctxFree, ctxOf, ctlFree, ctlOf, cachedMap, stack, ctx, ctl, app>>

-----------------------------------------------------------------------------
(* Controller.Destroy and the Push of the controller.                         *)

(* Slip: the name is cleared before the application controller is returned,   *)
(* so it goes to whichever stack an empty name leads to.                      *)
ReturnAppUnderAnyName(r) ==
  LET a == ctl[ctlOf[r]].app IN
  /\ reuse /\ phase[r] = "unwinding" /\ a # None
  /\ \E s \in Installed : stack' = [stack EXCEPT ![s].free = Apps!Returned(@, a)]
  /\ app' = [app EXCEPT ![a].controller = None]
  /\ ctl' = [ctl EXCEPT ![ctlOf[r]].app = None]
  /\ UNCHANGED <<phase, reuse, ctxFree, ctxOf, ctlFree, ctlOf, cachedMap, ctx>>

(* Slip: the type is tested in place of AppController. *)
ReturnAppWhenTyped(r) ==
  LET a == ctl[ctlOf[r]].app IN
  /\ reuse /\ phase[r] = "unwinding"
  /\ ctl[ctlOf[r]].type # None /\ cachedMap[NameBound(r)] # None
  /\ app' = [app EXCEPT ![a].controller = None]
  /\ stack' = [stack EXCEPT ![cachedMap[NameBound(r)]].free = Apps!Returned(@, a)]
  /\ ctl' = [ctl EXCEPT ![ctlOf[r]].app = None]
  /\ UNCHANGED <<phase, reuse, ctxFree, ctxOf, ctlFree, ctlOf, cachedMap, ctx>>

(* Slip: the embedded *revel.Controller is left in the application controller. *)
ReturnAppStillBound(r) ==
  LET a == ctl[ctlOf[r]].app IN
  /\ reuse /\ phase[r] = "unwinding" /\ a # None
  /\ stack' = [stack EXCEPT ![cachedMap[NameBound(r)]].free = Apps!Returned(@, a)]
  /\ ctl' = [ctl EXCEPT ![ctlOf[r]].app = None]
  /\ UNCHANGED <<phase, reuse, ctxFree, ctxOf, ctlFree, ctlOf, cachedMap, ctx, app>>

(* Slip: AppController is left set, and Destroy returns it once more. *)
ReturnAppTwice(r) ==
  LET a == ctl[ctlOf[r]].app IN
  /\ reuse /\ phase[r] = "unwinding" /\ a # None
  /\ app' = [app EXCEPT ![a].controller = None]
  /\ stack' = [stack EXCEPT ![cachedMap[NameBound(r)]].free = Apps!Returned(@, a)]
  /\ ctl' = [ctl EXCEPT ![ctlOf[r]].app = IF a \in StoredApps THEN None ELSE a]
  /\ UNCHANGED <<phase, reuse, ctxFree, ctxOf, ctlFree, ctlOf, cachedMap, ctx>>

ReturnApp(r) ==
  LET a == ctl[ctlOf[r]].app IN
  /\ reuse /\ phase[r] = "unwinding" /\ a # None
  /\ app' = [app EXCEPT ![a].controller = None]
  /\ stack' = [stack EXCEPT ![cachedMap[NameBound(r)]].free = Apps!Returned(@, a)]
  /\ ctl' = [ctl EXCEPT ![ctlOf[r]].app = None]
  /\ UNCHANGED <<phase, reuse, ctxFree, ctxOf, ctlFree, ctlOf, cachedMap, ctx>>

(* Slip: Request.Destroy keeps In. *)
ClearedKeepingIn(c) == [c EXCEPT !.type = None, !.response = FALSE]

(* Request.Destroy keeps WebSocket, OutResponse.Destroy keeps Server. *)
Cleared(c) == [c EXCEPT !.in = None, !.type = None, !.response = FALSE]

DestroyController(r) ==
  /\ Goes(r, "unwinding", "cleared")
  /\ reuse /\ ctl[ctlOf[r]].app = None
  /\ ctl' = [ctl EXCEPT ![ctlOf[r]] = Cleared(@)]
  /\ UNCHANGED <<reuse, ctxFree, ctxOf, ctlFree, ctlOf, cachedMap, stack, ctx, app>>

PushController(r) ==
  /\ Goes(r, "cleared", "closing")
  /\ Controllers!Return(r)
  /\ UNCHANGED <<reuse, ctxFree, ctxOf, cachedMap, stack, ctx, ctl, app>>

(* Without reuse nothing is deferred and the controller becomes garbage. *)
ForgetController(r) ==
  /\ ~reuse
  /\ Goes(r, "unwinding", "closing")
  /\ ctlOf' = [ctlOf EXCEPT ![r] = None]
  /\ ctl' = [ctl EXCEPT ![ctlOf[r]] = BlankController]
  /\ UNCHANGED <<reuse, ctxFree, ctxOf, ctlFree, cachedMap, stack, ctx, app>>

-----------------------------------------------------------------------------
(* GoContext.Destroy and the Push of the context. *)

(* Slip: the context's own websocket stays as well. *)
ClosedKeepingSocket(x) == [x EXCEPT !.request = None]

(* GoRequest.Destroy keeps Request.WebSocket. *)
Closed(x) == [x EXCEPT !.request = None, !.socket = None]

DestroyContext(r) ==
  /\ Goes(r, "closing", "closed")
  /\ ctx' = [ctx EXCEPT ![ctxOf[r]] = Closed(@)]
  /\ UNCHANGED <<reuse, ctxFree, ctxOf, ctlFree, ctlOf, cachedMap, stack, ctl, app>>

PushContext(r) ==
  /\ Goes(r, "closed", "idle")
  /\ Contexts!Return(r)
  /\ UNCHANGED <<reuse, ctlFree, ctlOf, cachedMap, stack, ctx, ctl, app>>

Serve(r) == \/ TakeContext(r) \/ Upgrade(r) \/ HandshakeFails(r)
            \/ TakeController(r)
            \/ RouteFails(r) \/ (\E t \in Type : LookUpStack(r, t))
            \/ InstallStack(r) \/ PopApp(r) \/ Finish(r)
            \/ ReturnApp(r) \/ DestroyController(r) \/ PushController(r)
            \/ ForgetController(r)
            \/ DestroyContext(r) \/ PushContext(r)

Next == \E r \in Slot : Serve(r)

Spec == Init /\ [][Next]_vars

-----------------------------------------------------------------------------
TypeOK ==
  /\ phase \in [Slot -> {"idle", "handshake", "context", "controller", "install", "bind",
                         "acting", "unwinding", "cleared", "closing", "closed"}]
  /\ reuse \in Reuses
  /\ ctxFree \in Seq(Context) /\ ctlFree \in Seq(Controller)
  /\ ctxOf \in [Slot -> Context \cup {None}]
  /\ ctlOf \in [Slot -> Controller \cup {None}]
  /\ cachedMap \in [Name -> Stack \cup {None}]
  /\ stack \in [Stack -> [type : Type \cup {None}, free : Seq(App)]]
  /\ ctx \in [Context -> [request : Slot \cup {None}, socket : Slot \cup {None},
                           conn : Slot \cup {None}]]
  /\ ctl \in [Controller -> [in : Context \cup {None}, out : Context \cup {None},
                             socket : Slot \cup {None}, type : Type \cup {None},
                             app : App \cup {None}, response : BOOLEAN]]
  /\ app \in [App -> [type : Type \cup {None}, controller : Controller \cup {None}]]

Serving(r) == phase[r] \in {"controller", "install", "bind", "acting", "unwinding"}

(* Where what a request writes to its controller's Response ends up: the      *)
(* websocket, or the writer of the context's request.                         *)
ClientOf(c) == IF c.socket # None THEN c.socket ELSE ctx[c.out].request

(* What a request reads and writes is its own: from SetController to the      *)
(* destruction of the controller, its controller leads to its context, and    *)
(* through the context back to this request, never to one that was served     *)
(* with the same objects before or is being served next to it.  A controller  *)
(* that leads to a context at all is the controller of a request that has it. *)
Isolation ==
  /\ \A r \in Slot : Serving(r) =>
       /\ ctl[ctlOf[r]].in = ctxOf[r]
       /\ ctx[ctxOf[r]].request = r
       /\ ClientOf(ctl[ctlOf[r]]) = r
  /\ \A k \in Controller : ctl[k].in # None =>
       \E r \in Slot : ctlOf[r] = k /\ ctxOf[r] = ctl[k].in

(* What is pushed back leads nowhere: a stored context wraps no request and    *)
(* has no websocket to answer through, a stored controller has no type, no    *)
(* application controller and no request, a stored application controller     *)
(* embeds no controller.  Three fields are no part of it because the code     *)
(* leaves them: a context's Request.WebSocket (conn), which nothing reads and  *)
(* which goes on referring to the last websocket the context served, and a    *)
(* controller's Request.WebSocket and Out.Server (socket and out), which       *)
(* SetController sets anew.                                                   *)
StoredBlank ==
  /\ \A x \in Elements(ctxFree) : ctx[x].request = None /\ ctx[x].socket = None
  /\ \A k \in Elements(ctlFree) : /\ ctl[k].in = None
                                  /\ ctl[k].type = None
                                  /\ ctl[k].app = None
  /\ \A a \in StoredApps : app[a].controller = None

(* While an action runs, the controller embedded in its receiver is the one   *)
(* that serves this request, and nobody else runs an action on the receiver   *)
(* or finds it in a stack.                                                    *)
ReceiverBound ==
  \A r \in Slot : phase[r] = "acting" =>
    LET a == ctl[ctlOf[r]].app IN
    /\ app[a].controller = ctlOf[r]
    /\ a \notin StoredApps
    /\ \A k \in Controller \ {ctlOf[r]} : ctl[k].app # a

(* The receiver of an action has the Go type the action was looked up on.     *)
(* Controller.AppController is documented as "The controller that was         *)
(* instantiated", of the Type next to it.  The pools are found by the type's   *)
(* name, so it is checked of types whose names differ; two of one name in two  *)
(* packages share a pool, and need not have it.                               *)
ReceiverOfType ==
  \A r \in Slot : phase[r] = "acting" =>
    app[ctl[ctlOf[r]].app].type = ctl[ctlOf[r]].type

=============================================================================
