------------------------------ MODULE Router ------------------------------
(* The router: a routes file is parsed line by line into Routes, from which   *)
(* updateTree builds the path tree, while requests are matched against the    *)
(* tree and views ask for the URL of an action.  Refresh holds no lock        *)
(* against either of the two; only the writes of the action path cache are    *)
(* locked.                                                                    *)
(*                                                                           *)
(* An element of a path or of an action is a literal, a variable like :id, *)
(* or, at the end of a path, a star.  app.root is empty and no route has    *)
(* fixed arguments.  The modules and their controllers do not change after    *)
(* the start-up.  One Add to the tree, which is not locked, is one step.      *)
EXTENDS Naturals, Sequences, FiniteSets, SequencesExt

CONSTANTS
  Module, AppModule, \* the modules; the application itself is one
  Type,              \* controller types, [module, name, methods]
  Files,             \* contents conf/routes may have: sequences of lines
  ModuleFile,        \* the routes file of each module that may be included
  Asked,             \* actions views reverse: as they stand in a routes file
  Args,              \* values views give for the variables of a path, [elements, ends]
  Requests,          \* [verb, override, path]: X-HTTP-Method-Override may be None
  None, NotFound     \* no value; the RouteMatch notFound, and the action 404

Lit(n)  == [kind |-> "lit", name |-> n]
Var(n)  == [kind |-> "var", name |-> n]
Star(n) == [kind |-> "star", name |-> n]

Element == [kind : {"lit", "var", "star"}, name : STRING]
Action  == [ns : Module \cup {None}, controller : Element, method : Element]
Include == [include : STRING]               \* "module:name" in the place of an action
Line    == [verb : STRING, path : Seq(Element), action : Action \cup Include \cup {NotFound}]

\* A variable of an action stands in the path.  Refresh does not test it: the first
\* request for a line without it panics (router.go:219) or ends the process (router.go:212).
InPath(path, action) ==
  \A e \in {action.controller, action.method} : e.kind = "var" => e \in Range(path)

\* A route of the table, [verb, path, action, type, module].
Table == [verb : STRING, path : Seq(Element), action : Action \cup {NotFound},
          type : Type \cup {None}, module : Module]

ASSUME AppAssumption  == AppModule \in Module
ASSUME FileAssumption ==
  /\ Files \subseteq Seq(Line)
  /\ ModuleFile \in [Module \ {AppModule} -> Seq({l \in Line : l.action \notin Include})]
ASSUME LineAssumption ==
  \A f \in Files \cup Range(ModuleFile) : \A i \in DOMAIN f :
    f[i].action \in Action => InPath(f[i].path, f[i].action)
ASSUME TypeAssumption ==
  /\ \A t \in Type : t.module \in Module
  /\ \A t, u \in Type : t.module = u.module /\ t.name = u.name => t = u
ASSUME AskedAssumption == Asked \subseteq Action
\* A value by what the server finds of it in the path of a URL, where it is put as it is:
\* the elements between its slashes, and whether a '?' or a '#' ends the path there.
ASSUME ArgAssumption ==
  \A arg \in Args : arg.elements \in Seq(STRING) /\ arg.elements # << >> /\ arg.ends \in BOOLEAN
ASSUME NoneAssumption ==
  /\ None \notin Type /\ None \notin Module /\ None \notin Table
  /\ NotFound \notin Action \cup Include

VARIABLES
  Routes,     \* Router.Routes; nil is << >>
  Tree,       \* Router.Tree: its leaves in the order they were added
  paths,      \* leaves updateTree has still to add, by the first line of each
  cache,      \* actionPathCacheMap
  phase,      \* where Refresh is: "quiet", "parse", "parsed", "build"
  outcome,    \* how the last Refresh ended
  todo,       \* lines still to be parsed
  parsed,     \* routes of the lines parsed so far
  missed,     \* actions whose Reverse has missed the cache and has yet to store
  overlapped  \* cached actions stored by a Reverse that ran while Refresh did

vars == <<Routes, Tree, paths, cache, phase, outcome, todo, parsed, missed, overlapped>>

Init ==
  /\ Routes = << >> /\ Tree = << >> /\ paths = << >> /\ cache = << >>
  /\ phase = "quiet" /\ outcome = "none" /\ todo = << >> /\ parsed = << >>
  /\ missed = {} /\ overlapped = {}

(* ------------------------------ controllers ------------------------------ *)

ControllerByName(m, n) == {t \in Type : t.module = m /\ t.name = n}

\* An action whose controller the path of a request names.
Open(action) == action.ns = None /\ action.controller.kind = "var"

\* What an action path [ns, controller, method] may mean to a line of module m, or to a
\* Reverse (m is None): a set, for the scan of the map of controllers has no order.
Meanings(m, action) ==
  LET n == action.controller.name
      own == IF action.ns # None THEN ControllerByName(action.ns, n)
             ELSE IF m # None THEN ControllerByName(m, n) ELSE {}
      scanned == IF action.ns = None /\ own = {} THEN {t \in Type : t.name = n} ELSE {}
  IN  IF Open(action)
      THEN {[type |-> None, module |-> m]}
      ELSE {[type |-> t, module |-> t.module] : t \in own \cup scanned}

\* The cache after entry has been stored under its key, and also under the name
\* with the namespace when the key has none.
Keys(entry) ==
  {entry.key} \cup (IF entry.key.ns = None /\ entry.type # None
                    THEN {[entry.key EXCEPT !.ns = entry.type.module]} ELSE {})
Stored(c, entry) ==
  [k \in DOMAIN c \cup Keys(entry) |-> IF k \in Keys(entry) THEN entry ELSE c[k]]

\* ActionPathData for an action with meaning x.
PathData(action, x, route) ==
  [key |-> action, module |-> x.module, type |-> x.type,
   controller |-> action.controller, method |-> action.method, route |-> route]

(* ------------------------------ Refresh ---------------------------------- *)

\* The lines of a routes file under a path.  An include puts the lines of the module in its
\* place, and nothing if the module is not active.
Read(m, prefix, file) ==
  [i \in DOMAIN file |-> [verb |-> file[i].verb, path |-> prefix \o file[i].path,
                          action |-> file[i].action, module |-> m]]
Included(line) ==
  IF line.action.include \in DOMAIN ModuleFile
  THEN Read(line.action.include, line.path, ModuleFile[line.action.include]) ELSE << >>

\* NewRoute.  The ModuleSource of an included route is the included module in the end.
NewRoute(line, x) ==
  [verb |-> line.verb, path |-> line.path, action |-> line.action, type |-> x.type,
   module |-> IF line.module # AppModule THEN line.module ELSE x.module]

Literal(route) == route.action.controller.kind = "lit" /\ route.action.method.kind = "lit"
ValidateRoute(route) ==
  route.action # NotFound /\ Literal(route) => route.action.method.name \in route.type.methods

TreePath(route) == <<route.verb, route.path>>

\* Slip: a path keeps the last of its routes only.
PathsLastRoute(routes) ==
  LET IsLast(i) == \A j \in DOMAIN routes : TreePath(routes[j]) = TreePath(routes[i]) => j <= i
  IN  [i \in {n \in DOMAIN routes : IsLast(n)} |->
         [verb |-> routes[i].verb, path |-> routes[i].path, routes |-> [j \in {i} |-> routes[j]]]]

\* The paths of the table by their first lines, each with all its routes by their lines.
Alike(routes, i)   == {j \in DOMAIN routes : TreePath(routes[j]) = TreePath(routes[i])}
IsFirst(routes, i) == \A j \in Alike(routes, i) : i <= j
Leaf(routes, i)    == [verb |-> routes[i].verb, path |-> routes[i].path,
                       routes |-> [j \in Alike(routes, i) |-> routes[j]]]
Paths(routes)      == [i \in {n \in DOMAIN routes : IsFirst(routes, n)} |-> Leaf(routes, i)]

\* The path tree: Add fails where a leaf is, whatever the names of its variables; Find
\* takes the leaf that was added first of those that match.
Shape(leaf) ==
  <<leaf.verb, [i \in DOMAIN leaf.path |->
      IF leaf.path[i].kind = "lit" THEN leaf.path[i] ELSE [kind |-> leaf.path[i].kind]]>>
Taken(tree, leaf) == \E i \in DOMAIN tree : Shape(tree[i]) = Shape(leaf)

Ends(o, r) == /\ phase' = "quiet" /\ outcome' = o /\ Routes' = r
              /\ todo' = << >> /\ parsed' = << >> /\ paths' = << >>

\* Slip: nobody handles ROUTE_REFRESH_REQUESTED.
RefreshKeepsCache ==
  /\ phase = "quiet" /\ overlapped' = missed
  /\ phase' = "parse" /\ parsed' = << >>
  /\ \E f \in Files : todo' = Read(AppModule, << >>, f)
  /\ UNCHANGED <<Routes, Tree, paths, cache, outcome, missed>>

\* Refresh raises ROUTE_REFRESH_REQUESTED, which clears the cache, and reads the file,
\* which anyone may have edited since.
RefreshRequested ==
  /\ phase = "quiet"
  /\ cache' = << >> /\ overlapped' = missed
  /\ phase' = "parse" /\ parsed' = << >>
  /\ \E f \in Files : todo' = Read(AppModule, << >>, f)
  /\ UNCHANGED <<Routes, Tree, paths, outcome, missed>>

\* The file cannot be read: the table is empty then, and the tree remains.
RefreshUnreadable ==
  /\ phase = "quiet"
  /\ cache' = << >> /\ overlapped' = missed
  /\ Ends("invalid", << >>)
  /\ UNCHANGED <<Tree, missed>>

IncludeUnreadable ==
  /\ phase = "parse" /\ todo # << >> /\ Head(todo).action \in Include
  /\ Head(todo).action.include \in DOMAIN ModuleFile
  /\ Ends("invalid", << >>)
  /\ UNCHANGED <<Tree, cache, missed, overlapped>>

ParseInclude ==
  /\ phase = "parse" /\ todo # << >> /\ Head(todo).action \in Include
  /\ todo' = Included(Head(todo)) \o Tail(todo)
  /\ UNCHANGED <<Routes, Tree, paths, cache, phase, outcome, parsed, missed, overlapped>>

ParseNotFound ==
  /\ phase = "parse" /\ todo # << >> /\ Head(todo).action = NotFound
  /\ parsed' = Append(parsed, NewRoute(Head(todo), [type |-> None, module |-> Head(todo).module]))
  /\ todo' = Tail(todo)
  /\ UNCHANGED <<Routes, Tree, paths, cache, phase, outcome, missed, overlapped>>

\* The cache keeps what NewRoute stored when validateRoute refuses the route.
ParseRoute ==
  /\ phase = "parse" /\ todo # << >> /\ Head(todo).action \in Action
  /\ \E x \in Meanings(Head(todo).module, Head(todo).action) :
       LET route == NewRoute(Head(todo), x)
           entry == PathData(Head(todo).action, x, route)
       IN  /\ cache' = Stored(cache, entry)
           /\ overlapped' = overlapped \ (Keys(entry) \ missed)
           /\ IF ValidateRoute(route)
              THEN /\ parsed' = Append(parsed, route) /\ todo' = Tail(todo)
                   /\ UNCHANGED <<phase, outcome, Routes, paths>>
              ELSE Ends("invalid", << >>)
  /\ UNCHANGED <<Tree, missed>>

\* A controller no module has: NewRoute panics, and Refresh assigns nothing.
ParsePanics ==
  /\ phase = "parse" /\ todo # << >> /\ Head(todo).action \in Action
  /\ Meanings(Head(todo).module, Head(todo).action) = {}
  /\ Ends("panicked", Routes)
  /\ UNCHANGED <<Tree, cache, missed, overlapped>>

RefreshCompleted ==
  /\ phase = "parse" /\ todo = << >>
  /\ Routes' = parsed /\ parsed' = << >> /\ phase' = "parsed"
  /\ UNCHANGED <<Tree, paths, cache, outcome, todo, missed, overlapped>>

NewTree ==
  /\ phase = "parsed"
  /\ Tree' = << >> /\ paths' = Paths(Routes) /\ phase' = "build"
  /\ UNCHANGED <<Routes, cache, outcome, todo, parsed, missed, overlapped>>

\* A path of GET is added for HEAD as well: two steps, for requests come between.
Added(leaves, i) == IF leaves[i].verb = "GET" THEN [leaves EXCEPT ![i].verb = "HEAD"]
                    ELSE Restrict(leaves, DOMAIN leaves \ {i})
AddPath ==
  /\ phase = "build" /\ DOMAIN paths # {}
  /\ LET i == Min(DOMAIN paths)
     IN  ~Taken(Tree, paths[i]) /\ Tree' = Append(Tree, paths[i]) /\ paths' = Added(paths, i)
  /\ UNCHANGED <<Routes, cache, phase, outcome, todo, parsed, missed, overlapped>>

AddFails ==
  /\ phase = "build" /\ DOMAIN paths # {} /\ Taken(Tree, paths[Min(DOMAIN paths)])
  /\ Ends("duplicate", Routes)
  /\ UNCHANGED <<Tree, cache, missed, overlapped>>

TreeDone ==
  /\ phase = "build" /\ DOMAIN paths = {}
  /\ Ends("ok", Routes)
  /\ UNCHANGED <<Tree, cache, missed, overlapped>>

(* ------------------------------ Route ------------------------------------ *)

Verb(req) == IF req.override # None /\ req.verb = "POST" THEN req.override ELSE req.verb

MatchesPath(pattern, path) ==
  LET n == Len(pattern)
      open == n > 0 /\ pattern[n].kind = "star"
  IN  /\ IF open THEN Len(path) >= n ELSE Len(path) = n
      /\ \A i \in 1..n : pattern[i].kind = "lit" => pattern[i].name = path[i]
Matches(leaf, verb, path) == leaf.verb \in {"*", verb} /\ MatchesPath(leaf.path, path)

Find(tree, verb, path) == {i \in DOMAIN tree : Matches(tree[i], verb, path)}

Value(e, pattern, path) ==
  IF e.kind = "lit" THEN e.name ELSE path[CHOOSE i \in DOMAIN pattern : pattern[i] = e]

\* The controller type of a route for a path: None where a variable names none.
TypeFor(route, path) ==
  IF route.action.controller.kind = "lit" THEN route.type
  ELSE LET found == ControllerByName(route.module,
                                     Value(route.action.controller, route.path, path))
       IN  IF found = {} THEN None ELSE CHOOSE t \in found : TRUE

\* The route of a leaf that decides: the first 404 or the first with a controller.
Decides(route, path) == route.action = NotFound \/ TypeFor(route, path) # None
Decision(routes, path) ==
  LET deciding == {i \in DOMAIN routes : Decides(routes[i], path)}
      route    == routes[Min(deciding)]
  IN  IF deciding = {} \/ route.action = NotFound THEN NotFound
      ELSE [type |-> TypeFor(route, path), method |-> Value(route.action.method, route.path, path)]
Route(tree, verb, path) ==
  LET leaves == Find(tree, verb, path)
  IN  IF leaves = {} THEN None ELSE Decision(tree[Min(leaves)].routes, path)

\* RouterFilter: the action a match leads to, or NotFound.
RouterFilter(match) ==
  IF match \in {None, NotFound} THEN NotFound
  ELSE IF match.method \in match.type.methods THEN match ELSE NotFound

(* ------------------------------ Reverse ---------------------------------- *)

Variable(route) == route.action # NotFound /\ route.action.controller.kind = "var"

\* Slip: the module of the route is not compared.
RouteForAnyModule(entry) ==
  LET wild == {i \in DOMAIN Routes : Variable(Routes[i])}
  IN  IF entry.route # None \/ wild = {} THEN entry.route ELSE Routes[Min(wild)]

\* The route of an action no line names: the first of its module whose controller is a
\* variable.  The other conditions of the loop compare the verb of the route with the
\* name of the method and never hold.
RouteFor(entry) ==
  LET wild == {i \in DOMAIN Routes : Variable(Routes[i]) /\ Routes[i].module = entry.module}
  IN  IF entry.route # None \/ wild = {} THEN entry.route ELSE Routes[Min(wild)]

\* What the view gives a value for, and what is put for an element of the path.
FromView(e, action) == e.kind # "lit" /\ e \notin {action.method, action.controller}
Part(entry, e, arg) ==
  IF FromView(e, entry.route.action) THEN arg.elements
  ELSE IF e.kind = "lit" THEN <<e.name>>
  ELSE IF e = entry.route.action.method THEN <<entry.method.name>> ELSE <<entry.controller.name>>

\* Values without a slash, a '?' or a '#' in them, and not empty.
OneElement(arg) == Len(arg.elements) = 1 /\ arg.elements[1] # "" /\ ~arg.ends

\* Where the URL of a reversed entry leads: verb and path.  What the view gives no
\* variable of the path for goes to the query and is left out.  The path tree drops an
\* empty element at the end.  (For values of one element it is written out.)
Url(entry, arg) ==
  LET path   == entry.route.path
      values == {i \in DOMAIN path : FromView(path[i], entry.route.action)}
      end    == IF arg.ends /\ values # {} THEN Min(values) ELSE Len(path)
      joined == FlattenSeq([i \in 1..end |-> Part(entry, path[i], arg)])
  IN  IF OneElement(arg) THEN [i \in DOMAIN path |-> Part(entry, path[i], arg)[1]]
      ELSE IF joined # << >> /\ Last(joined) = "" THEN Front(joined) ELSE joined
UrlVerb(entry) == IF entry.route.verb = "*" THEN "GET" ELSE entry.route.verb

\* Both keys of an entry lead to the same object, the route of which is set here.
WithRoute(c, entry) ==
  [k \in DOMAIN c |-> IF c[k] = entry THEN [entry EXCEPT !.route = RouteFor(entry)] ELSE c[k]]

ReverseHit(a) ==
  /\ a \in DOMAIN cache /\ RouteFor(cache[a]) # cache[a].route
  /\ cache' = WithRoute(cache, cache[a])
  /\ UNCHANGED <<Routes, Tree, paths, phase, outcome, todo, parsed, missed, overlapped>>

\* The cache is read without its lock, and written under it later.  One at a time here.
ReverseMiss(a) ==
  /\ missed = {} /\ a \notin DOMAIN cache
  /\ missed' = {a}
  /\ overlapped' = IF phase = "quiet" THEN overlapped \ {a} ELSE overlapped \cup {a}
  /\ UNCHANGED <<Routes, Tree, paths, cache, phase, outcome, todo, parsed>>

ReverseStores(a) ==
  /\ a \in missed
  /\ \E x \in Meanings(None, a) :
       LET entry == PathData(a, x, None)
           stored == Stored(cache, entry)
       IN  /\ cache' = WithRoute(stored, entry)
           /\ overlapped' = IF a \in overlapped THEN overlapped \cup Keys(entry)
                            ELSE overlapped \ Keys(entry)
  /\ missed' = {}
  /\ UNCHANGED <<Routes, Tree, paths, phase, outcome, todo, parsed>>

ReverseFails(a) ==
  /\ a \in missed /\ Meanings(None, a) = {}
  /\ missed' = {} /\ overlapped' = overlapped \ {a}
  /\ UNCHANGED <<Routes, Tree, paths, cache, phase, outcome, todo, parsed>>

(* ------------------------------------------------------------------------- *)

Refresh == \/ RefreshRequested \/ RefreshUnreadable \/ ParseInclude \/ IncludeUnreadable
           \/ ParseNotFound \/ ParseRoute \/ ParsePanics
           \/ RefreshCompleted \/ NewTree \/ AddPath \/ AddFails \/ TreeDone
ReverseError == \E a \in Asked : ReverseHit(a) \/ ReverseMiss(a) \/ ReverseStores(a) \/ ReverseFails(a)

Next == Refresh \/ ReverseError
Spec == Init /\ [][Next]_vars

(* ------------------------------ properties ------------------------------- *)

Pending == [verb : STRING, path : Seq(Element), action : Action \cup Include \cup {NotFound},
            module : Module]
Entry   == [key : Action, module : Module \cup {None}, type : Type \cup {None},
            controller : Element, method : Element, route : Table \cup {None}]
IsLeaf(leaf) == /\ leaf.path \in Seq(Element) /\ Range(leaf.routes) \subseteq Table
                /\ leaf.verb = "HEAD" \/ \E route \in Range(leaf.routes) : leaf.verb = route.verb

\* Each variable is in its type.
TypeOK ==
  /\ Routes \in Seq(Table) /\ parsed \in Seq(Table) /\ todo \in Seq(Pending)
  /\ \A n \in DOMAIN Tree : IsLeaf(Tree[n])
  /\ \A i \in DOMAIN paths : IsLeaf(paths[i])
  /\ \A k \in DOMAIN cache : k \in Action /\ cache[k] \in Entry
  /\ phase \in {"quiet", "parse", "parsed", "build"}
  /\ outcome \in {"none", "ok", "invalid", "panicked", "duplicate"}
  /\ missed \subseteq Asked /\ overlapped \subseteq Action

Quiet == phase = "quiet" /\ outcome = "ok"

\* What the routes file promises for a request: the first line that matches decides,
\* together with the lines of the same verb and path; GET lines also take HEAD.
Takes(route, verb, path) ==
  /\ \/ route.verb \in {"*", verb}
     \/ route.verb = "GET" /\ verb = "HEAD"
  /\ MatchesPath(route.path, path)
Promised(verb, path) ==
  LET taking == {i \in DOMAIN Routes : Takes(Routes[i], verb, path)}
  IN  IF taking = {} THEN None
      ELSE Decision([j \in Alike(Routes, Min(taking)) |-> Routes[j]], path)

\* Whatever order the lines overlap in, a request is answered by the line that is the
\* first in the file to match it, also while updateTree builds a tree that running
\* requests already use, or has given up half-way: a path not added yet may be missing,
\* but no request reaches an action its line is not about.
FirstLineAnswers ==
  (phase = "build" \/ (phase = "quiet" /\ outcome \in {"ok", "duplicate"})) =>
    \A q \in Requests :
      LET answer == Route(Tree, Verb(q), q.path)
      IN  \/ answer = Promised(Verb(q), q.path)
          \/ answer = None /\ ~Quiet

\* After a Refresh the path cache speaks of the present routes only: an entry leads to
\* the last line that names it or, when none does, to a variable line or to none yet.
\* (Actions reversed while the Refresh ran may keep a route of the file before.)
Names(route, k, entry) == /\ route.action = entry.key
                          /\ k = entry.key \/ route.type.module = k.ns
CacheFollowsRefresh ==
  Quiet => \A k \in DOMAIN cache \ overlapped :
    LET e      == cache[k]
        naming == {i \in DOMAIN Routes : Names(Routes[i], k, e)}
    IN  IF naming # {} THEN e.route = Routes[Max(naming)]
        ELSE e.route # None => e.route \in Range(Routes) /\ Variable(e.route)

\* The URL an entry of the cache gives is a request that no line before its route takes.
Reverses(k, arg) ==
  LET e == cache[k]
      i == CHOOSE n \in DOMAIN Routes : Routes[n] = e.route
  IN  /\ k.controller.kind = "lit" /\ k.method.kind = "lit" /\ e.route \in Range(Routes)
      /\ \A j \in 1..(i - 1) : Takes(Routes[j], UrlVerb(e), Url(e, arg)) => Routes[j] = e.route
Invokes(k, arg) ==
  LET e == cache[k]
  IN  RouterFilter(Route(Tree, UrlVerb(e), Url(e, arg)))
        = RouterFilter([type |-> e.type, method |-> k.method.name])

\* The line takes the URL, with the names of the action in their places.
InPlace(e, url) ==
  LET path == e.route.path
      action == e.route.action
  IN  /\ Takes(e.route, UrlVerb(e), url)
      /\ \A i \in DOMAIN path : path[i].kind = "var" =>
           /\ path[i] = action.method => url[i] = e.method.name
           /\ path[i] = action.controller /\ path[i] # action.method => url[i] = e.controller.name

\* The URL made for an action leads back to it ("a url capable of invoking a given
\* controller method", ReverseURL): the request it makes, if no earlier line takes it,
\* invokes that method of that controller, whatever was cached before.  That goes for
\* values of one element, and for any other that leaves the names in their places, as
\* a path under a star does: what is empty or holds '/', '?' or '#' may lead elsewhere.
\* (Left out are also a line whose controller alone is a variable, chosen for other
\* methods, and one whose controller and method are the same variable.)
ReverseLeadsBack ==
  Quiet => \A k \in DOMAIN cache \ overlapped, arg \in Args :
    LET action == cache[k].route.action
        named  == \/ action.method = k.method
                  \/ action.method.kind = "var" /\ action.method # action.controller
    IN  (Reverses(k, arg) /\ named /\ (OneElement(arg) \/ InPlace(cache[k], Url(cache[k], arg))))
          => Invokes(k, arg)
=============================================================================
