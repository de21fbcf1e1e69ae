---------------------------- MODULE RouterProofs ----------------------------
(* The router (Router, router.go): while updateTree builds the tree and after *)
(* it, a request is answered by the first line of the file that takes it; the *)
(* path cache follows the file; and the URL made for an action leads back to  *)
(* it, for any routes files, controllers and requests.                        *)
EXTENDS Router, TLAPS, WellFoundedInduction

(* The verbs a line is added to the tree for, and its leaf for one of them.   *)
Verbs(route)         == {route.verb} \cup (IF route.verb = "GET" THEN {"HEAD"} ELSE {})
LeafOf(routes, i, v) == [verb |-> v, path |-> routes[i].path,
                         routes |-> [j \in Alike(routes, i) |-> routes[j]]]
Firsts(routes)       == {i \in DOMAIN routes : IsFirst(routes, i)}
Leaves(routes)       == UNION {{LeafOf(routes, i, v) : v \in Verbs(routes[i])} : i \in DOMAIN routes}

Grown(i, v) == \E n \in 1..Len(Tree) : Tree[n] = LeafOf(Routes, i, v)

(* A leaf stands for a line of the table, and the leaves of the lines before  *)
(* have been added before it.                                                 *)
Ordered(n, i) ==
  \A j \in Firsts(Routes) : \A w \in Verbs(Routes[j]) :
    j < i => \E m \in 1..(n - 1) : Tree[m] = LeafOf(Routes, j, w)
Stands(n) == \E i \in Firsts(Routes) : \E v \in Verbs(Routes[i]) :
               Tree[n] = LeafOf(Routes, i, v) /\ Ordered(n, i)

InUse == phase = "build" \/ (phase = "quiet" /\ outcome \in {"ok", "duplicate"})

TreeRight == InUse => /\ Tree \in Seq(Leaves(Routes))
                      /\ \A n \in 1..Len(Tree) : Stands(n)

(* A line that has still to be added has perhaps its leaf for GET already.    *)
Rest(i) == \/ paths[i] = LeafOf(Routes, i, Routes[i].verb)
           \/ /\ Routes[i].verb = "GET" /\ Grown(i, "GET")
              /\ paths[i] = LeafOf(Routes, i, "HEAD")
BuildRight ==
  /\ phase = "build" =>
       /\ DOMAIN paths \subseteq Firsts(Routes)
       /\ \A i \in DOMAIN paths : Rest(i)
       /\ \A i \in Firsts(Routes) \ DOMAIN paths : \A v \in Verbs(Routes[i]) : Grown(i, v)
  /\ Quiet => \A i \in Firsts(Routes) : \A v \in Verbs(Routes[i]) : Grown(i, v)

(* The type of a line is None exactly when a request names the controller.    *)
TypeRight(action, type) == IF Open(action) THEN type = None ELSE type \in Type
RouteRight(route) == route.action # NotFound =>
                       InPath(route.path, route.action) /\ TypeRight(route.action, route.type)
LineRight(line) == line.action \in Action => InPath(line.path, line.action)

LinesOK(lines)   == lines \in Seq(Pending) /\ \A i \in 1..Len(lines) : LineRight(lines[i])
RoutesOK(routes) == routes \in Seq(Table) /\ \A i \in 1..Len(routes) : RouteRight(routes[i])
LinesRight       == LinesOK(todo) /\ RoutesOK(parsed) /\ RoutesOK(Routes)

(* What every entry has from the moment it is made.                           *)
EntryMade(k, e) ==
  /\ k \in Keys(e) /\ e.controller = e.key.controller /\ e.method = e.key.method
  /\ TypeRight(e.key, e.type)
  /\ e.type # None => e.module = e.type.module /\ e.type.name = e.key.controller.name

(* The lines a cached entry has to agree with: those read by the Refresh that *)
(* cleared the cache.                                                         *)
Lines == IF phase = "parse" THEN parsed ELSE Routes
Named(lines, k, e) ==
  \E i \in 1..Len(lines) :
    /\ Names(lines[i], k, e) /\ e.route = lines[i] /\ e.type = lines[i].type
    /\ \A j \in 1..Len(lines) : j > i => ~Names(lines[j], k, e)
Unnamed(lines, k, e) ==
  /\ \A i \in 1..Len(lines) : ~Names(lines[i], k, e)
  /\ e.route # None => /\ \E i \in 1..Len(lines) : e.route = lines[i]
                       /\ Variable(e.route) /\ e.route.module = e.module
Agrees(k, e) == Named(Lines, k, e) \/ (phase = "quiet" /\ Unnamed(Lines, k, e))

(* A Reverse that missed the cache before a Refresh may store an entry of the *)
(* file before; until it does, what is in its place is right.                 *)
Current == phase # "quiet" \/ outcome = "ok"
Cached  == \A i \in 1..Len(Lines) : Lines[i].action # NotFound => Lines[i].action \in DOMAIN cache
Follows == \A k \in DOMAIN cache : k \notin overlapped \ missed => Agrees(k, cache[k])
CacheRight ==
  /\ \A k \in DOMAIN cache : EntryMade(k, cache[k])
  /\ Current => Cached /\ Follows

MissedRight ==
  /\ \A a, b \in missed : a = b
  /\ phase # "quiet" => missed \subseteq overlapped
  /\ phase = "quiet" => \A a \in missed : a \in overlapped \/ a \notin DOMAIN cache

IInv == TypeOK /\ TreeRight /\ BuildRight /\ LinesRight /\ CacheRight /\ MissedRight

-----------------------------------------------------------------------------
(* The least number of a set, and the greatest of a bounded one.              *)

LEMMA MinFacts ==
  ASSUME NEW S \in SUBSET Nat, S # {}
  PROVE  Min(S) \in S /\ \A y \in S : Min(S) <= y
<1>1. PICK x \in S : \A y \in S : <<y, x>> \notin OpToRel(<, Nat)
  BY WFMin, NatLessThanWellFounded, Zenon
<1>2. \A y \in S : x <= y
  <2> TAKE y \in S
  <2>1. <<y, x>> \notin {ss \in Nat \X Nat : ss[1] < ss[2]}
    BY <1>1, Zenon DEF OpToRel
  <2> QED
    BY <2>1
<1>3. \E z \in S : \A y \in S : z <= y
  BY <1>2
<1>4. Min(S) = CHOOSE z \in S : \A y \in S : z <= y
  BY Zenon DEF Min
<1> HIDE DEF Min
<1> QED
  BY <1>3, <1>4, Zenon

LEMMA MaxFacts ==
  ASSUME NEW n \in Nat, NEW S \in SUBSET (1..n), S # {}
  PROVE  Max(S) \in S /\ \A y \in S : y <= Max(S)
<1> DEFINE T == {n - y : y \in S}
<1>1. T \in SUBSET Nat /\ T # {}
  <2>1. \A y \in S : n - y \in Nat
    OBVIOUS
  <2>2. T \subseteq Nat
    BY <2>1
  <2>3. T # {}
    OBVIOUS
  <2> QED
    BY <2>2, <2>3
<1>2. Min(T) \in T /\ \A z \in T : Min(T) <= z
  <2> HIDE DEF T, Min
  <2> QED
    BY <1>1, MinFacts
<1> HIDE DEF Min
<1>3. PICK x \in S : Min(T) = n - x
  BY <1>2
<1>4. \A y \in S : x >= y
  <2> TAKE y \in S
  <2>1. n - x <= n - y
    BY <1>2, <1>3
  <2> QED
    BY <2>1
<1>5. Max(S) \in S /\ \A y \in S : Max(S) >= y
  <2>1. Max(S) = CHOOSE z \in S : \A y \in S : z >= y
    BY Zenon DEF Max
  <2>2. \E z \in S : \A y \in S : z >= y
    BY <1>4
  <2> QED
    BY <2>1, <2>2, Zenon
<1> QED
  BY <1>5

-----------------------------------------------------------------------------
(* Lines and their leaves.                                                    *)

(* The first line of a path is the first of all its lines, and has its leaf.  *)
LEMMA FirstFacts ==
  ASSUME NEW routes \in Seq(Table), NEW i \in DOMAIN routes
  PROVE  \E f \in Firsts(routes) : /\ f <= i
                                   /\ routes[f].verb = routes[i].verb
                                   /\ routes[f].path = routes[i].path
<1> DEFINE f == Min(Alike(routes, i))
<1>1. DOMAIN routes = 1..Len(routes) /\ Len(routes) \in Nat
  OBVIOUS
<1>2. Alike(routes, i) \in SUBSET Nat /\ i \in Alike(routes, i)
  BY <1>1 DEF Alike
<1>3. f \in Alike(routes, i) /\ \A j \in Alike(routes, i) : f <= j
  <2>1. Alike(routes, i) # {}
    BY <1>2
  <2> QED
    BY <1>2, <2>1, MinFacts, Zenon
<1> HIDE DEF f
<1>4. f \in DOMAIN routes /\ TreePath(routes[f]) = TreePath(routes[i])
  BY <1>3, Zenon DEF Alike
<1>5. Alike(routes, f) = Alike(routes, i)
  BY <1>4, Zenon DEF Alike
<1>6. f \in Firsts(routes)
  BY <1>3, <1>4, <1>5, Zenon DEF Firsts, IsFirst
<1> QED
  BY <1>2, <1>3, <1>4, <1>6 DEF TreePath

(* A first line is before all others of its verb and path.                    *)
LEMMA FirstIsLeast ==
  ASSUME NEW routes \in Seq(Table), NEW f \in Firsts(routes), NEW i \in DOMAIN routes,
         routes[i].verb = routes[f].verb, routes[i].path = routes[f].path
  PROVE  f <= i
BY Zenon DEF Firsts, IsFirst, Alike, TreePath

LEMMA LeafFacts ==
  ASSUME NEW routes, NEW i, NEW v
  PROVE  /\ LeafOf(routes, i, v).verb = v /\ LeafOf(routes, i, v).path = routes[i].path
         /\ LeafOf(routes, i, v).routes = [j \in Alike(routes, i) |-> routes[j]]
         /\ Leaf(routes, i) = LeafOf(routes, i, routes[i].verb)
<1>1. \A w : /\ LeafOf(routes, i, w).verb = w /\ LeafOf(routes, i, w).path = routes[i].path
              /\ LeafOf(routes, i, w).routes = [j \in Alike(routes, i) |-> routes[j]]
  BY DEF LeafOf
<1>2. Leaf(routes, i) = LeafOf(routes, i, routes[i].verb)
  BY Zenon DEF LeafOf, Leaf
<1> QED
  BY <1>1, <1>2, Zenon

LEMMA HeadFacts ==
  ASSUME NEW routes, NEW i, NEW v
  PROVE  [LeafOf(routes, i, v) EXCEPT !.verb = "HEAD"] = LeafOf(routes, i, "HEAD")
<1>1. \A p, t : [[verb |-> v, path |-> p, routes |-> t] EXCEPT !.verb = "HEAD"]
                  = [verb |-> "HEAD", path |-> p, routes |-> t]
  OBVIOUS
<1> QED
  BY <1>1, Zenon DEF LeafOf

(* A line takes a request exactly when one of its leaves matches it.          *)
LEMMA TakesFacts ==
  ASSUME NEW routes, NEW i, NEW verb, NEW path
  PROVE  Takes(routes[i], verb, path)
           <=> \E v \in Verbs(routes[i]) : Matches(LeafOf(routes, i, v), verb, path)
<1>1. \A v : Matches(LeafOf(routes, i, v), verb, path)
               <=> v \in {"*", verb} /\ MatchesPath(routes[i].path, path)
  <2> TAKE v
  <2>1. LeafOf(routes, i, v).verb = v /\ LeafOf(routes, i, v).path = routes[i].path
    BY DEF LeafOf
  <2> QED
    BY <2>1, Zenon DEF Matches
<1>2. (\E v \in Verbs(routes[i]) : v \in {"*", verb})
        <=> routes[i].verb \in {"*", verb} \/ (routes[i].verb = "GET" /\ verb = "HEAD")
  BY DEF Verbs
<1> QED
  BY <1>1, <1>2, Zenon DEF Takes

-----------------------------------------------------------------------------
(* Routing in a tree that is complete up to some leaf.                        *)

LEMMA TreeAnswers ==
  ASSUME TypeOK, TreeRight, BuildRight, InUse, NEW verb, NEW path
  PROVE  \/ Route(Tree, verb, path) = Promised(verb, path)
         \/ Route(Tree, verb, path) = None /\ ~Quiet
<1> DEFINE hits   == Find(Tree, verb, path)
           taking == {i \in DOMAIN Routes : Takes(Routes[i], verb, path)}
<1>1. /\ Routes \in Seq(Table) /\ DOMAIN Routes = 1..Len(Routes) /\ Len(Routes) \in Nat
      /\ DOMAIN Tree = 1..Len(Tree) /\ Len(Tree) \in Nat
  <2>1. Routes \in Seq(Table)
    BY Zenon DEF TypeOK
  <2>2. Tree \in Seq(Leaves(Routes))
    BY Zenon DEF TreeRight
  <2> QED
    BY <2>1, <2>2
<1>2. Route(Tree, verb, path) = IF hits = {} THEN None ELSE Decision(Tree[Min(hits)].routes, path)
  BY Zenon DEF Route
<1>3. Promised(verb, path) = IF taking = {} THEN None
                             ELSE Decision([j \in Alike(Routes, Min(taking)) |-> Routes[j]], path)
  BY Zenon DEF Promised
<1>4. hits \in SUBSET Nat /\ taking \in SUBSET Nat
  BY <1>1 DEF Find
<1>5. ASSUME NEW n \in hits PROVE n \in 1..Len(Tree) /\ Matches(Tree[n], verb, path)
  BY <1>1, <1>5, Zenon DEF Find
<1>6. ASSUME NEW n \in 1..Len(Tree), Matches(Tree[n], verb, path) PROVE n \in hits
  BY <1>1, <1>6, Zenon DEF Find
<1>7. ASSUME NEW i \in Firsts(Routes), NEW v \in Verbs(Routes[i]), NEW n \in hits,
             Tree[n] = LeafOf(Routes, i, v)
      PROVE  i \in taking
  <2>1. Matches(LeafOf(Routes, i, v), verb, path)
    BY <1>5, <1>7, Zenon
  <2> QED
    BY <2>1, TakesFacts, Zenon DEF Firsts
<1>8. ASSUME NEW i \in taking
      PROVE  \E f \in Firsts(Routes) : f \in taking /\ f <= i
  <2>1. PICK f \in Firsts(Routes) : /\ f <= i /\ Routes[f].verb = Routes[i].verb
                                    /\ Routes[f].path = Routes[i].path
    BY <1>1, FirstFacts, Zenon
  <2>2. f \in taking
    BY <2>1, Zenon DEF Takes, Firsts
  <2> QED
    BY <2>1, <2>2
<1> HIDE DEF hits, taking
<1>9. CASE hits = {}
  <2>1. ASSUME Quiet PROVE taking = {}
    <3> SUFFICES ASSUME NEW i \in taking PROVE FALSE
      OBVIOUS
    <3>1. PICK f \in Firsts(Routes) : f \in taking
      BY <1>8
    <3>2. PICK v \in Verbs(Routes[f]) : Matches(LeafOf(Routes, f, v), verb, path)
      BY <3>1, TakesFacts, Zenon DEF taking
    <3>3. Grown(f, v)
      BY <2>1, Zenon DEF BuildRight
    <3>4. PICK n \in 1..Len(Tree) : Tree[n] = LeafOf(Routes, f, v)
      BY <3>3, Zenon DEF Grown
    <3> QED
      BY <1>6, <1>9, <3>2, <3>4, Zenon
  <2> QED
    BY <1>2, <1>3, <1>9, <2>1
<1>10. CASE hits # {}
  <2> DEFINE n == Min(hits)
             l == Min(taking)
  <2>1. n \in hits /\ \A m \in hits : n <= m
    BY <1>4, <1>10, MinFacts, Zenon
  <2>2. n \in 1..Len(Tree) /\ Stands(n)
    BY <1>5, <2>1, Zenon DEF TreeRight
  <2>3. PICK i \in Firsts(Routes) : \E v \in Verbs(Routes[i]) :
               Tree[n] = LeafOf(Routes, i, v) /\ Ordered(n, i)
    BY <2>2, Zenon DEF Stands
  <2>4. PICK v \in Verbs(Routes[i]) : Tree[n] = LeafOf(Routes, i, v) /\ Ordered(n, i)
    BY <2>3, Zenon
  <2>5. i \in taking
    BY <1>7, <2>1, <2>4, Zenon
  <2>6. l \in taking /\ \A j \in taking : l <= j
    <3>1. taking # {}
      BY <2>5
    <3> QED
      BY <1>4, <3>1, MinFacts, Zenon
  <2> HIDE DEF n, l
  <2>7. l \in Firsts(Routes)
    <3>1. PICK f \in Firsts(Routes) : f \in taking /\ f <= l
      BY <1>8, <2>6
    <3>2. f = l
      BY <1>4, <2>6, <3>1
    <3> QED
      BY <3>1, <3>2
  <2>8. ASSUME l < i PROVE FALSE
    <3>1. PICK w \in Verbs(Routes[l]) : Matches(LeafOf(Routes, l, w), verb, path)
      BY <2>6, TakesFacts, Zenon DEF taking
    <3>2. PICK m \in 1..(n - 1) : Tree[m] = LeafOf(Routes, l, w)
      BY <2>4, <2>7, <2>8, <3>1, Zenon DEF Ordered
    <3>3. m \in 1..Len(Tree) /\ m < n
      BY <2>2, <1>1
    <3>4. m \in hits
      BY <1>6, <3>1, <3>2, <3>3, Zenon
    <3> QED
      BY <1>1, <2>1, <2>2, <3>3, <3>4
  <2>9. l = i
    BY <1>4, <2>5, <2>6, <2>8
  <2>10. Tree[n].routes = [j \in Alike(Routes, l) |-> Routes[j]]
    BY <2>4, <2>9, LeafFacts
  <2>11. Route(Tree, verb, path) = Decision(Tree[n].routes, path)
    BY <1>2, <1>10, Zenon DEF n
  <2>12. Promised(verb, path) = Decision([j \in Alike(Routes, l) |-> Routes[j]], path)
    BY <1>3, <2>5, Zenon DEF l
  <2> QED
    BY <2>10, <2>11, <2>12, Zenon
<1> QED
  BY <1>9, <1>10

-----------------------------------------------------------------------------
(* Lines, routes and entries.                                                 *)

LEMMA ConcatFacts ==
  ASSUME NEW S, NEW p \in Seq(S), NEW q \in Seq(S)
  PROVE  /\ p \o q \in Seq(S) /\ Len(p \o q) = Len(p) + Len(q)
         /\ Len(p) \in Nat /\ Len(q) \in Nat
         /\ \A i \in 1..Len(p) : (p \o q)[i] = p[i]
         /\ \A i \in 1..Len(q) : (p \o q)[Len(p) + i] = q[i]
OBVIOUS

LEMMA AppendFacts ==
  ASSUME NEW S, NEW s \in Seq(S), NEW e \in S
  PROVE  /\ Append(s, e) \in Seq(S) /\ Len(Append(s, e)) = Len(s) + 1 /\ Len(s) \in Nat
         /\ \A i \in 1..Len(s) : Append(s, e)[i] = s[i]
         /\ Append(s, e)[Len(s) + 1] = e
OBVIOUS

LEMMA TailFacts ==
  ASSUME NEW S, NEW s \in Seq(S), s # << >>
  PROVE  /\ Tail(s) \in Seq(S) /\ Len(Tail(s)) = Len(s) - 1 /\ Len(s) \in Nat \ {0}
         /\ \A i \in 1..Len(Tail(s)) : Tail(s)[i] = s[i + 1]
         /\ Head(s) = s[1] /\ Head(s) \in S
OBVIOUS

LEMMA TailOK ==
  ASSUME NEW lines, LinesOK(lines), lines # << >>
  PROVE  LinesOK(Tail(lines)) /\ Head(lines) \in Pending /\ LineRight(Head(lines))
<1>1. lines \in Seq(Pending) /\ \A i \in 1..Len(lines) : LineRight(lines[i])
  BY Zenon DEF LinesOK
<1>2. /\ Tail(lines) \in Seq(Pending) /\ Len(Tail(lines)) = Len(lines) - 1 /\ Len(lines) \in Nat \ {0}
      /\ \A i \in 1..Len(Tail(lines)) : Tail(lines)[i] = lines[i + 1]
      /\ Head(lines) = lines[1] /\ Head(lines) \in Pending
  BY <1>1, TailFacts
<1>3. ASSUME NEW i \in 1..Len(Tail(lines)) PROVE LineRight(Tail(lines)[i])
  <2>1. i + 1 \in 1..Len(lines) /\ Tail(lines)[i] = lines[i + 1]
    BY <1>2
  <2> QED
    BY <1>1, <2>1
<1>4. 1 \in 1..Len(lines)
  BY <1>2
<1> QED
  BY <1>1, <1>2, <1>3, <1>4, Zenon DEF LinesOK

LEMMA ConcatOK ==
  ASSUME NEW p, NEW q, LinesOK(p), LinesOK(q) PROVE LinesOK(p \o q)
<1>1. /\ p \in Seq(Pending) /\ \A i \in 1..Len(p) : LineRight(p[i])
      /\ q \in Seq(Pending) /\ \A i \in 1..Len(q) : LineRight(q[i])
  BY Zenon DEF LinesOK
<1>2. /\ p \o q \in Seq(Pending) /\ Len(p \o q) = Len(p) + Len(q)
      /\ Len(p) \in Nat /\ Len(q) \in Nat
      /\ \A i \in 1..Len(p) : (p \o q)[i] = p[i]
      /\ \A i \in 1..Len(q) : (p \o q)[Len(p) + i] = q[i]
  BY <1>1, ConcatFacts
<1>3. ASSUME NEW i \in 1..Len(p \o q) PROVE LineRight((p \o q)[i])
  <2>1. CASE i \in 1..Len(p)
    BY <1>1, <1>2, <2>1
  <2>2. CASE i \notin 1..Len(p)
    <3>1. i - Len(p) \in 1..Len(q) /\ i = Len(p) + (i - Len(p))
      BY <1>2, <2>2
    <3>2. (p \o q)[Len(p) + (i - Len(p))] = q[i - Len(p)]
      BY <1>2, <3>1
    <3> QED
      BY <1>1, <3>1, <3>2
  <2> QED
    BY <2>1, <2>2
<1> QED
  BY <1>2, <1>3, Zenon DEF LinesOK

LEMMA AppendOK ==
  ASSUME NEW routes, RoutesOK(routes), NEW r \in Table, RouteRight(r)
  PROVE  RoutesOK(Append(routes, r))
<1>1. routes \in Seq(Table) /\ \A i \in 1..Len(routes) : RouteRight(routes[i])
  BY Zenon DEF RoutesOK
<1>2. /\ Append(routes, r) \in Seq(Table) /\ Len(Append(routes, r)) = Len(routes) + 1
      /\ Len(routes) \in Nat
      /\ \A i \in 1..Len(routes) : Append(routes, r)[i] = routes[i]
      /\ Append(routes, r)[Len(routes) + 1] = r
  BY <1>1, AppendFacts
<1>3. ASSUME NEW i \in 1..Len(Append(routes, r)) PROVE RouteRight(Append(routes, r)[i])
  <2>1. i \in 1..Len(routes) \/ i = Len(routes) + 1
    BY <1>2
  <2> QED
    BY <1>1, <1>2, <2>1
<1> QED
  BY <1>2, <1>3, Zenon DEF RoutesOK

(* A file that cannot be read ends a Refresh with an empty table.             *)
Unreadable == RefreshUnreadable \/ IncludeUnreadable

LEMMA UnreadableFacts ==
  ASSUME Unreadable
  PROVE  /\ Ends("invalid", << >>) /\ Tree' = Tree /\ missed' = missed
         /\ \/ cache' = << >> /\ overlapped' = missed /\ phase = "quiet"
            \/ cache' = cache /\ overlapped' = overlapped /\ phase = "parse"
  BY Zenon DEF Unreadable, RefreshUnreadable, IncludeUnreadable

LEMMA EmptyOK == LinesOK(<< >>) /\ RoutesOK(<< >>)
BY DEF LinesOK, RoutesOK

(* The lines of a file, also under the path of an include, keep the variables *)
(* of their actions in their paths.                                           *)
LEMMA ReadFacts ==
  ASSUME NEW m \in Module, NEW prefix \in Seq(Element), NEW file \in Seq(Line),
         \A i \in DOMAIN file : LineRight(file[i])
  PROVE  LinesOK(Read(m, prefix, file))
<1> DEFINE lines == Read(m, prefix, file)
           line(i) == [verb |-> file[i].verb, path |-> prefix \o file[i].path,
                       action |-> file[i].action, module |-> m]
<1>1. DOMAIN file = 1..Len(file) /\ Len(file) \in Nat
  OBVIOUS
<1>2. lines = [i \in 1..Len(file) |-> line(i)]
  BY <1>1, Zenon DEF Read
<1>3. ASSUME NEW i \in 1..Len(file)
      PROVE  /\ line(i) \in Pending
             /\ LineRight(line(i))
  <2>1. file[i] \in Line
    BY <1>3
  <2>2. /\ file[i].verb \in STRING /\ file[i].path \in Seq(Element)
        /\ file[i].action \in Action \cup Include \cup {NotFound}
    BY <2>1 DEF Line
  <2>3. /\ prefix \o file[i].path \in Seq(Element)
        /\ \A e \in Range(file[i].path) : e \in Range(prefix \o file[i].path)
    <3> DEFINE q == file[i].path
    <3>1. q \in Seq(Element)
      BY <2>2
    <3> HIDE DEF q
    <3>2. /\ prefix \o q \in Seq(Element) /\ Len(prefix \o q) = Len(prefix) + Len(q)
          /\ Len(prefix) \in Nat /\ Len(q) \in Nat
          /\ \A n \in 1..Len(q) : (prefix \o q)[Len(prefix) + n] = q[n]
      BY <3>1, ConcatFacts
    <3>3. ASSUME NEW e \in Range(q) PROVE e \in Range(prefix \o q)
      <4>1. PICK n \in 1..Len(q) : e = q[n]
        BY <3>1, <3>3 DEF Range
      <4>2. Len(prefix) + n \in DOMAIN (prefix \o q) /\ (prefix \o q)[Len(prefix) + n] = e
        BY <3>2, <4>1
      <4> QED
        BY <4>2 DEF Range
    <3> QED
      BY <3>2, <3>3 DEF q
  <2>4. line(i) \in Pending
    BY <2>2, <2>3 DEF Pending
  <2>5. LineRight(line(i))
    <3> SUFFICES ASSUME line(i).action \in Action
                 PROVE  InPath(line(i).path, line(i).action)
      BY Zenon DEF LineRight
    <3>1. line(i).action = file[i].action /\ line(i).path = prefix \o file[i].path
      OBVIOUS
    <3>2. InPath(file[i].path, file[i].action)
      BY <3>1, <1>1 DEF LineRight
    <3> HIDE DEF line
    <3> QED
      BY <2>3, <3>1, <3>2 DEF InPath
  <2> QED
    BY <2>4, <2>5
<1> HIDE DEF line
<1>4. lines \in Seq(Pending) /\ Len(lines) = Len(file) /\ \A i \in 1..Len(file) : lines[i] = line(i)
  BY <1>1, <1>2, <1>3
<1> QED
  BY <1>3, <1>4, Zenon DEF LinesOK

LEMMA IncludedFacts ==
  ASSUME NEW line \in Pending, line.action \in Include
  PROVE  LinesOK(Included(line))
<1> DEFINE m == line.action.include
<1>1. CASE m \in DOMAIN ModuleFile
  <2>1. m \in Module \ {AppModule} /\ ModuleFile[m] \in Seq({l \in Line : l.action \notin Include})
    BY <1>1, FileAssumption
  <2>2. ModuleFile[m] \in Seq(Line)
    BY <2>1
  <2>3. \A i \in DOMAIN ModuleFile[m] : LineRight(ModuleFile[m][i])
    <3>1. ModuleFile[m] \in Range(ModuleFile)
      BY <1>1 DEF Range
    <3> QED
      BY <3>1, LineAssumption, Zenon DEF LineRight
  <2>4. line.path \in Seq(Element)
    BY DEF Pending
  <2>5. Included(line) = Read(m, line.path, ModuleFile[m])
    BY <1>1, Zenon DEF Included
  <2> HIDE DEF m
  <2> QED
    BY <2>1, <2>2, <2>3, <2>4, <2>5, ReadFacts
<1>2. CASE m \notin DOMAIN ModuleFile
  <2>1. Included(line) = << >>
    BY <1>2, Zenon DEF Included
  <2> QED
    BY <2>1, EmptyOK
<1> QED
  BY <1>1, <1>2

LEMMA MeaningsFacts ==
  ASSUME NEW m, NEW a \in Action, NEW x \in Meanings(m, a)
  PROVE  \/ Open(a) /\ x = [type |-> None, module |-> m]
         \/ ~Open(a) /\ \E t \in Type : /\ x = [type |-> t, module |-> t.module]
                                        /\ t.name = a.controller.name
BY DEF Meanings, ControllerByName

LEMMA KeysFacts ==
  ASSUME NEW e \in Entry
  PROVE  /\ Keys(e) \subseteq Action /\ e.key \in Keys(e)
         /\ \A k \in Keys(e) : /\ k.controller = e.key.controller /\ k.method = e.key.method
                               /\ k # e.key => /\ e.key.ns = None /\ e.type # None
                                                /\ k.ns = e.type.module
         /\ \A k \in Action : k.controller = e.key.controller /\ k.method = e.key.method
                              /\ e.key.ns = None /\ e.type # None /\ k.ns = e.type.module => k \in Keys(e)
<1>1. e.key \in Action
  BY DEF Entry
<1>2. e.key = [ns |-> e.key.ns, controller |-> e.key.controller, method |-> e.key.method]
      /\ e.key.controller \in Element /\ e.key.method \in Element
  BY <1>1 DEF Action
<1> DEFINE other == [e.key EXCEPT !.ns = e.type.module]
<1>3. other = [ns |-> e.type.module, controller |-> e.key.controller, method |-> e.key.method]
  BY <1>2
<1>4. Keys(e) = {e.key} \cup (IF e.key.ns = None /\ e.type # None THEN {other} ELSE {})
  BY Zenon DEF Keys
<1>5. e.type # None => e.type.module \in Module
  BY TypeAssumption DEF Entry
<1>6. e.type # None => other \in Action
  BY <1>2, <1>3, <1>5 DEF Action
<1>7. other.ns = e.type.module /\ other.controller = e.key.controller /\ other.method = e.key.method
  BY <1>3
<1>8. ASSUME NEW k \in Action, k.controller = e.key.controller, k.method = e.key.method,
             k.ns = e.type.module
      PROVE  k = other
  BY <1>3, <1>8 DEF Action
<1> HIDE DEF other
<1> QED
  BY <1>1, <1>4, <1>6, <1>7, <1>8

(* The route of a line and what is cached for it.                             *)
LEMMA LineFacts ==
  ASSUME NEW line \in Pending, line.action \in Action, LineRight(line),
         NEW x \in Meanings(line.module, line.action),
         NEW route, route = NewRoute(line, x),
         NEW entry, entry = PathData(line.action, x, route)
  PROVE  /\ route \in Table /\ RouteRight(route) /\ route.action = line.action
         /\ entry \in Entry /\ entry.key = line.action
         /\ entry.route = route /\ entry.type = route.type
         /\ TypeRight(entry.key, entry.type)
         /\ \A k \in Keys(entry) : EntryMade(k, entry)
<1>1. /\ line.verb \in STRING /\ line.path \in Seq(Element) /\ line.module \in Module
      /\ line.action # NotFound
      /\ line.action.controller \in Element /\ line.action.method \in Element
  BY NoneAssumption DEF Pending, Action
<1>2. /\ x.module \in Module /\ x.type \in Type \cup {None}
      /\ TypeRight(line.action, x.type)
      /\ x.type # None => x.module = x.type.module /\ x.type.name = line.action.controller.name
  BY <1>1, MeaningsFacts, TypeAssumption, NoneAssumption DEF TypeRight
<1>3. /\ route \in Table /\ route.action = line.action /\ route.path = line.path
      /\ route.type = x.type
  BY <1>1, <1>2 DEF NewRoute, Table
<1>4. RouteRight(route)
  BY <1>2, <1>3 DEF RouteRight, LineRight
<1>5. /\ entry \in Entry /\ entry.key = line.action /\ entry.route = route
      /\ entry.type = x.type /\ entry.module = x.module
      /\ entry.controller = entry.key.controller /\ entry.method = entry.key.method
  BY <1>1, <1>2, <1>3 DEF PathData, Entry
<1>6. \A k \in Keys(entry) : EntryMade(k, entry)
  BY <1>2, <1>5 DEF EntryMade
<1> QED
  BY <1>2, <1>3, <1>4, <1>5, <1>6

(* What a Reverse stores for an action it has not found.                      *)
LEMMA ReverseFacts ==
  ASSUME NEW a \in Asked, NEW x \in Meanings(None, a),
         NEW entry, entry = PathData(a, x, None)
  PROVE  /\ entry \in Entry /\ entry.key = a /\ entry.route = None
         /\ TypeRight(entry.key, entry.type)
         /\ \A k \in Keys(entry) : EntryMade(k, entry)
<1>1. a \in Action /\ a.controller \in Element /\ a.method \in Element
  BY AskedAssumption DEF Action
<1>2. /\ x.module \in Module \cup {None} /\ x.type \in Type \cup {None}
      /\ TypeRight(a, x.type)
      /\ x.type # None => x.module = x.type.module /\ x.type.name = a.controller.name
  BY <1>1, MeaningsFacts, TypeAssumption, NoneAssumption DEF TypeRight
<1>3. /\ entry \in Entry /\ entry.key = a /\ entry.route = None
      /\ entry.type = x.type /\ entry.module = x.module
      /\ entry.controller = entry.key.controller /\ entry.method = entry.key.method
  BY <1>1, <1>2 DEF PathData, Entry
<1>4. \A k \in Keys(entry) : EntryMade(k, entry)
  BY <1>2, <1>3 DEF EntryMade
<1> QED
  BY <1>2, <1>3, <1>4

(* RouteFor keeps a route, or finds a line with a variable controller.        *)
LEMMA RouteForFacts ==
  ASSUME Routes \in Seq(Table), NEW e
  PROVE  \/ RouteFor(e) = e.route
         \/ /\ e.route = None
            /\ \E i \in 1..Len(Routes) : /\ RouteFor(e) = Routes[i]
                                          /\ Variable(Routes[i]) /\ Routes[i].module = e.module
<1> DEFINE wild == {i \in DOMAIN Routes : Variable(Routes[i]) /\ Routes[i].module = e.module}
<1>1. RouteFor(e) = IF e.route # None \/ wild = {} THEN e.route ELSE Routes[Min(wild)]
  BY Zenon DEF RouteFor
<1>2. wild \in SUBSET Nat /\ DOMAIN Routes = 1..Len(Routes)
  OBVIOUS
<1>3. CASE e.route # None \/ wild = {}
  BY <1>1, <1>3
<1>4. CASE e.route = None /\ wild # {}
  <2>1. Min(wild) \in wild
    <3> HIDE DEF wild
    <3> QED
      BY <1>2, <1>4, MinFacts, Zenon
  <2>2. RouteFor(e) = Routes[Min(wild)]
    BY <1>1, <1>4, Zenon
  <2> QED
    BY <1>2, <1>4, <2>1, <2>2, Zenon
<1> QED
  BY <1>3, <1>4

-----------------------------------------------------------------------------
(* The cache.                                                                 *)

CacheOK(c) == \A k \in DOMAIN c : k \in Action /\ c[k] \in Entry /\ EntryMade(k, c[k])

LEMMA StoredFacts ==
  ASSUME NEW c, NEW e
  PROVE  /\ DOMAIN Stored(c, e) = DOMAIN c \cup Keys(e)
         /\ \A k \in Keys(e) : Stored(c, e)[k] = e
         /\ \A k \in DOMAIN c : k \notin Keys(e) => Stored(c, e)[k] = c[k]
BY DEF Stored

LEMMA StoredOK ==
  ASSUME NEW c, CacheOK(c), NEW e \in Entry, \A k \in Keys(e) : EntryMade(k, e)
  PROVE  CacheOK(Stored(c, e))
<1>1. Keys(e) \subseteq Action
  BY KeysFacts
<1>2. ASSUME NEW k \in DOMAIN Stored(c, e)
      PROVE  k \in Action /\ Stored(c, e)[k] \in Entry /\ EntryMade(k, Stored(c, e)[k])
  <2>1. CASE k \in Keys(e)
    <3>1. Stored(c, e)[k] = e
      BY <2>1, StoredFacts, ZenonT(60)
    <3> QED
      BY <1>1, <2>1, <3>1
  <2>2. CASE k \notin Keys(e)
    <3>1. k \in DOMAIN c
      BY <1>2, <2>2, StoredFacts, ZenonT(60)
    <3>2. Stored(c, e)[k] = c[k]
      BY <2>2, <3>1, StoredFacts, Zenon
    <3>3. k \in Action /\ c[k] \in Entry /\ EntryMade(k, c[k])
      BY <3>1, Zenon DEF CacheOK
    <3> QED
      BY <3>2, <3>3
  <2> QED
    BY <2>1, <2>2
<1> QED
  BY <1>2, Zenon DEF CacheOK

(* An entry with the route it is given.                                       *)
Given(e) == [e EXCEPT !.route = RouteFor(e)]

LEMMA GivenFacts ==
  ASSUME Routes \in Seq(Table), NEW e \in Entry
  PROVE  /\ Given(e) \in Entry /\ Given(e).key = e.key /\ Given(e).type = e.type
         /\ Given(e).module = e.module
         /\ Given(e).controller = e.controller /\ Given(e).method = e.method
         /\ Given(e).route = RouteFor(e)
         /\ Keys(Given(e)) = Keys(e)
         /\ \A k : EntryMade(k, e) => EntryMade(k, Given(e))
<1>1. RouteFor(e) \in Table \cup {None}
  <2>1. e.route \in Table \cup {None}
    BY DEF Entry
  <2> QED
    BY <2>1, RouteForFacts
<1>2. /\ Given(e) \in Entry /\ Given(e).key = e.key /\ Given(e).type = e.type
      /\ Given(e).module = e.module
      /\ Given(e).controller = e.controller /\ Given(e).method = e.method
      /\ Given(e).route = RouteFor(e)
  <2> DEFINE r == RouteFor(e)
  <2>1. Given(e) = [e EXCEPT !.route = r] /\ r \in Table \cup {None}
    BY <1>1, Zenon DEF Given
  <2> HIDE DEF r
  <2>2. /\ Given(e) \in Entry /\ Given(e).key = e.key /\ Given(e).type = e.type
        /\ Given(e).module = e.module
        /\ Given(e).controller = e.controller /\ Given(e).method = e.method
        /\ Given(e).route = r
    BY <2>1 DEF Entry
  <2> QED
    BY <2>2 DEF r
<1> HIDE DEF Given
<1>3. Keys(Given(e)) = Keys(e)
  BY <1>2 DEF Keys
<1>4. ASSUME NEW k, EntryMade(k, e) PROVE EntryMade(k, Given(e))
  BY <1>2, <1>3, <1>4 DEF EntryMade
<1> QED
  BY <1>2, <1>3, <1>4

LEMMA WithRouteFacts ==
  ASSUME NEW c, NEW e
  PROVE  /\ DOMAIN WithRoute(c, e) = DOMAIN c
         /\ \A k \in DOMAIN c : WithRoute(c, e)[k] = IF c[k] = e THEN Given(e) ELSE c[k]
BY DEF WithRoute, Given

LEMMA WithRouteOK ==
  ASSUME NEW c, CacheOK(c), Routes \in Seq(Table), NEW e \in Entry
  PROVE  CacheOK(WithRoute(c, e))
<1>1. ASSUME NEW k \in DOMAIN c
      PROVE  k \in Action /\ WithRoute(c, e)[k] \in Entry /\ EntryMade(k, WithRoute(c, e)[k])
  <2>1. k \in Action /\ c[k] \in Entry /\ EntryMade(k, c[k])
    BY DEF CacheOK
  <2>2. CASE c[k] = e
    <3>1. WithRoute(c, e)[k] = Given(e)
      BY <2>2, WithRouteFacts
    <3> QED
      BY <2>1, <2>2, <3>1, GivenFacts
  <2>3. CASE c[k] # e
    <3>1. WithRoute(c, e)[k] = c[k]
      BY <2>3, WithRouteFacts
    <3> QED
      BY <2>1, <3>1
  <2> QED
    BY <2>2, <2>3
<1> QED
  BY <1>1, WithRouteFacts DEF CacheOK

-----------------------------------------------------------------------------
(* The types, step by step.                                                   *)

LEMMA LinesStep ==
  ASSUME TypeOK, LinesRight, [Next]_vars
  PROVE  LinesOK(todo') /\ RoutesOK(parsed') /\ RoutesOK(Routes')
<1> DEFINE Right == LinesOK(todo') /\ RoutesOK(parsed') /\ RoutesOK(Routes')
<1>1. LinesOK(todo) /\ RoutesOK(parsed) /\ RoutesOK(Routes)
  BY Zenon DEF LinesRight
<1>2. CASE RefreshRequested
  <2>1. PICK f \in Files : todo' = Read(AppModule, << >>, f)
    BY <1>2, Zenon DEF RefreshRequested
  <2>2. parsed' = << >> /\ Routes' = Routes
    BY <1>2, Zenon DEF RefreshRequested
  <2>3. \A i \in DOMAIN f : LineRight(f[i])
    BY LineAssumption, Zenon DEF LineRight
  <2>4. LinesOK(Read(AppModule, << >>, f))
    <3>1. << >> \in Seq(Element)
      OBVIOUS
    <3>2. AppModule \in Module /\ f \in Seq(Line)
      BY AppAssumption, FileAssumption
    <3> QED
      BY <2>3, <3>1, <3>2, ReadFacts
  <2> QED
    BY <1>1, <2>1, <2>2, <2>4, EmptyOK, Zenon
<1>3. CASE ParseInclude
  <2>1. /\ todo # << >> /\ Head(todo).action \in Include
        /\ todo' = Included(Head(todo)) \o Tail(todo)
        /\ parsed' = parsed /\ Routes' = Routes
    BY <1>3, Zenon DEF ParseInclude
  <2>2. LinesOK(Tail(todo)) /\ Head(todo) \in Pending
    BY <1>1, <2>1, TailOK, Zenon
  <2>3. LinesOK(Included(Head(todo)))
    BY <2>1, <2>2, IncludedFacts, Zenon
  <2>4. LinesOK(Included(Head(todo)) \o Tail(todo))
    BY <2>2, <2>3, ConcatOK, Zenon
  <2> QED
    BY <1>1, <2>1, <2>4, Zenon
<1>4. CASE ParseNotFound
  <2> DEFINE r == NewRoute(Head(todo), [type |-> None, module |-> Head(todo).module])
  <2>1. /\ todo # << >> /\ Head(todo).action = NotFound
        /\ todo' = Tail(todo) /\ parsed' = Append(parsed, r) /\ Routes' = Routes
    BY <1>4, Zenon DEF ParseNotFound
  <2>2. LinesOK(Tail(todo)) /\ Head(todo) \in Pending
    BY <1>1, <2>1, TailOK, Zenon
  <2>3. r \in Table /\ r.action = NotFound
    BY <2>1, <2>2 DEF NewRoute, Table, Pending
  <2>4. RouteRight(r)
    BY <2>3, Zenon DEF RouteRight
  <2> HIDE DEF r
  <2> QED
    BY <1>1, <2>1, <2>2, <2>3, <2>4, AppendOK, Zenon
<1>5. CASE ParseRoute
  <2>1. todo # << >> /\ Head(todo).action \in Action
    BY <1>5, Zenon DEF ParseRoute
  <2>2. LinesOK(Tail(todo)) /\ Head(todo) \in Pending /\ LineRight(Head(todo))
    BY <1>1, <2>1, TailOK, Zenon
  <2>3. PICK x \in Meanings(Head(todo).module, Head(todo).action) :
          IF ValidateRoute(NewRoute(Head(todo), x))
          THEN /\ parsed' = Append(parsed, NewRoute(Head(todo), x)) /\ todo' = Tail(todo)
               /\ UNCHANGED <<phase, outcome, Routes, paths>>
          ELSE Ends("invalid", << >>)
    BY <1>5, Zenon DEF ParseRoute
  <2>4. NewRoute(Head(todo), x) \in Table /\ RouteRight(NewRoute(Head(todo), x))
    BY <2>1, <2>2, LineFacts, Zenon
  <2>5. CASE Ends("invalid", << >>)
    BY <2>5, EmptyOK DEF Ends
  <2>6. CASE parsed' = Append(parsed, NewRoute(Head(todo), x)) /\ todo' = Tail(todo) /\ Routes' = Routes
    BY <1>1, <2>2, <2>4, <2>6, AppendOK, Zenon
  <2> QED
    BY <2>3, <2>5, <2>6
<1>6. CASE ParsePanics \/ AddFails \/ TreeDone
  BY <1>1, <1>6, EmptyOK DEF ParsePanics, AddFails, TreeDone, Ends
<1>7. CASE RefreshCompleted
  BY <1>1, <1>7, EmptyOK DEF RefreshCompleted
<1>8. CASE NewTree \/ AddPath
  BY <1>1, <1>8 DEF NewTree, AddPath
<1>9. CASE ReverseError
  BY <1>1, <1>9 DEF ReverseError, ReverseHit, ReverseMiss, ReverseStores, ReverseFails
<1>10. CASE UNCHANGED vars
  BY <1>1, <1>10 DEF vars
<1>u. CASE Unreadable
  BY <1>u, UnreadableFacts, EmptyOK DEF Ends
<1> QED
  BY <1>2, <1>3, <1>4, <1>5, <1>6, <1>7, <1>8, <1>9, <1>10, <1>u, Zenon DEF Next, Refresh, Unreadable

LEMMA LeafIsLeaf ==
  ASSUME NEW routes \in Seq(Table), NEW i \in DOMAIN routes, NEW v \in {"HEAD", routes[i].verb}
  PROVE  IsLeaf(LeafOf(routes, i, v))
<1>1. /\ LeafOf(routes, i, v).verb = v /\ LeafOf(routes, i, v).path = routes[i].path
      /\ LeafOf(routes, i, v).routes = [j \in Alike(routes, i) |-> routes[j]]
  BY DEF LeafOf
<1>2. routes[i].path \in Seq(Element)
  <2>1. routes[i] \in Table
    OBVIOUS
  <2> QED
    BY <2>1 DEF Table
<1>3. Range([j \in Alike(routes, i) |-> routes[j]]) \subseteq Table
  <2>1. \A j \in Alike(routes, i) : routes[j] \in Table
    BY DEF Alike
  <2> QED
    BY <2>1 DEF Range
<1>4. routes[i] \in Range([j \in Alike(routes, i) |-> routes[j]])
  BY DEF Alike, Range
<1> QED
  BY <1>1, <1>2, <1>3, <1>4 DEF IsLeaf

LEMMA AddedFacts ==
  ASSUME NEW leaves, NEW i \in DOMAIN leaves
  PROVE  /\ leaves[i].verb = "GET" =>
              /\ DOMAIN Added(leaves, i) = DOMAIN leaves
              /\ Added(leaves, i)[i] = [leaves[i] EXCEPT !.verb = "HEAD"]
         /\ leaves[i].verb # "GET" => DOMAIN Added(leaves, i) = DOMAIN leaves \ {i}
         /\ \A j \in DOMAIN leaves \ {i} : Added(leaves, i)[j] = leaves[j]
BY DEF Added, Restrict

(* The first of the paths still to be added.                                  *)
LEMMA NextPath ==
  ASSUME TypeOK, BuildRight, phase = "build", DOMAIN paths # {}
  PROVE  /\ Min(DOMAIN paths) \in DOMAIN paths
         /\ \A j \in DOMAIN paths : Min(DOMAIN paths) <= j
         /\ Min(DOMAIN paths) \in Firsts(Routes) /\ Rest(Min(DOMAIN paths))
<1>1. DOMAIN paths \subseteq Firsts(Routes) /\ \A i \in DOMAIN paths : Rest(i)
  BY Zenon DEF BuildRight
<1>2. Routes \in Seq(Table)
  BY Zenon DEF TypeOK
<1>3. DOMAIN paths \in SUBSET Nat
  BY <1>1, <1>2 DEF Firsts
<1>4. Min(DOMAIN paths) \in DOMAIN paths /\ \A j \in DOMAIN paths : Min(DOMAIN paths) <= j
  BY <1>3, MinFacts, Zenon
<1> QED
  BY <1>1, <1>4, Zenon

LEMMA LeavesStep ==
  ASSUME TypeOK, BuildRight, [Next]_vars
  PROVE  /\ \A n \in DOMAIN Tree' : IsLeaf(Tree'[n])
         /\ \A i \in DOMAIN paths' : IsLeaf(paths'[i])
<1> DEFINE Right == /\ \A n \in DOMAIN Tree' : IsLeaf(Tree'[n])
                    /\ \A i \in DOMAIN paths' : IsLeaf(paths'[i])
<1>1. /\ \A n \in DOMAIN Tree : IsLeaf(Tree[n])
      /\ \A i \in DOMAIN paths : IsLeaf(paths[i])
      /\ Routes \in Seq(Table)
  BY Zenon DEF TypeOK
<1>2. CASE NewTree
  <2>1. Tree' = << >> /\ paths' = Paths(Routes)
    BY <1>2, Zenon DEF NewTree
  <2>2. ASSUME NEW i \in DOMAIN Paths(Routes) PROVE IsLeaf(Paths(Routes)[i])
    <3>1. i \in DOMAIN Routes /\ Paths(Routes)[i] = Leaf(Routes, i)
      BY <2>2 DEF Paths
    <3>2. Leaf(Routes, i) = LeafOf(Routes, i, Routes[i].verb)
      BY LeafFacts, Zenon
    <3> QED
      BY <1>1, <3>1, <3>2, LeafIsLeaf, Zenon
  <2>3. DOMAIN << >> = {}
    OBVIOUS
  <2> QED
    BY <2>1, <2>2, <2>3, Zenon
<1>3. CASE AddPath
  <2> DEFINE i == Min(DOMAIN paths)
  <2>1. /\ phase = "build" /\ DOMAIN paths # {}
        /\ Tree' = Append(Tree, paths[i]) /\ paths' = Added(paths, i)
    BY <1>3, Zenon DEF AddPath
  <2>2. i \in DOMAIN paths /\ i \in Firsts(Routes) /\ Rest(i)
    BY <2>1, NextPath, Zenon
  <2> HIDE DEF i
  <2>3. PICK v : paths[i] = LeafOf(Routes, i, v)
    BY <2>2, Zenon DEF Rest
  <2>4. IsLeaf([paths[i] EXCEPT !.verb = "HEAD"])
    <3>1. [paths[i] EXCEPT !.verb = "HEAD"] = LeafOf(Routes, i, "HEAD")
      BY <2>3, HeadFacts
    <3>2. i \in DOMAIN Routes
      BY <2>2, Zenon DEF Firsts
    <3>3. IsLeaf(LeafOf(Routes, i, "HEAD"))
      BY <1>1, <3>2, LeafIsLeaf, Zenon
    <3> QED
      BY <3>1, <3>3
  <2>5. \A j \in DOMAIN paths' : IsLeaf(paths'[j])
    <3> TAKE j \in DOMAIN paths'
    <3>1. j \in DOMAIN paths
      BY <2>1, <2>2, AddedFacts, ZenonT(60)
    <3>2. CASE j # i
      <4>1. \A n \in DOMAIN paths \ {i} : Added(paths, i)[n] = paths[n]
        BY <2>2, AddedFacts, Zenon
      <4>2. paths'[j] = paths[j]
        BY <2>1, <3>1, <3>2, <4>1
      <4> QED
        BY <1>1, <3>1, <4>2
    <3>3. CASE j = i
      <4>1. paths[i].verb = "GET"
        <5>1. paths[i].verb # "GET" => DOMAIN Added(paths, i) = DOMAIN paths \ {i}
          BY <2>2, AddedFacts, Zenon
        <5> QED
          BY <2>1, <3>3, <5>1
      <4>2. Added(paths, i)[i] = [paths[i] EXCEPT !.verb = "HEAD"]
        BY <2>2, <4>1, AddedFacts, Zenon
      <4> QED
        BY <2>1, <2>4, <3>3, <4>2
    <3> QED
      BY <3>2, <3>3
  <2>6. \A n \in DOMAIN Tree' : IsLeaf(Tree'[n])
    BY <1>1, <2>1, <2>2 DEF TypeOK
  <2> QED
    BY <2>5, <2>6
<1>4. CASE ParsePanics \/ AddFails \/ TreeDone
  <2>1. DOMAIN << >> = {}
    OBVIOUS
  <2>2. paths' = << >> /\ Tree' = Tree
    BY <1>4, Zenon DEF ParsePanics, AddFails, TreeDone, Ends
  <2> QED
    BY <1>1, <2>1, <2>2, Zenon
<1>5. CASE ParseRoute
  <2>1. DOMAIN << >> = {}
    OBVIOUS
  <2>2. paths' \in {paths, << >>} /\ Tree' = Tree
    BY <1>5 DEF ParseRoute, Ends
  <2> QED
    BY <1>1, <2>1, <2>2
<1>6. CASE RefreshRequested \/ ParseInclude \/ ParseNotFound \/ RefreshCompleted
  BY <1>1, <1>6 DEF RefreshRequested, ParseInclude, ParseNotFound, RefreshCompleted
<1>7. CASE ReverseError
  BY <1>1, <1>7 DEF ReverseError, ReverseHit, ReverseMiss, ReverseStores, ReverseFails
<1>8. CASE UNCHANGED vars
  BY <1>1, <1>8 DEF vars
<1>u. CASE Unreadable
  <2>1. DOMAIN << >> = {}
    OBVIOUS
  <2>2. paths' = << >> /\ Tree' = Tree
    BY <1>u, UnreadableFacts, Zenon DEF Ends
  <2> QED
    BY <1>1, <2>1, <2>2, Zenon
<1> QED
  BY <1>2, <1>3, <1>4, <1>5, <1>6, <1>7, <1>8, <1>u, Zenon DEF Next, Refresh, Unreadable

LEMMA CacheStep ==
  ASSUME TypeOK, LinesRight, CacheOK(cache), [Next]_vars
  PROVE  CacheOK(cache')
<1>1. Routes \in Seq(Table)
  BY Zenon DEF TypeOK
<1>2. CASE RefreshRequested
  <2>1. cache' = << >>
    BY <1>2, Zenon DEF RefreshRequested
  <2>2. DOMAIN << >> = {}
    OBVIOUS
  <2> QED
    BY <2>1, <2>2, Zenon DEF CacheOK
<1>3. CASE ParseRoute
  <2>1. todo # << >> /\ Head(todo).action \in Action
    BY <1>3, Zenon DEF ParseRoute
  <2>2. Head(todo) \in Pending /\ LineRight(Head(todo))
    BY <2>1, TailOK, Zenon DEF LinesRight
  <2>3. PICK x \in Meanings(Head(todo).module, Head(todo).action) :
          cache' = Stored(cache, PathData(Head(todo).action, x, NewRoute(Head(todo), x)))
    BY <1>3, Zenon DEF ParseRoute
  <2> DEFINE entry == PathData(Head(todo).action, x, NewRoute(Head(todo), x))
  <2>4. entry \in Entry /\ \A k \in Keys(entry) : EntryMade(k, entry)
    BY <2>1, <2>2, LineFacts, Zenon
  <2> HIDE DEF entry
  <2>5. CacheOK(Stored(cache, entry))
    BY <2>4, StoredOK, Zenon
  <2> QED
    BY <2>3, <2>5 DEF entry
<1>4. CASE ReverseError
  <2>1. PICK a \in Asked : ReverseHit(a) \/ ReverseMiss(a) \/ ReverseStores(a) \/ ReverseFails(a)
    BY <1>4, Zenon DEF ReverseError
  <2>2. CASE ReverseHit(a)
    <3>1. a \in DOMAIN cache /\ cache' = WithRoute(cache, cache[a])
      BY <2>2, Zenon DEF ReverseHit
    <3>2. cache[a] \in Entry
      BY <3>1, Zenon DEF CacheOK
    <3>3. CacheOK(WithRoute(cache, cache[a]))
      BY <1>1, <3>2, WithRouteOK, Zenon
    <3> QED
      BY <3>1, <3>3
  <2>3. CASE ReverseStores(a)
    <3>1. PICK x \in Meanings(None, a) :
            cache' = WithRoute(Stored(cache, PathData(a, x, None)), PathData(a, x, None))
      BY <2>3, Zenon DEF ReverseStores
    <3> DEFINE entry == PathData(a, x, None)
    <3>2. entry \in Entry /\ \A k \in Keys(entry) : EntryMade(k, entry)
      BY ReverseFacts, Zenon
    <3> HIDE DEF entry
    <3>3. CacheOK(Stored(cache, entry))
      BY <3>2, StoredOK, Zenon
    <3>4. CacheOK(WithRoute(Stored(cache, entry), entry))
      BY <1>1, <3>2, <3>3, WithRouteOK, Zenon
    <3> QED
      BY <3>1, <3>4 DEF entry
  <2>4. CASE ReverseMiss(a) \/ ReverseFails(a)
    <3>1. cache' = cache
      BY <2>4, Zenon DEF ReverseMiss, ReverseFails
    <3> QED
      BY <3>1
  <2> QED
    BY <2>1, <2>2, <2>3, <2>4, Zenon
<1>5. CASE UNCHANGED vars \/ ParseInclude \/ ParseNotFound \/ ParsePanics \/ RefreshCompleted
           \/ NewTree \/ AddPath \/ AddFails \/ TreeDone
  <2>1. cache' = cache
    BY <1>5, Zenon DEF vars, ParseInclude, ParseNotFound, ParsePanics, RefreshCompleted, NewTree,
                       AddPath, AddFails, TreeDone
  <2> QED
    BY <2>1
<1>u. CASE Unreadable
  <2>1. cache' = << >> \/ cache' = cache
    BY <1>u, UnreadableFacts, Zenon
  <2>2. DOMAIN << >> = {}
    OBVIOUS
  <2> QED
    BY <2>1, <2>2, Zenon DEF CacheOK
<1> QED
  BY <1>2, <1>3, <1>4, <1>5, <1>u, Zenon DEF Next, Refresh, Unreadable

LEMMA RestStep ==
  ASSUME TypeOK, LinesRight, [Next]_vars
  PROVE  /\ phase' \in {"quiet", "parse", "parsed", "build"}
         /\ outcome' \in {"none", "ok", "invalid", "panicked", "duplicate"}
         /\ missed' \subseteq Asked /\ overlapped' \subseteq Action
<1>1. /\ phase \in {"quiet", "parse", "parsed", "build"}
      /\ outcome \in {"none", "ok", "invalid", "panicked", "duplicate"}
      /\ missed \subseteq Asked /\ overlapped \subseteq Action /\ Asked \subseteq Action
  BY AskedAssumption, Zenon DEF TypeOK
<1>2. CASE ParseRoute
  BY <1>1, <1>2 DEF ParseRoute, Ends
<1>3. CASE ReverseError
  <2>1. PICK a \in Asked : ReverseHit(a) \/ ReverseMiss(a) \/ ReverseStores(a) \/ ReverseFails(a)
    BY <1>3, Zenon DEF ReverseError
  <2>2. CASE ReverseStores(a)
    <3>1. PICK x \in Meanings(None, a) :
            overlapped' \in {overlapped \cup Keys(PathData(a, x, None)),
                             overlapped \ Keys(PathData(a, x, None))}
      BY <2>2 DEF ReverseStores
    <3>2. Keys(PathData(a, x, None)) \subseteq Action
      BY ReverseFacts, KeysFacts
    <3>3. missed' = {} /\ phase' = phase /\ outcome' = outcome
      BY <2>2, Zenon DEF ReverseStores
    <3> QED
      BY <1>1, <3>1, <3>2, <3>3
  <2>3. CASE ReverseHit(a)
    BY <1>1, <2>3 DEF ReverseHit
  <2>4. CASE ReverseMiss(a)
    BY <1>1, <2>4 DEF ReverseMiss
  <2>5. CASE ReverseFails(a)
    BY <1>1, <2>5 DEF ReverseFails
  <2> QED
    BY <2>1, <2>2, <2>3, <2>4, <2>5, Zenon
<1>4. CASE RefreshRequested \/ ParseInclude \/ ParseNotFound \/ RefreshCompleted
  BY <1>1, <1>4 DEF RefreshRequested, ParseInclude, ParseNotFound, RefreshCompleted
<1>5. CASE NewTree \/ AddPath
  BY <1>1, <1>5 DEF NewTree, AddPath
<1>6. CASE ParsePanics \/ AddFails \/ TreeDone
  BY <1>1, <1>6 DEF ParsePanics, AddFails, TreeDone, Ends
<1>7. CASE UNCHANGED vars
  BY <1>1, <1>7 DEF vars
<1>u. CASE Unreadable
  BY <1>1, <1>u, UnreadableFacts DEF Ends
<1> QED
  BY <1>2, <1>3, <1>4, <1>5, <1>6, <1>7, <1>u, Zenon DEF Next, Refresh, Unreadable

LEMMA TypeStep ==
  ASSUME TypeOK, LinesRight, BuildRight, CacheOK(cache), [Next]_vars
  PROVE  TypeOK' /\ LinesRight' /\ CacheOK(cache')
<1>1. LinesOK(todo') /\ RoutesOK(parsed') /\ RoutesOK(Routes')
  BY LinesStep, Zenon
<1>2. /\ \A n \in DOMAIN Tree' : IsLeaf(Tree'[n])
      /\ \A i \in DOMAIN paths' : IsLeaf(paths'[i])
  BY LeavesStep, Zenon
<1>3. CacheOK(cache')
  BY CacheStep, Zenon
<1>4. /\ phase' \in {"quiet", "parse", "parsed", "build"}
      /\ outcome' \in {"none", "ok", "invalid", "panicked", "duplicate"}
      /\ missed' \subseteq Asked /\ overlapped' \subseteq Action
  BY RestStep, Zenon
<1>5. LinesRight'
  BY <1>1, Zenon DEF LinesRight
<1>6. Routes' \in Seq(Table) /\ parsed' \in Seq(Table) /\ todo' \in Seq(Pending)
  BY <1>1, Zenon DEF LinesOK, RoutesOK
<1>7. \A k \in DOMAIN cache' : k \in Action /\ cache'[k] \in Entry
  BY <1>3, Zenon DEF CacheOK
<1>8. TypeOK'
  BY <1>2, <1>4, <1>6, <1>7, Zenon DEF TypeOK
<1> QED
  BY <1>3, <1>5, <1>8

-----------------------------------------------------------------------------
(* The tree and what is left to be added to it, step by step.                 *)

Standing == Tree \in Seq(Leaves(Routes)) /\ \A n \in 1..Len(Tree) : Stands(n)

LEMMA AddPathStep ==
  ASSUME TypeOK, TreeRight, BuildRight, AddPath
  PROVE  Standing' /\ BuildRight'
<1>0. phase = "build" /\ DOMAIN paths # {}
  BY Zenon DEF AddPath
<1>1. PICK i \in DOMAIN paths : /\ i = Min(DOMAIN paths) /\ i \in Firsts(Routes) /\ Rest(i)
                                /\ \A j \in DOMAIN paths : i <= j
  BY <1>0, NextPath, Zenon
<1>2. /\ phase = "build" /\ phase' = "build" /\ Routes' = Routes
      /\ Tree' = Append(Tree, paths[i]) /\ paths' = Added(paths, i)
  <2>1. /\ phase' = phase /\ Routes' = Routes
        /\ Tree' = Append(Tree, paths[Min(DOMAIN paths)]) /\ paths' = Added(paths, Min(DOMAIN paths))
    BY Zenon DEF AddPath
  <2> QED
    BY <1>0, <1>1, <2>1
<1>3. /\ DOMAIN paths \subseteq Firsts(Routes)
      /\ \A j \in DOMAIN paths : Rest(j)
      /\ \A j \in Firsts(Routes) \ DOMAIN paths : \A w \in Verbs(Routes[j]) : Grown(j, w)
  BY <1>2, Zenon DEF BuildRight
<1>4. Tree \in Seq(Leaves(Routes)) /\ \A n \in 1..Len(Tree) : Stands(n)
  BY <1>2, Zenon DEF TreeRight, InUse
<1>5. PICK v \in Verbs(Routes[i]) : /\ paths[i] = LeafOf(Routes, i, v)
                                    /\ Grown(i, "GET") \/ v = Routes[i].verb
  <2>1. CASE paths[i] = LeafOf(Routes, i, Routes[i].verb)
    BY <2>1 DEF Verbs
  <2>2. CASE Routes[i].verb = "GET" /\ Grown(i, "GET") /\ paths[i] = LeafOf(Routes, i, "HEAD")
    BY <2>2 DEF Verbs
  <2> QED
    BY <1>1, <2>1, <2>2, Zenon DEF Rest
<1>6. LeafOf(Routes, i, v) \in Leaves(Routes)
  <2>1. i \in DOMAIN Routes
    BY <1>1, Zenon DEF Firsts
  <2> QED
    BY <2>1 DEF Leaves
<1> DEFINE leaf == LeafOf(Routes, i, v)
<1>7. /\ Tree' \in Seq(Leaves(Routes)) /\ Len(Tree') = Len(Tree) + 1 /\ Len(Tree) \in Nat
      /\ \A n \in 1..Len(Tree) : Tree'[n] = Tree[n]
      /\ Tree'[Len(Tree) + 1] = leaf
  <2>1. Tree' = Append(Tree, leaf) /\ leaf \in Leaves(Routes)
    BY <1>2, <1>5, <1>6, Zenon
  <2> HIDE DEF leaf
  <2> QED
    BY <1>4, <2>1, AppendFacts
<1>8. \A n \in 1..Len(Tree) : n \in 1..Len(Tree')
  BY <1>7
<1>9. ASSUME NEW j, NEW w, Grown(j, w) PROVE Grown(j, w)'
  <2>1. PICK n \in 1..Len(Tree) : Tree[n] = LeafOf(Routes, j, w)
    BY <1>9, Zenon DEF Grown
  <2>2. n \in 1..Len(Tree') /\ Tree'[n] = LeafOf(Routes', j, w)
    BY <1>2, <1>7, <1>8, <2>1
  <2> QED
    BY <2>2, Zenon DEF Grown
<1>10. ASSUME NEW w, w = v PROVE Grown(i, w)'
  <2>1. PICK n \in 1..Len(Tree') : Tree'[n] = leaf
    BY <1>7
  <2>2. Tree'[n] = LeafOf(Routes', i, w)
    BY <1>2, <1>10, <2>1
  <2> QED
    BY <2>1, <2>2, Zenon DEF Grown
<1>11. ASSUME NEW n \in 1..Len(Tree) PROVE Stands(n)'
  <2>1. PICK j \in Firsts(Routes) : \E w \in Verbs(Routes[j]) :
                Tree[n] = LeafOf(Routes, j, w) /\ Ordered(n, j)
    BY <1>4, Zenon DEF Stands
  <2>2. PICK w \in Verbs(Routes[j]) : Tree[n] = LeafOf(Routes, j, w) /\ Ordered(n, j)
    BY <2>1, Zenon
  <2>3. ASSUME NEW k \in Firsts(Routes), NEW u \in Verbs(Routes[k]), k < j
        PROVE  \E m \in 1..(n - 1) : Tree'[m] = LeafOf(Routes, k, u)
    <3>1. PICK m \in 1..(n - 1) : Tree[m] = LeafOf(Routes, k, u)
      BY <2>2, <2>3, Zenon DEF Ordered
    <3>2. m \in 1..Len(Tree)
      BY <1>7
    <3> QED
      BY <1>7, <3>1, <3>2
  <2>4. Ordered(n, j)'
    BY <1>2, <2>3 DEF Ordered
  <2>5. Tree'[n] = LeafOf(Routes', j, w) /\ j \in Firsts(Routes') /\ w \in Verbs(Routes'[j])
    BY <1>2, <1>7, <2>2
  <2> QED
    BY <2>4, <2>5, Zenon DEF Stands
<1>12. ASSUME NEW n, n = Len(Tree) + 1 PROVE Stands(n)'
  <2>1. ASSUME NEW j \in Firsts(Routes), NEW w \in Verbs(Routes[j]), j < i
        PROVE  \E m \in 1..(n - 1) : Tree'[m] = LeafOf(Routes, j, w)
    <3>1. j \notin DOMAIN paths
      <4>1. Routes \in Seq(Table)
        BY Zenon DEF TypeOK
      <4>2. j \in Nat /\ i \in Nat
        BY <1>1, <4>1 DEF Firsts
      <4> QED
        BY <1>1, <2>1, <4>2
    <3>2. PICK m \in 1..Len(Tree) : Tree[m] = LeafOf(Routes, j, w)
      BY <1>3, <3>1, Zenon DEF Grown
    <3>3. m \in 1..(n - 1) /\ Tree'[m] = Tree[m]
      BY <1>7, <1>12
    <3> QED
      BY <3>2, <3>3
  <2>2. Ordered(n, i)'
    BY <1>2, <2>1 DEF Ordered
  <2>3. Tree'[n] = LeafOf(Routes', i, v) /\ i \in Firsts(Routes') /\ v \in Verbs(Routes'[i])
    BY <1>2, <1>1, <1>7, <1>12
  <2> QED
    BY <2>2, <2>3, Zenon DEF Stands
<1>13. Standing'
  <2>1. \A n \in 1..Len(Tree') : n \in 1..Len(Tree) \/ n = Len(Tree) + 1
    BY <1>7
  <2>2. \A n \in 1..Len(Tree') : Stands(n)'
    <3> TAKE n \in 1..Len(Tree')
    <3>1. n \in 1..Len(Tree) \/ n = Len(Tree) + 1
      BY <2>1
    <3> QED
      BY <1>11, <1>12, <3>1
  <2> QED
    BY <1>2, <1>7, <2>2 DEF Standing
<1>14. ASSUME NEW j \in DOMAIN paths, paths'[j] = paths[j] PROVE Rest(j)'
  <2>1. \/ paths[j] = LeafOf(Routes, j, Routes[j].verb)
        \/ Routes[j].verb = "GET" /\ Grown(j, "GET") /\ paths[j] = LeafOf(Routes, j, "HEAD")
    BY <1>3, Zenon DEF Rest
  <2>2. CASE paths[j] = LeafOf(Routes, j, Routes[j].verb)
    BY <1>2, <1>14, <2>2, Zenon DEF Rest
  <2>3. CASE Routes[j].verb = "GET" /\ Grown(j, "GET") /\ paths[j] = LeafOf(Routes, j, "HEAD")
    <3>1. Grown(j, "GET")'
      BY <1>9, <2>3
    <3> QED
      BY <1>2, <1>14, <2>3, <3>1, Zenon DEF Rest
  <2> QED
    BY <2>1, <2>2, <2>3
<1>15. paths[i].verb = v
  <2>1. LeafOf(Routes, i, v).verb = v
    BY DEF LeafOf
  <2> QED
    BY <1>5, <2>1
<1>16. CASE v = "GET"
  <2>1. Routes[i].verb = "GET"
    BY <1>16 DEF Verbs
  <2>2. /\ DOMAIN paths' = DOMAIN paths /\ paths'[i] = [paths[i] EXCEPT !.verb = "HEAD"]
        /\ \A j \in DOMAIN paths \ {i} : paths'[j] = paths[j]
    <3>1. /\ DOMAIN Added(paths, i) = DOMAIN paths
          /\ Added(paths, i)[i] = [paths[i] EXCEPT !.verb = "HEAD"]
          /\ \A j \in DOMAIN paths \ {i} : Added(paths, i)[j] = paths[j]
      <4>1. i \in DOMAIN paths /\ paths[i].verb = "GET"
        BY <1>1, <1>15, <1>16
      <4> QED
        BY <4>1, AddedFacts, Zenon
    <3> QED
      BY <1>2, <3>1
  <2>3. paths'[i] = LeafOf(Routes', i, "HEAD")
    BY <1>2, <1>5, <2>2, HeadFacts
  <2>4. ASSUME NEW j, j = i PROVE Rest(j)'
    <3>1. Grown(j, "GET")'
      <4>1. PICK n \in 1..Len(Tree') : Tree'[n] = leaf
        BY <1>7
      <4>2. Tree'[n] = LeafOf(Routes', j, "GET")
        BY <1>2, <1>16, <2>4, <4>1
      <4> QED
        BY <4>1, <4>2, Zenon DEF Grown
    <3>2. paths'[j] = LeafOf(Routes', j, "HEAD") /\ Routes'[j].verb = "GET"
      BY <1>2, <2>1, <2>3, <2>4
    <3> QED
      BY <3>1, <3>2, Zenon DEF Rest
  <2>5. \A j \in DOMAIN paths' : Rest(j)'
    <3> TAKE j \in DOMAIN paths'
    <3>1. CASE j = i
      BY <2>4, <3>1
    <3>2. CASE j # i
      <4>1. j \in DOMAIN paths /\ paths'[j] = paths[j]
        BY <2>2, <3>2
      <4> QED
        BY <1>14, <4>1
    <3> QED
      BY <3>1, <3>2
  <2>6. \A j \in Firsts(Routes') \ DOMAIN paths' : \A w \in Verbs(Routes'[j]) : Grown(j, w)'
    BY <1>2, <1>3, <1>9, <2>2
  <2>7. DOMAIN paths' \subseteq Firsts(Routes')
    BY <1>2, <1>3, <2>2
  <2>8. ~(phase' = "quiet" /\ outcome' = "ok")
    BY <1>2
  <2> QED
    BY <1>13, <2>5, <2>6, <2>7, <2>8, Zenon DEF BuildRight, Quiet
<1>17. CASE v # "GET"
  <2>1. DOMAIN paths' = DOMAIN paths \ {i} /\ \A j \in DOMAIN paths' : paths'[j] = paths[j]
    <3>1. /\ DOMAIN Added(paths, i) = DOMAIN paths \ {i}
          /\ \A j \in DOMAIN paths \ {i} : Added(paths, i)[j] = paths[j]
      <4>1. i \in DOMAIN paths /\ paths[i].verb # "GET"
        BY <1>1, <1>15, <1>17
      <4> QED
        BY <4>1, AddedFacts, Zenon
    <3> QED
      BY <1>2, <3>1
  <2>2. \A w \in Verbs(Routes[i]) : Grown(i, w)'
    <3> TAKE w \in Verbs(Routes[i])
    <3>1. CASE w = v
      BY <1>10, <3>1
    <3>2. CASE w # v
      <4>1. w = "GET" /\ Grown(i, "GET")
        BY <1>5, <1>17, <3>2 DEF Verbs
      <4>2. Grown(i, w)
        BY <4>1
      <4> QED
        BY <1>9, <4>2
    <3> QED
      BY <3>1, <3>2
  <2>3. \A j \in DOMAIN paths' : Rest(j)'
    BY <1>14, <2>1
  <2>4. \A j \in Firsts(Routes') \ DOMAIN paths' : \A w \in Verbs(Routes'[j]) : Grown(j, w)'
    <3> TAKE j \in Firsts(Routes') \ DOMAIN paths'
    <3> TAKE w \in Verbs(Routes'[j])
    <3>1. CASE j = i
      BY <1>2, <2>2, <3>1
    <3>2. CASE j # i
      <4>1. j \in Firsts(Routes) \ DOMAIN paths /\ w \in Verbs(Routes[j])
        BY <1>2, <2>1, <3>2
      <4> QED
        BY <1>3, <1>9, <4>1
    <3> QED
      BY <3>1, <3>2
  <2>5. DOMAIN paths' \subseteq Firsts(Routes')
    BY <1>2, <1>3, <2>1
  <2>6. ~(phase' = "quiet" /\ outcome' = "ok")
    BY <1>2
  <2> QED
    BY <1>13, <2>3, <2>4, <2>5, <2>6, Zenon DEF BuildRight, Quiet
<1> QED
  BY <1>16, <1>17

LEMMA TreeStep ==
  ASSUME TypeOK, TreeRight, BuildRight, [Next]_vars
  PROVE  TreeRight' /\ BuildRight'
<1>1. ASSUME Routes' = Routes, Tree' = Tree
      PROVE  /\ Standing => Standing'
             /\ \A i, v : Grown(i, v)' <=> Grown(i, v)
  BY <1>1 DEF Standing, Stands, Ordered, Grown
<1>2. TreeRight <=> (InUse => Standing)
  BY Zenon DEF TreeRight, Standing
<1>3. TreeRight' <=> (InUse' => Standing')
  BY Zenon DEF TreeRight, Standing
<1>4. ASSUME ~InUse' PROVE TreeRight' /\ BuildRight'
  BY <1>3, <1>4 DEF InUse, BuildRight, Quiet
<1>5. ASSUME UNCHANGED <<Routes, Tree, paths, phase, outcome>> PROVE TreeRight' /\ BuildRight'
  <2>1. TreeRight'
    BY <1>1, <1>2, <1>3, <1>5 DEF InUse
  <2>2. \A i : Rest(i)' <=> Rest(i)
    BY <1>1, <1>5 DEF Rest
  <2>3. BuildRight'
    BY <1>1, <1>5, <2>2 DEF BuildRight, Quiet
  <2> QED
    BY <2>1, <2>3
<1>6. CASE RefreshRequested \/ ParsePanics \/ RefreshCompleted
  <2>1. ~InUse'
    BY <1>6 DEF RefreshRequested, ParsePanics, RefreshCompleted, Ends, InUse
  <2> QED
    BY <1>4, <2>1
<1>7. CASE ParseInclude \/ ParseNotFound \/ ReverseError \/ UNCHANGED vars
  <2>1. UNCHANGED <<Routes, Tree, paths, phase, outcome>>
    BY <1>7 DEF ParseInclude, ParseNotFound, vars, ReverseError, ReverseHit, ReverseMiss,
                ReverseStores, ReverseFails
  <2> QED
    BY <1>5, <2>1
<1>8. CASE ParseRoute
  <2>1. UNCHANGED <<Routes, Tree, paths, phase, outcome>> \/ Ends("invalid", << >>)
    BY <1>8 DEF ParseRoute
  <2>2. CASE Ends("invalid", << >>)
    <3>1. ~InUse'
      BY <2>2 DEF Ends, InUse
    <3> QED
      BY <1>4, <3>1
  <2> QED
    BY <1>5, <2>1, <2>2
<1>9. CASE NewTree
  <2>1. Tree' = << >> /\ paths' = Paths(Routes) /\ Routes' = Routes /\ phase' = "build"
    BY <1>9, Zenon DEF NewTree
  <2>2. Standing'
    BY <2>1 DEF Standing
  <2>3. DOMAIN paths' = Firsts(Routes')
    BY <2>1 DEF Paths, Firsts
  <2>4. \A i \in DOMAIN paths' : Rest(i)'
    <3> TAKE i \in DOMAIN paths'
    <3>1. paths'[i] = Leaf(Routes, i)
      BY <2>1 DEF Paths
    <3>2. Leaf(Routes, i) = LeafOf(Routes, i, Routes[i].verb)
      BY LeafFacts, Zenon
    <3>3. paths'[i] = LeafOf(Routes', i, Routes'[i].verb)
      BY <2>1, <3>1, <3>2
    <3> QED
      BY <3>3, Zenon DEF Rest
  <2>5. ~(phase' = "quiet" /\ outcome' = "ok")
    BY <2>1
  <2>6. BuildRight'
    BY <2>3, <2>4, <2>5 DEF BuildRight, Quiet
  <2> QED
    BY <1>3, <2>2, <2>6
<1>10. CASE AddPath
  BY <1>3, <1>10, AddPathStep, Zenon
<1>11. CASE AddFails \/ TreeDone
  <2>1. /\ Routes' = Routes /\ Tree' = Tree /\ phase = "build" /\ phase' = "quiet"
        /\ outcome' = "ok" => DOMAIN paths = {}
    BY <1>11 DEF AddFails, TreeDone, Ends
  <2>2. TreeRight'
    BY <1>1, <1>2, <1>3, <2>1 DEF InUse
  <2>3. outcome' = "ok" =>
          \A i \in Firsts(Routes') : \A v \in Verbs(Routes'[i]) : Grown(i, v)'
    BY <1>1, <2>1 DEF BuildRight
  <2>4. BuildRight'
    BY <2>1, <2>3 DEF BuildRight, Quiet
  <2> QED
    BY <2>2, <2>4
<1>u. CASE Unreadable
  <2>1. ~InUse'
    BY <1>u, UnreadableFacts DEF Ends, InUse
  <2> QED
    BY <1>4, <2>1
<1> QED
  BY <1>6, <1>7, <1>8, <1>9, <1>10, <1>11, <1>u, Zenon DEF Next, Refresh, Unreadable

-----------------------------------------------------------------------------
(* What is cached, step by step.                                              *)

LEMMA MissedStep ==
  ASSUME MissedRight, [Next]_vars
  PROVE  MissedRight'
<1>1. /\ \A a, b \in missed : a = b
      /\ phase # "quiet" => missed \subseteq overlapped
      /\ phase = "quiet" => \A a \in missed : a \in overlapped \/ a \notin DOMAIN cache
  BY Zenon DEF MissedRight
<1>2. CASE RefreshRequested
  BY <1>1, <1>2 DEF RefreshRequested, MissedRight
<1>3. CASE ParseRoute
  <2>1. PICK K : /\ overlapped' = overlapped \ (K \ missed) /\ missed' = missed
                 /\ phase = "parse"
    BY <1>3, Zenon DEF ParseRoute
  <2> QED
    BY <1>1, <2>1 DEF MissedRight
<1>4. CASE ParseInclude \/ ParseNotFound \/ ParsePanics \/ RefreshCompleted
           \/ NewTree \/ AddPath \/ AddFails \/ TreeDone
  <2>1. phase # "quiet" /\ missed' = missed /\ overlapped' = overlapped
    BY <1>4 DEF ParseInclude, ParseNotFound, ParsePanics, RefreshCompleted, NewTree, AddPath,
                AddFails, TreeDone
  <2> QED
    BY <1>1, <2>1 DEF MissedRight
<1>5. CASE ReverseError
  <2>1. PICK a \in Asked : ReverseHit(a) \/ ReverseMiss(a) \/ ReverseStores(a) \/ ReverseFails(a)
    BY <1>5, Zenon DEF ReverseError
  <2>2. CASE ReverseHit(a)
    <3>1. /\ DOMAIN cache' = DOMAIN cache
          /\ missed' = missed /\ overlapped' = overlapped /\ phase' = phase
      BY <2>2, WithRouteFacts, Zenon DEF ReverseHit
    <3> QED
      BY <1>1, <3>1 DEF MissedRight
  <2>3. CASE ReverseMiss(a)
    BY <1>1, <2>3 DEF ReverseMiss, MissedRight
  <2>4. CASE ReverseStores(a) \/ ReverseFails(a)
    <3>1. missed' = {}
      BY <2>4, Zenon DEF ReverseStores, ReverseFails
    <3> QED
      BY <3>1 DEF MissedRight
  <2> QED
    BY <2>1, <2>2, <2>3, <2>4, Zenon
<1>6. CASE UNCHANGED vars
  BY <1>1, <1>6 DEF vars, MissedRight
<1>u. CASE Unreadable
  <2>1. missed' = missed /\ (overlapped' = missed \/ (overlapped' = overlapped /\ phase = "parse"))
    BY <1>u, UnreadableFacts, Zenon
  <2> QED
    BY <1>1, <2>1 DEF MissedRight
<1> QED
  BY <1>2, <1>3, <1>4, <1>5, <1>6, <1>u, Zenon DEF Next, Refresh, Unreadable

(* A line that does not name the action of an entry leaves the entry right.   *)
LEMMA NamedFacts ==
  ASSUME NEW lines \in Seq(Table), NEW r \in Table, NEW k, NEW e
  PROVE  /\ Named(lines, k, e) /\ ~Names(r, k, e) => Named(Append(lines, r), k, e)
         /\ Names(r, k, e) /\ e.route = r /\ e.type = r.type => Named(Append(lines, r), k, e)
<1> DEFINE more == Append(lines, r)
<1>1. /\ Len(more) = Len(lines) + 1 /\ Len(lines) \in Nat
      /\ \A i \in 1..Len(lines) : more[i] = lines[i]
      /\ more[Len(lines) + 1] = r
  BY AppendFacts
<1> HIDE DEF more
<1>2. \A j \in 1..Len(more) : j \in 1..Len(lines) \/ j = Len(lines) + 1
  BY <1>1
<1>3. ASSUME Named(lines, k, e), ~Names(r, k, e) PROVE Named(more, k, e)
  <2>1. PICK i \in 1..Len(lines) :
               /\ Names(lines[i], k, e) /\ e.route = lines[i] /\ e.type = lines[i].type
               /\ \A j \in 1..Len(lines) : j > i => ~Names(lines[j], k, e)
    BY <1>3, Zenon DEF Named
  <2>2. i \in 1..Len(more) /\ more[i] = lines[i]
    BY <1>1
  <2>3. \A j \in 1..Len(more) : j > i => ~Names(more[j], k, e)
    BY <1>1, <1>2, <1>3, <2>1
  <2> QED
    BY <2>1, <2>2, <2>3, Zenon DEF Named
<1>4. ASSUME Names(r, k, e), e.route = r, e.type = r.type PROVE Named(more, k, e)
  <2>1. PICK i \in 1..Len(more) : i = Len(lines) + 1
    BY <1>1
  <2>2. more[i] = r
    BY <1>1, <2>1
  <2>3. \A j \in 1..Len(more) : ~(j > i)
    BY <1>1, <2>1
  <2> QED
    BY <1>4, <2>2, <2>3, Zenon DEF Named
<1> QED
  BY <1>3, <1>4 DEF more

(* Two lines of one action are cached under the same names.                   *)
LEMMA NewNames ==
  ASSUME NEW entry \in Entry, TypeRight(entry.key, entry.type), NEW r, r.action = entry.key, r.type = entry.type,
         NEW k \in Action \ Keys(entry), NEW e \in Entry, EntryMade(k, e)
  PROVE  ~Names(r, k, e)
<1> SUFFICES ASSUME Names(r, k, e) PROVE FALSE
  OBVIOUS
<1>1. r.action = e.key
  BY Zenon DEF Names
<1>2. entry.key = e.key /\ entry.key \in Keys(entry)
  BY <1>1, KeysFacts
<1>3. k # e.key /\ k \in Keys(e) /\ TypeRight(e.key, e.type)
  BY <1>2, Zenon DEF EntryMade
<1>4. /\ k.controller = e.key.controller /\ k.method = e.key.method
      /\ e.key.ns = None /\ e.type # None /\ k.ns = e.type.module
  BY <1>3, KeysFacts
<1>5. ~Open(e.key)
  BY <1>3, <1>4 DEF TypeRight
<1>6. entry.type # None
  BY <1>2, <1>5, NoneAssumption DEF TypeRight
<1>7. k.ns = entry.type.module
  BY <1>3, Zenon DEF Names
<1>8. k \in Keys(entry)
  BY <1>2, <1>4, <1>6, <1>7, KeysFacts
<1> QED
  BY <1>8

LEMMA CacheParse ==
  ASSUME TypeOK, LinesRight, CacheOK(cache), CacheRight, ParseNotFound \/ ParseRoute
  PROVE  Current' => Cached' /\ Follows'
<1> SUFFICES ASSUME Current' PROVE Cached' /\ Follows'
  OBVIOUS
<1>1. phase = "parse" /\ todo # << >>
  BY DEF ParseNotFound, ParseRoute
<1>2. Lines = parsed /\ parsed \in Seq(Table) /\ Head(todo) \in Pending /\ LineRight(Head(todo))
  BY <1>1, TailOK DEF Lines, LinesRight, TypeOK
<1>3. /\ \A i \in 1..Len(parsed) : parsed[i].action # NotFound => parsed[i].action \in DOMAIN cache
      /\ \A k \in DOMAIN cache : k \notin overlapped \ missed => Named(parsed, k, cache[k])
  BY <1>1, <1>2 DEF CacheRight, Current, Cached, Follows, Agrees
<1>4. ASSUME NEW r \in Table, parsed' = Append(parsed, r), phase' = "parse",
             DOMAIN cache \subseteq DOMAIN cache', r.action # NotFound => r.action \in DOMAIN cache',
             \A k \in DOMAIN cache' : k \notin overlapped' \ missed' => Named(Append(parsed, r), k, cache'[k])
      PROVE  Cached' /\ Follows'
  <2>1. Lines' = Append(parsed, r)
    BY <1>4 DEF Lines
  <2>2. /\ Len(Append(parsed, r)) = Len(parsed) + 1 /\ Len(parsed) \in Nat
        /\ \A i \in 1..Len(parsed) : Append(parsed, r)[i] = parsed[i]
        /\ Append(parsed, r)[Len(parsed) + 1] = r
    BY <1>2, AppendFacts
  <2>3. ASSUME NEW i \in 1..Len(Lines'), Lines'[i].action # NotFound PROVE Lines'[i].action \in DOMAIN cache'
    <3>1. i \in 1..Len(parsed) \/ i = Len(parsed) + 1
      BY <2>1, <2>2
    <3>2. CASE i \in 1..Len(parsed)
      BY <1>3, <1>4, <2>1, <2>2, <2>3, <3>2
    <3>3. CASE i = Len(parsed) + 1
      BY <1>4, <2>1, <2>2, <2>3, <3>3
    <3> QED
      BY <3>1, <3>2, <3>3
  <2>4. Cached'
    BY <2>3 DEF Cached
  <2>5. Follows'
    BY <1>4, <2>1 DEF Follows, Agrees
  <2> QED
    BY <2>4, <2>5
<1>5. CASE ParseNotFound
  <2>1. PICK r : /\ r = NewRoute(Head(todo), [type |-> None, module |-> Head(todo).module])
                 /\ parsed' = Append(parsed, r) /\ Head(todo).action = NotFound
    BY <1>5, Zenon DEF ParseNotFound
  <2>2. phase' = "parse" /\ cache' = cache /\ overlapped' = overlapped /\ missed' = missed
    BY <1>1, <1>5, Zenon DEF ParseNotFound
  <2>3. r \in Table /\ r.action = NotFound
    BY <1>2, <2>1 DEF NewRoute, Table, Pending
  <2>4. ASSUME NEW k \in DOMAIN cache, k \notin overlapped \ missed
        PROVE  Named(Append(parsed, r), k, cache[k])
    <3>1. cache[k].key \in Action
      BY DEF CacheOK, Entry
    <3>2. ~Names(r, k, cache[k])
      BY <2>3, <3>1, NoneAssumption DEF Names
    <3> QED
      BY <1>2, <1>3, <2>3, <2>4, <3>2, NamedFacts, Zenon
  <2> QED
    BY <1>4, <2>1, <2>2, <2>3, <2>4
<1>6. CASE ParseRoute
  <2>1. Head(todo).action \in Action
    BY <1>6, Zenon DEF ParseRoute
  <2>2. PICK x \in Meanings(Head(todo).module, Head(todo).action) :
          LET route == NewRoute(Head(todo), x)
              entry == PathData(Head(todo).action, x, route)
          IN  /\ cache' = Stored(cache, entry)
              /\ overlapped' = overlapped \ (Keys(entry) \ missed)
              /\ IF ValidateRoute(route)
                 THEN /\ parsed' = Append(parsed, route) /\ todo' = Tail(todo)
                      /\ UNCHANGED <<phase, outcome, Routes, paths>>
                 ELSE Ends("invalid", << >>)
    BY <1>6, Zenon DEF ParseRoute
  <2>3. PICK r : r = NewRoute(Head(todo), x)
    OBVIOUS
  <2>4. PICK entry : entry = PathData(Head(todo).action, x, r)
    OBVIOUS
  <2>5. ~Ends("invalid", << >>)
    BY DEF Ends, Current
  <2>6. /\ cache' = Stored(cache, entry) /\ overlapped' = overlapped \ (Keys(entry) \ missed)
        /\ parsed' = Append(parsed, r) /\ phase' = "parse" /\ missed' = missed
    <3>1. missed' = missed
      BY <1>6, Zenon DEF ParseRoute
    <3> QED
      BY <1>1, <2>2, <2>3, <2>4, <2>5, <3>1
  <2>7. /\ r \in Table /\ r.action = entry.key
        /\ entry \in Entry /\ entry.route = r /\ entry.type = r.type
        /\ TypeRight(entry.key, entry.type)
    BY <1>2, <2>1, <2>3, <2>4, LineFacts
  <2>8. r.action \in Keys(entry)
    BY <2>7, KeysFacts
  <2>9. ASSUME NEW k \in DOMAIN cache', k \notin overlapped' \ missed'
        PROVE  Named(Append(parsed, r), k, cache'[k])
    <3>1. CASE k \in Keys(entry)
      <4>1. cache'[k] = entry
        BY <2>6, <3>1, StoredFacts, ZenonT(60)
      <4>2. Names(r, k, entry)
        <5>1. k = entry.key \/ k.ns = r.type.module
          BY <2>7, <3>1, KeysFacts
        <5> QED
          BY <2>7, <5>1, Zenon DEF Names
      <4> QED
        BY <1>2, <2>7, <4>1, <4>2, NamedFacts
    <3>2. CASE k \notin Keys(entry)
      <4>1. k \in DOMAIN cache /\ cache'[k] = cache[k]
        BY <2>6, <2>9, <3>2, StoredFacts, ZenonT(60)
      <4>2. k \notin overlapped \ missed
        BY <2>6, <2>9, <3>2
      <4>3. k \in Action \ Keys(entry) /\ cache[k] \in Entry /\ EntryMade(k, cache[k])
        BY <3>2, <4>1 DEF CacheOK
      <4>4. ~Names(r, k, cache[k])
        BY <2>7, <4>3, NewNames
      <4>5. Named(parsed, k, cache[k])
        BY <1>3, <4>1, <4>2
      <4> QED
        BY <1>2, <2>7, <4>1, <4>4, <4>5, NamedFacts
    <3> QED
      BY <3>1, <3>2
  <2>10. DOMAIN cache \subseteq DOMAIN cache' /\ r.action \in DOMAIN cache'
    <3>1. DOMAIN cache' = DOMAIN cache \cup Keys(entry)
      BY <2>6, StoredFacts, Zenon
    <3> QED
      BY <2>8, <3>1
  <2> QED
    BY <1>4, <2>6, <2>7, <2>9, <2>10
<1> QED
  BY <1>5, <1>6

LEMMA CacheReverse ==
  ASSUME TypeOK, CacheOK(cache), CacheRight, MissedRight, ReverseError
  PROVE  Current' => Cached' /\ Follows'
<1> SUFFICES ASSUME Current' PROVE Cached' /\ Follows'
  OBVIOUS
<1>1. PICK a \in Asked : ReverseHit(a) \/ ReverseMiss(a) \/ ReverseStores(a) \/ ReverseFails(a)
  BY Zenon DEF ReverseError
<1>2. Routes' = Routes /\ parsed' = parsed /\ phase' = phase /\ outcome' = outcome
  BY DEF ReverseError, ReverseHit, ReverseMiss, ReverseStores, ReverseFails
<1>3. Lines' = Lines /\ Current
  BY <1>2 DEF Lines, Current
<1>4. /\ \A i \in 1..Len(Lines) : Lines[i].action # NotFound => Lines[i].action \in DOMAIN cache
      /\ \A k \in DOMAIN cache : k \notin overlapped \ missed =>
           Named(Lines, k, cache[k]) \/ (phase = "quiet" /\ Unnamed(Lines, k, cache[k]))
  BY <1>3 DEF CacheRight, Cached, Follows, Agrees
<1>5. Routes \in Seq(Table) /\ Lines \in Seq(Table)
  BY DEF TypeOK, Lines
<1>6. ASSUME DOMAIN cache \subseteq DOMAIN cache',
             \A k \in DOMAIN cache' : k \notin overlapped' \ missed' =>
               Named(Lines, k, cache'[k]) \/ (phase = "quiet" /\ Unnamed(Lines, k, cache'[k]))
      PROVE  Cached' /\ Follows'
  <2>1. Cached'
    BY <1>3, <1>4, <1>6 DEF Cached
  <2>2. Follows'
    BY <1>2, <1>3, <1>6 DEF Follows, Agrees
  <2> QED
    BY <2>1, <2>2
<1>7. CASE ReverseMiss(a)
  <2>1. cache' = cache /\ a \notin DOMAIN cache /\ missed = {} /\ missed' = {a}
    BY <1>7, Zenon DEF ReverseMiss
  <2>2. \A k : k \notin overlapped' \ missed' => k = a \/ k \notin overlapped \ missed
    BY <1>7 DEF ReverseMiss
  <2> QED
    BY <1>4, <1>6, <2>1, <2>2
<1>8. CASE ReverseFails(a)
  <2>1. cache' = cache
    BY <1>8, Zenon DEF ReverseFails
  <2>2. missed = {a}
    BY <1>8 DEF ReverseFails, MissedRight
  <2>3. \A k : k \notin overlapped' \ missed' => k \notin overlapped \ missed
    BY <1>8, <2>2 DEF ReverseFails
  <2> QED
    BY <1>4, <1>6, <2>1, <2>3
<1>9. CASE ReverseHit(a)
  <2>1. PICK e : e = cache[a]
    OBVIOUS
  <2>2. /\ a \in DOMAIN cache /\ RouteFor(e) # e.route /\ cache' = WithRoute(cache, e)
        /\ missed' = missed /\ overlapped' = overlapped
    BY <1>9, <2>1, Zenon DEF ReverseHit
  <2>3. e \in Entry
    BY <2>1, <2>2 DEF CacheOK
  <2>4. /\ e.route = None
        /\ \E i \in 1..Len(Routes) : /\ RouteFor(e) = Routes[i]
                                      /\ Variable(Routes[i]) /\ Routes[i].module = e.module
    BY <1>5, <2>2, RouteForFacts
  <2>5. /\ Given(e).key = e.key /\ Given(e).module = e.module /\ Given(e).route = RouteFor(e)
    BY <1>5, <2>3, GivenFacts
  <2>6. ASSUME NEW k \in DOMAIN cache', k \notin overlapped' \ missed'
        PROVE  Named(Lines, k, cache'[k]) \/ (phase = "quiet" /\ Unnamed(Lines, k, cache'[k]))
    <3>1. k \in DOMAIN cache /\ k \notin overlapped \ missed
      BY <2>2, <2>6, WithRouteFacts
    <3>2. Named(Lines, k, cache[k]) \/ (phase = "quiet" /\ Unnamed(Lines, k, cache[k]))
      BY <1>4, <3>1
    <3>3. CASE cache[k] # e
      <4>1. cache'[k] = cache[k]
        BY <2>2, <3>1, <3>3, WithRouteFacts
      <4> QED
        BY <3>2, <4>1
    <3>4. CASE cache[k] = e
      <4>1. cache'[k] = Given(e)
        BY <2>2, <3>1, <3>4, WithRouteFacts
      <4>2. ~Named(Lines, k, e)
        <5> SUFFICES ASSUME Named(Lines, k, e) PROVE FALSE
          OBVIOUS
        <5>1. PICK i \in 1..Len(Lines) : e.route = Lines[i]
          BY Zenon DEF Named
        <5>2. Lines[i] \in Table
          BY <1>5
        <5> QED
          BY <2>4, <5>1, <5>2, NoneAssumption
      <4>3. phase = "quiet" /\ Unnamed(Lines, k, e)
        BY <3>2, <3>4, <4>2
      <4>4. Lines = Routes
        BY <4>3 DEF Lines
      <4>5. \A i \in 1..Len(Lines) : ~Names(Lines[i], k, Given(e))
        BY <2>5, <4>3 DEF Unnamed, Names
      <4>6. Unnamed(Lines, k, Given(e))
        BY <2>4, <2>5, <4>4, <4>5 DEF Unnamed
      <4> QED
        BY <4>1, <4>3, <4>6
    <3> QED
      BY <3>3, <3>4
  <2>7. DOMAIN cache \subseteq DOMAIN cache'
    BY <2>2, WithRouteFacts
  <2> QED
    BY <1>6, <2>6, <2>7
<1>10. CASE ReverseStores(a)
  <2>1. PICK x \in Meanings(None, a) :
          /\ cache' = WithRoute(Stored(cache, PathData(a, x, None)), PathData(a, x, None))
          /\ overlapped' = IF a \in overlapped THEN overlapped \cup Keys(PathData(a, x, None))
                           ELSE overlapped \ Keys(PathData(a, x, None))
    BY <1>10, Zenon DEF ReverseStores
  <2>2. PICK e : e = PathData(a, x, None)
    OBVIOUS
  <2>3. PICK c : c = Stored(cache, e)
    OBVIOUS
  <2>4. /\ cache' = WithRoute(c, e) /\ missed' = {}
        /\ overlapped' = IF a \in overlapped THEN overlapped \cup Keys(e) ELSE overlapped \ Keys(e)
    <3>1. missed' = {}
      BY <1>10, Zenon DEF ReverseStores
    <3> QED
      BY <2>1, <2>2, <2>3, <3>1
  <2>5. e \in Entry /\ e.key = a /\ e.route = None
    BY <2>2, ReverseFacts
  <2>6. missed = {a}
    BY <1>10 DEF ReverseStores, MissedRight
  <2>7. DOMAIN cache' = DOMAIN cache \cup Keys(e)
    <3>1. DOMAIN WithRoute(c, e) = DOMAIN c
      BY WithRouteFacts, Zenon
    <3>2. DOMAIN c = DOMAIN cache \cup Keys(e)
      BY <2>3, StoredFacts, Zenon
    <3> QED
      BY <2>4, <3>1, <3>2
  <2>8. ASSUME NEW k \in DOMAIN cache' \ Keys(e), k \notin overlapped \ missed
        PROVE  Named(Lines, k, cache'[k]) \/ (phase = "quiet" /\ Unnamed(Lines, k, cache'[k]))
    <3>1. k \in DOMAIN cache /\ c[k] = cache[k] /\ k \in DOMAIN c
      BY <2>3, <2>7, StoredFacts
    <3>2. k \in Keys(cache[k])
      BY <3>1 DEF CacheOK, EntryMade
    <3>3. c[k] # e
      BY <3>1, <3>2
    <3>4. cache'[k] = cache[k]
      BY <2>4, <3>1, <3>3, WithRouteFacts
    <3> QED
      BY <1>4, <2>8, <3>1, <3>4
  <2>9. ASSUME NEW k \in Keys(e), a \notin overlapped
        PROVE  phase = "quiet" /\ Unnamed(Lines, k, cache'[k])
    <3>1. phase = "quiet" /\ a \notin DOMAIN cache
      BY <2>6, <2>9 DEF MissedRight
    <3>2. Lines = Routes
      BY <3>1 DEF Lines
    <3>3. c[k] = e /\ k \in DOMAIN c
      <4>1. DOMAIN c = DOMAIN cache \cup Keys(e)
        BY <2>3, StoredFacts, Zenon
      <4>2. c[k] = e
        BY <2>3, <2>9, StoredFacts, ZenonT(60)
      <4> QED
        BY <2>9, <4>1, <4>2
    <3>4. cache'[k] = Given(e)
      BY <2>4, <3>3, WithRouteFacts
    <3>5. Given(e).key = a /\ Given(e).module = e.module /\ Given(e).route = RouteFor(e)
      BY <1>5, <2>5, GivenFacts
    <3>6. a # NotFound
      BY AskedAssumption, NoneAssumption
    <3>7. \A i \in 1..Len(Lines) : ~Names(Lines[i], k, Given(e))
      BY <1>4, <3>1, <3>5, <3>6 DEF Names
    <3>8. \/ RouteFor(e) = None
          \/ \E i \in 1..Len(Routes) : /\ RouteFor(e) = Routes[i]
                                        /\ Variable(Routes[i]) /\ Routes[i].module = e.module
      BY <1>5, <2>5, RouteForFacts
    <3>9. Unnamed(Lines, k, Given(e))
      BY <3>2, <3>5, <3>7, <3>8 DEF Unnamed
    <3> QED
      BY <3>1, <3>4, <3>9
  <2>10. ASSUME NEW k \in DOMAIN cache', k \notin overlapped' \ missed'
         PROVE  Named(Lines, k, cache'[k]) \/ (phase = "quiet" /\ Unnamed(Lines, k, cache'[k]))
    <3>1. CASE k \in Keys(e)
      BY <2>4, <2>9, <2>10, <3>1
    <3>2. CASE k \notin Keys(e)
      BY <2>4, <2>8, <2>10, <3>2
    <3> QED
      BY <3>1, <3>2
  <2> QED
    BY <1>6, <2>7, <2>10
<1> QED
  BY <1>1, <1>7, <1>8, <1>9, <1>10

LEMMA FollowStep ==
  ASSUME TypeOK, LinesRight, CacheOK(cache), CacheRight, MissedRight, CacheOK(cache'), [Next]_vars
  PROVE  CacheRight'
<1>1. \A k \in DOMAIN cache' : EntryMade(k, cache'[k])
  BY Zenon DEF CacheOK
<1>2. ASSUME Current' => Cached' /\ Follows' PROVE CacheRight'
  BY <1>1, <1>2, Zenon DEF CacheRight
<1>3. ASSUME Lines' = Lines, cache' = cache, missed' = missed, overlapped' = overlapped,
             Current' => Current, phase = "quiet" => phase' = "quiet"
      PROVE  CacheRight'
  <2>1. Current' => Cached' /\ Follows'
    BY <1>3 DEF CacheRight, Cached, Follows, Agrees
  <2> QED
    BY <1>2, <2>1
<1>4. CASE RefreshRequested
  <2>1. cache' = << >> /\ parsed' = << >> /\ phase' = "parse"
    BY <1>4, Zenon DEF RefreshRequested
  <2>2. Cached' /\ Follows'
    BY <2>1 DEF Cached, Follows, Lines
  <2> QED
    BY <1>2, <2>2
<1>5. CASE ParseNotFound \/ ParseRoute
  BY <1>2, <1>5, CacheParse
<1>6. CASE ParsePanics \/ AddFails
  <2>1. ~Current'
    BY <1>6 DEF ParsePanics, AddFails, Ends, Current
  <2> QED
    BY <1>2, <2>1
<1>7. CASE ParseInclude \/ UNCHANGED vars
  BY <1>3, <1>7 DEF ParseInclude, vars, Lines, Current
<1>8. CASE RefreshCompleted \/ NewTree \/ AddPath
  BY <1>3, <1>8 DEF RefreshCompleted, NewTree, AddPath, Lines, Current
<1>9. CASE TreeDone
  BY <1>3, <1>9 DEF TreeDone, Ends, Lines, Current
<1>10. CASE ReverseError
  BY <1>2, <1>10, CacheReverse
<1>u. CASE Unreadable
  <2>1. ~Current'
    BY <1>u, UnreadableFacts DEF Ends, Current
  <2> QED
    BY <1>2, <2>1
<1> QED
  BY <1>4, <1>5, <1>6, <1>7, <1>8, <1>9, <1>10, <1>u, Zenon DEF Next, Refresh, Unreadable

-----------------------------------------------------------------------------
(* The URL of a cached entry.                                                 *)

(* Values of one element leave the names in their places.                     *)
LEMMA UrlFacts ==
  ASSUME NEW e, e.route \in Table, NEW arg, OneElement(arg)
  PROVE  InPlace(e, Url(e, arg))
<1> DEFINE p == e.route.path
           u == Url(e, arg)
           val(n) == Part(e, p[n], arg)[1]
<1>1. p \in Seq(Element)
  BY DEF Table
<1>2. u = [n \in DOMAIN p |-> val(n)]
  BY Zenon DEF Url
<1>3. \A n \in DOMAIN p :
        /\ p[n].kind = "lit" => val(n) = p[n].name
        /\ p[n].kind = "var" /\ p[n] = e.route.action.method => val(n) = e.method.name
        /\ p[n].kind = "var" /\ p[n] = e.route.action.controller /\ p[n] # e.route.action.method
             => val(n) = e.controller.name
  BY DEF Part, FromView
<1> HIDE DEF p, u, val
<1>4. DOMAIN p = 1..Len(p) /\ Len(p) \in Nat
  BY <1>1
<1>5. Len(u) = Len(p) /\ \A n \in DOMAIN p : u[n] = val(n)
  BY <1>2, <1>4
<1>6. MatchesPath(p, u)
  <2>1. \A n \in 1..Len(p) : p[n].kind = "lit" => p[n].name = u[n]
    BY <1>3, <1>4, <1>5
  <2>2. Len(u) >= Len(p)
    BY <1>4, <1>5
  <2> QED
    BY <1>5, <2>1, <2>2, Zenon DEF MatchesPath
<1>7. e.route.verb \in {"*", UrlVerb(e)}
  BY DEF UrlVerb
<1>8. Takes(e.route, UrlVerb(e), u)
  BY <1>6, <1>7, Zenon DEF Takes, p
<1> QED
  BY <1>3, <1>5, <1>8, Zenon DEF InPlace, p, u

(* An element of the path reads what the URL has in its place.                *)
LEMMA ValueFacts ==
  ASSUME NEW e, e.route \in Table, NEW u, InPlace(e, u),
         NEW el, el.kind = "var", el \in Range(e.route.path)
  PROVE  /\ el = e.route.action.method => Value(el, e.route.path, u) = e.method.name
         /\ el # e.route.action.method /\ el = e.route.action.controller
              => Value(el, e.route.path, u) = e.controller.name
<1>1. PICK n : n = CHOOSE m \in DOMAIN e.route.path : e.route.path[m] = el
  OBVIOUS
<1>2. n \in DOMAIN e.route.path /\ e.route.path[n] = el
  <2>1. \E m \in DOMAIN e.route.path : e.route.path[m] = el
    BY DEF Range
  <2> QED
    BY <1>1, <2>1, Zenon
<1>3. Value(el, e.route.path, u) = u[n]
  BY <1>1 DEF Value
<1>4. /\ el = e.route.action.method => u[n] = e.method.name
      /\ el # e.route.action.method /\ el = e.route.action.controller => u[n] = e.controller.name
  BY <1>2, Zenon DEF InPlace
<1> QED
  BY <1>3, <1>4

(* The controller and the method that the route of an entry has for its URL.  *)
LEMMA UrlNames ==
  ASSUME NEW e \in Entry, NEW k \in Action, EntryMade(k, e), NEW u, InPlace(e, u),
         e.route \in Table, RouteRight(e.route),
         k.controller.kind = "lit", k.method.kind = "lit",
         Named(Routes, k, e) \/ Unnamed(Routes, k, e),
         \/ e.route.action.method = k.method
         \/ /\ e.route.action.method.kind = "var"
            /\ e.route.action.method # e.route.action.controller
  PROVE  /\ e.route.action # NotFound /\ e.type # None
         /\ TypeFor(e.route, u) = e.type
         /\ Value(e.route.action.method, e.route.path, u) = k.method.name
<1> DEFINE r == e.route
<1>1. /\ k \in Keys(e) /\ e.controller = e.key.controller /\ e.method = e.key.method
      /\ TypeRight(e.key, e.type)
      /\ e.type # None => e.module = e.type.module /\ e.type.name = e.key.controller.name
  BY Zenon DEF EntryMade
<1>2. k.controller = e.key.controller /\ k.method = e.key.method /\ e.key \in Action
  BY <1>1, KeysFacts
<1>3. e.type \in Type /\ e.type # None
  BY <1>1, <1>2, NoneAssumption DEF TypeRight, Open
<1>4. \/ r.action = e.key /\ r.type = e.type
      \/ Variable(r) /\ r.module = e.module
  <2>1. r # None
    BY NoneAssumption
  <2>2. CASE Named(Routes, k, e)
    BY <2>2 DEF Named, Names
  <2>3. CASE Unnamed(Routes, k, e)
    BY <2>1, <2>3 DEF Unnamed
  <2> QED
    BY <2>2, <2>3
<1>5. r.action # NotFound
  BY <1>2, <1>4, NoneAssumption DEF Variable
<1>6. InPath(r.path, r.action)
  BY <1>5 DEF RouteRight
<1>7. TypeFor(r, u) = e.type
  <2>1. CASE r.action = e.key /\ r.type = e.type
    BY <1>2, <2>1 DEF TypeFor
  <2>2. CASE Variable(r) /\ r.module = e.module
    <3>1. r.action.controller.kind = "var" /\ r.action.controller \in Range(r.path)
      BY <1>6, <2>2 DEF Variable, InPath
    <3>2. r.action.controller # r.action.method
      BY <3>1
    <3>3. Value(r.action.controller, r.path, u) = e.controller.name
      BY <3>1, <3>2, ValueFacts
    <3>4. e.controller.name = e.type.name /\ r.module = e.type.module
      BY <1>1, <1>3, <2>2
    <3>5. ControllerByName(e.type.module, e.type.name) = {e.type}
      BY <1>3, TypeAssumption DEF ControllerByName
    <3>6. (CHOOSE t \in {e.type} : TRUE) = e.type
      OBVIOUS
    <3>7. TypeFor(r, u)
            = LET found == ControllerByName(r.module, Value(r.action.controller, r.path, u))
              IN  IF found = {} THEN None ELSE CHOOSE t \in found : TRUE
      BY <3>1 DEF TypeFor
    <3> QED
      BY <3>3, <3>4, <3>5, <3>6, <3>7
  <2> QED
    BY <1>4, <2>1, <2>2
<1>8. Value(r.action.method, r.path, u) = k.method.name
  <2>1. CASE r.action.method = k.method
    BY <2>1 DEF Value
  <2>2. CASE r.action.method.kind = "var"
    <3>1. r.action.method \in Range(r.path)
      BY <1>6, <2>2 DEF InPath
    <3>2. Value(r.action.method, r.path, u) = e.method.name
      BY <2>2, <3>1, ValueFacts
    <3> QED
      BY <1>1, <1>2, <3>2
  <2> QED
    BY <2>1, <2>2
<1> QED
  BY <1>3, <1>5, <1>7, <1>8

(* A request whose first line has a controller is answered by this line.      *)
LEMMA FirstDecides ==
  ASSUME Routes \in Seq(Table), NEW verb, NEW path, NEW i \in DOMAIN Routes,
         Takes(Routes[i], verb, path),
         \A j \in 1..(i - 1) : Takes(Routes[j], verb, path) => Routes[j] = Routes[i],
         Routes[i].action # NotFound, TypeFor(Routes[i], path) # None
  PROVE  Promised(verb, path) = [type   |-> TypeFor(Routes[i], path),
                                 method |-> Value(Routes[i].action.method, Routes[i].path, path)]
<1>1. PICK taking : taking = {n \in DOMAIN Routes : Takes(Routes[n], verb, path)}
  OBVIOUS
<1>2. DOMAIN Routes = 1..Len(Routes) /\ Len(Routes) \in Nat
  OBVIOUS
<1>3. taking \in SUBSET Nat /\ i \in taking
  BY <1>1, <1>2
<1>4. PICK l : l = Min(taking)
  OBVIOUS
<1>5. l \in taking /\ \A j \in taking : l <= j
  BY <1>3, <1>4, MinFacts
<1>6. Routes[l] = Routes[i] /\ l \in DOMAIN Routes
  <2>1. l \in 1..Len(Routes) /\ l <= i /\ Takes(Routes[l], verb, path)
    BY <1>1, <1>2, <1>3, <1>5
  <2>2. l \in 1..(i - 1) \/ l = i
    BY <1>2, <2>1
  <2> QED
    BY <1>2, <2>1, <2>2
<1>7. PICK f : f = [j \in Alike(Routes, l) |-> Routes[j]]
  OBVIOUS
<1>8. /\ DOMAIN f = Alike(Routes, l) /\ \A j \in Alike(Routes, l) : f[j] = Routes[j]
      /\ l \in Alike(Routes, l) /\ Alike(Routes, l) \subseteq DOMAIN Routes
  BY <1>6, <1>7 DEF Alike
<1>9. PICK deciding : deciding = {j \in DOMAIN f : Decides(f[j], path)}
  OBVIOUS
<1>10. l \in deciding
  BY <1>6, <1>8, <1>9 DEF Decides
<1>11. ASSUME NEW j \in deciding PROVE l <= j
  <2>1. j \in DOMAIN Routes /\ TreePath(Routes[j]) = TreePath(Routes[l])
    BY <1>8, <1>9 DEF Alike
  <2>2. Routes[j].verb = Routes[i].verb /\ Routes[j].path = Routes[i].path
    BY <1>6, <2>1 DEF TreePath
  <2>3. j \in taking
    BY <1>1, <2>1, <2>2 DEF Takes
  <2> QED
    BY <1>5, <2>3
<1>12. Min(deciding) = l
  <2>1. deciding \in SUBSET Nat /\ deciding # {}
    BY <1>2, <1>8, <1>9, <1>10
  <2>2. PICK m : m = Min(deciding)
    OBVIOUS
  <2>3. m \in deciding /\ m <= l
    BY <1>10, <2>1, <2>2, MinFacts
  <2>4. m \in Nat /\ l \in Nat /\ l <= m
    BY <1>10, <1>11, <2>1, <2>3
  <2> QED
    BY <2>2, <2>3, <2>4
<1>13. Promised(verb, path) = Decision(f, path)
  BY <1>1, <1>3, <1>4, <1>7 DEF Promised
<1>14. f[Min(deciding)] = Routes[i]
  BY <1>6, <1>8, <1>12
<1>15. Decision(f, path) = [type   |-> TypeFor(f[Min(deciding)], path),
                            method |-> Value(f[Min(deciding)].action.method, f[Min(deciding)].path, path)]
  BY <1>9, <1>10, <1>14, Zenon DEF Decision
<1> QED
  BY <1>13, <1>14, <1>15

-----------------------------------------------------------------------------
(* The inductive invariant, and the theorems.                                 *)

LEMMA Invariant == Spec => []IInv
<1>1. Init => IInv
  <2> SUFFICES ASSUME Init PROVE IInv
    OBVIOUS
  <2>1. TypeOK
    BY DEF Init, TypeOK
  <2>2. TreeRight /\ BuildRight
    BY DEF Init, TreeRight, BuildRight, InUse, Quiet
  <2>3. LinesRight
    BY EmptyOK, Zenon DEF Init, LinesRight
  <2>4. CacheRight /\ MissedRight
    BY DEF Init, CacheRight, MissedRight, Current
  <2> QED
    BY <2>1, <2>2, <2>3, <2>4, Zenon DEF IInv
<1>2. IInv /\ [Next]_vars => IInv'
  <2> SUFFICES ASSUME IInv, [Next]_vars PROVE IInv'
    OBVIOUS
  <2>1. TypeOK /\ TreeRight /\ BuildRight /\ LinesRight /\ CacheRight /\ MissedRight
    BY Zenon DEF IInv
  <2>2. CacheOK(cache)
    BY <2>1, Zenon DEF TypeOK, CacheRight, CacheOK
  <2>3. TypeOK' /\ LinesRight' /\ CacheOK(cache')
    BY <2>1, <2>2, TypeStep, Zenon
  <2>4. TreeRight' /\ BuildRight'
    BY <2>1, TreeStep, Zenon
  <2>5. MissedRight'
    BY <2>1, MissedStep, Zenon
  <2>6. CacheRight'
    BY <2>1, <2>2, <2>3, FollowStep, Zenon
  <2> QED
    BY <2>3, <2>4, <2>5, <2>6, Zenon DEF IInv
<1> QED
  BY <1>1, <1>2, PTL DEF Spec

(* Every variable is in its type.                                             *)
THEOREM TypeCorrect == Spec => []TypeOK
<1>1. IInv => TypeOK
  BY Zenon DEF IInv
<1> QED
  BY <1>1, Invariant, PTL

(* While updateTree builds the tree, after it and after it has given up, a    *)
(* request is answered by the first line of the file that takes it, or not at *)
(* all before the tree is complete.                                           *)
THEOREM FirstLineWins == Spec => []FirstLineAnswers
<1>1. IInv => FirstLineAnswers
  <2> SUFFICES ASSUME IInv, InUse, NEW q \in Requests
               PROVE  LET answer == Route(Tree, Verb(q), q.path)
                      IN  answer = Promised(Verb(q), q.path) \/ (answer = None /\ ~Quiet)
    BY Zenon DEF FirstLineAnswers, InUse
  <2>1. TypeOK /\ TreeRight /\ BuildRight
    BY Zenon DEF IInv
  <2> QED
    BY <2>1, TreeAnswers, Zenon
<1> QED
  BY <1>1, Invariant, PTL

(* After a Refresh an entry of the cache leads to the last line that names    *)
(* it, or to a line with a variable controller where none does.               *)
THEOREM CacheFollows == Spec => []CacheFollowsRefresh
<1>1. IInv => CacheFollowsRefresh
  <2> SUFFICES ASSUME IInv, Quiet, NEW k \in DOMAIN cache \ overlapped
               PROVE  LET e      == cache[k]
                          naming == {i \in DOMAIN Routes : Names(Routes[i], k, e)}
                      IN  IF naming # {} THEN e.route = Routes[Max(naming)]
                          ELSE e.route # None => e.route \in Range(Routes) /\ Variable(e.route)
    BY Zenon DEF CacheFollowsRefresh
  <2>1. PICK e : e = cache[k]
    OBVIOUS
  <2>2. PICK naming : naming = {i \in DOMAIN Routes : Names(Routes[i], k, e)}
    OBVIOUS
  <2>3. TypeOK /\ CacheRight
    BY Zenon DEF IInv
  <2>4. Routes \in Seq(Table) /\ DOMAIN Routes = 1..Len(Routes) /\ Len(Routes) \in Nat
    BY <2>3 DEF TypeOK
  <2>5. Named(Routes, k, e) \/ Unnamed(Routes, k, e)
    BY <2>1, <2>3 DEF CacheRight, Current, Follows, Agrees, Quiet, Lines
  <2>6. CASE Named(Routes, k, e)
    <3>1. PICK i \in 1..Len(Routes) :
                 /\ Names(Routes[i], k, e) /\ e.route = Routes[i]
                 /\ \A j \in 1..Len(Routes) : j > i => ~Names(Routes[j], k, e)
      BY <2>6, Zenon DEF Named
    <3>2. i \in naming /\ naming \in SUBSET (1..Len(Routes))
      BY <2>2, <2>4, <3>1
    <3>3. Max(naming) \in naming /\ \A j \in naming : j <= Max(naming)
      BY <2>4, <3>2, MaxFacts
    <3>4. Max(naming) = i
      <4>1. PICK m : m = Max(naming)
        OBVIOUS
      <4>2. m \in 1..Len(Routes) /\ Names(Routes[m], k, e) /\ i <= m
        BY <2>2, <2>4, <3>2, <3>3, <4>1, Zenon
      <4>3. ~(m > i)
        BY <3>1, <4>2
      <4> QED
        BY <2>4, <4>1, <4>2, <4>3
    <3> QED
      BY <2>1, <2>2, <3>1, <3>2, <3>4
  <2>7. CASE Unnamed(Routes, k, e)
    <3>1. naming = {}
      BY <2>2, <2>4, <2>7 DEF Unnamed
    <3>2. e.route # None => e.route \in Range(Routes) /\ Variable(e.route)
      BY <2>4, <2>7 DEF Unnamed, Range
    <3> QED
      BY <2>1, <2>2, <3>1, <3>2
  <2> QED
    BY <2>5, <2>6, <2>7
<1> QED
  BY <1>1, Invariant, PTL

(* The URL made for an action leads back to it: the request it makes, if no   *)
(* earlier line takes it, invokes that method of that controller, for values  *)
(* of one element and any others that leave the names in their places.        *)
THEOREM UrlsLeadBack == Spec => []ReverseLeadsBack
<1>1. IInv => ReverseLeadsBack
  <2> SUFFICES ASSUME IInv, Quiet, NEW k \in DOMAIN cache \ overlapped, NEW arg \in Args,
                      Reverses(k, arg),
                      \/ cache[k].route.action.method = k.method
                      \/ /\ cache[k].route.action.method.kind = "var"
                         /\ cache[k].route.action.method # cache[k].route.action.controller,
                      OneElement(arg) \/ InPlace(cache[k], Url(cache[k], arg))
               PROVE  Invokes(k, arg)
    BY Zenon DEF ReverseLeadsBack
  <2>1. PICK e : e = cache[k]
    OBVIOUS
  <2>2. TypeOK /\ TreeRight /\ BuildRight /\ LinesRight /\ CacheRight
    BY Zenon DEF IInv
  <2>3. Routes \in Seq(Table) /\ \A i \in DOMAIN Routes : RouteRight(Routes[i])
    BY <2>2 DEF LinesRight, RoutesOK
  <2>4. PICK i : i = CHOOSE n \in DOMAIN Routes : Routes[n] = e.route
    OBVIOUS
  <2>5. /\ k.controller.kind = "lit" /\ k.method.kind = "lit" /\ e.route \in Range(Routes)
        /\ \A j \in 1..(i - 1) : Takes(Routes[j], UrlVerb(e), Url(e, arg)) => Routes[j] = e.route
    BY <2>1, <2>4, Zenon DEF Reverses
  <2>6. i \in DOMAIN Routes /\ Routes[i] = e.route
    <3>1. \E n \in DOMAIN Routes : Routes[n] = e.route
      BY <2>5 DEF Range
    <3> QED
      BY <2>4, <3>1, Zenon
  <2>7. e.route \in Table /\ RouteRight(e.route)
    BY <2>3, <2>6
  <2>0. InPlace(e, Url(e, arg))
    BY <2>1, <2>7, UrlFacts, Zenon
  <2>8. e \in Entry /\ k \in Action /\ EntryMade(k, e)
    BY <2>1, <2>2 DEF TypeOK, CacheRight
  <2>9. Named(Routes, k, e) \/ Unnamed(Routes, k, e)
    BY <2>1, <2>2 DEF CacheRight, Current, Follows, Agrees, Quiet, Lines
  <2>10. /\ e.route.action # NotFound /\ e.type # None
         /\ TypeFor(e.route, Url(e, arg)) = e.type
         /\ Value(e.route.action.method, e.route.path, Url(e, arg)) = k.method.name
    BY <2>0, <2>1, <2>5, <2>7, <2>8, <2>9, UrlNames
  <2>11. Takes(e.route, UrlVerb(e), Url(e, arg))
    BY <2>0, Zenon DEF InPlace
  <2>12. Promised(UrlVerb(e), Url(e, arg)) = [type |-> e.type, method |-> k.method.name]
    BY <2>3, <2>5, <2>6, <2>10, <2>11, FirstDecides
  <2>13. Route(Tree, UrlVerb(e), Url(e, arg)) = Promised(UrlVerb(e), Url(e, arg))
    BY <2>2, TreeAnswers DEF InUse, Quiet
  <2> QED
    BY <2>1, <2>12, <2>13, Zenon DEF Invokes
<1> QED
  BY <1>1, Invariant, PTL
=============================================================================
