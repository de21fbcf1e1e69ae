--------------------------- MODULE FilterChainProofs ---------------------------
(* Theorems about the filters around an action, for every set of sessions and *)
(* messages and every course of a browser's requests; and, at the end, about  *)
(* how chains are configured before the first of them.                        *)
EXTENDS FilterChain, FilterConfig, SequenceTheorems, FiniteSetTheorems, WellFoundedInduction,
        TLAPS

Past(f)   == at \notin Filter \/ Place[at] < Place[f]  \* f is over, if it was entered
Within(f) == at \in Filter /\ Place[at] > Place[f]     \* f waits for the filter it called

(* Filters are entered from the outside in and left from the inside out; a    *)
(* panic goes through all of them up to PanicFilter.                          *)
Flow ==
  /\ at \in Filter \cup {"Apply", "Done"}
  /\ way \in {"down", "up", "panic", "finally", "finallyPanic"}
  /\ reached \subseteq Filter /\ crossed \subseteq reached \ {"Panic"}
  /\ at \notin Filter => way = "up"
  /\ way = "down" => crossed = {} /\ \A g \in reached : Place[g] < Place[at] \/ at = "Action"
  /\ way # "down" /\ at \in Filter => at \in reached
  /\ way = "up" /\ at \in Filter => at # "Action" /\ Inner(at) \in reached /\ crossed = {}
  /\ way = "panic" => at # "Action" /\ (Inner(at) \in crossed \/ (at \in Hooked /\ crossed = {}))
  /\ way = "finally" => at \in Hooked /\ crossed = {}
  /\ way = "finallyPanic" => at \in Hooked
  /\ \A g \in Filter : Within(g) => g \in reached
  /\ \A g \in crossed : Past(g)
  /\ \A f \in reached, g \in Filter : Place[g] < Place[f] => g \in reached
  /\ \A f \in crossed, g \in Filter : Place[g] < Place[f] /\ g # "Panic" /\ Past(g) => g \in crossed

(* Which hooks of f have run, and which are still to.                         *)
OwnHooks(f) ==
  /\ \A w \in When : <<f, w>> \in ran => f \in reached
  /\ <<f, "BEFORE">> \in ran => Inner(f) \in reached \/ (at = Inner(f) /\ way = "down")
  /\ Inner(f) \in reached \/ Within(f) => <<f, "BEFORE">> \in ran
  /\ <<f, "AFTER">> \in ran => Inner(f) \in reached \ crossed /\ ~Within(f)
  /\ <<f, "PANIC">> \in ran => f \in crossed \/ (at = f /\ way = "finallyPanic")
  /\ Inner(f) \in crossed => <<f, "PANIC">> \in ran \/ (at = f /\ way = "panic")
  /\ Inner(f) \in reached \ crossed =>
       <<f, "AFTER">> \in ran \/ Within(f) \/ (at = f /\ way = "up")
  /\ <<f, "FINALLY">> \in ran <=> f \in reached /\ Past(f)

HooksRight == \A f \in Hooked : OwnHooks(f)

(* While the filters run nothing is answered but what user code writes itself, *)
(* which no cookie goes with; then PanicFilter may answer with the stack.  A   *)
(* panic nobody had written before is answered by the stack or its page.       *)
AtOnce(a) == a.body \in {"direct", "socket"}

AnswerRight ==
  /\ at \in Filter => answer = NoAnswer \/ AtOnce(answer)
  /\ at = "Apply" => \/ answer = NoAnswer \/ AtOnce(answer)
                     \/ answer.body = "stack" /\ answer.set = setCookie
  /\ AtOnce(answer) => answer.set = NothingSet
  /\ at = "Apply" /\ crossed # {} /\ answer = NoAnswer => result # None /\ result[1] = "Panic"
  /\ PanicNeverAnsweredByPage

(* A cookie is set by its filter alone, when the call to the next one has     *)
(* returned, to what the request leaves there.                                *)
CookiesRight ==
  /\ at # "Done" => jar = cookies
  /\ setCookie["session"] # Unsent => Past("Session") /\ Passed("Session")
  /\ setCookie["flash"] # Unsent => Past("Flash") /\ Passed("Flash")
  /\ setCookie["errors"] # Unsent => Past("Validation") /\ Passed("Validation")
  /\ Past("Session") /\ Passed("Session") =>
       setCookie["session"] = IF Encodes THEN session ELSE Unsent
  /\ Past("Flash") /\ Passed("Flash") => setCookie["flash"] = flashOut
  /\ Past("Validation") /\ Passed("Validation") /\ ~json =>
       setCookie["errors"] = IF keep /\ errors THEN TRUE
                             ELSE IF cookies.errors THEN FALSE ELSE Unsent
  /\ json => setCookie["errors"] = Unsent
  /\ SessionCarriedOver /\ OneShotCookies

TmpFilesRight == tmpFiles => at \in Filter /\ Place[at] >= Place["Params"]

IInv == TypeOK /\ Flow /\ HooksRight /\ AnswerRight /\ CookiesRight /\ TmpFilesRight

-----------------------------------------------------------------------------
(* The chain. *)

LEMMA Order ==
  /\ Filter = {"Panic", "Router", "Params", "Session", "Flash", "Validation",
               "Interceptor", "BeforeAfter", "Action"}
  /\ Place["Panic"] = 1 /\ Place["Router"] = 2 /\ Place["Params"] = 3 /\ Place["Session"] = 4
  /\ Place["Flash"] = 5 /\ Place["Validation"] = 6 /\ Place["Interceptor"] = 7
  /\ Place["BeforeAfter"] = 8 /\ Place["Action"] = 9
<1>1. DOMAIN Chain = 1..9
  BY DEF Chain
<1>2. /\ Chain[1] = "Panic" /\ Chain[2] = "Router" /\ Chain[3] = "Params" /\ Chain[4] = "Session"
      /\ Chain[5] = "Flash" /\ Chain[6] = "Validation" /\ Chain[7] = "Interceptor"
      /\ Chain[8] = "BeforeAfter" /\ Chain[9] = "Action"
  BY DEF Chain
<1>3. \A i \in 1..9 : i = 1 \/ i = 2 \/ i = 3 \/ i = 4 \/ i = 5 \/ i = 6 \/ i = 7 \/ i = 8 \/ i = 9
  OBVIOUS
<1>4. Filter = {"Panic", "Router", "Params", "Session", "Flash", "Validation",
                "Interceptor", "BeforeAfter", "Action"}
  BY <1>1, <1>2, <1>3 DEF Filter
<1>5. \A i, j \in 1..9 : Chain[i] = Chain[j] => i = j
  BY <1>2, <1>3
<1>6. ASSUME NEW i \in 1..9 PROVE Place[Chain[i]] = i
  <2>1. Chain[i] \in Filter
    BY <1>1 DEF Filter
  <2>2. (CHOOSE j \in DOMAIN Chain : Chain[j] = Chain[i]) = i
    BY <1>1, <1>5
  <2> QED
    BY <2>1, <2>2 DEF Place
<1>7. /\ Place["Panic"] = 1 /\ Place["Router"] = 2 /\ Place["Params"] = 3 /\ Place["Session"] = 4
      /\ Place["Flash"] = 5 /\ Place["Validation"] = 6 /\ Place["Interceptor"] = 7
      /\ Place["BeforeAfter"] = 8 /\ Place["Action"] = 9
  <2>1. \A i \in 1..9 : Place[Chain[i]] = i
    BY <1>6
  <2> QED
    BY <1>2, <2>1
<1> QED
  BY <1>4, <1>7

LEMMA Neighbours ==
  /\ \A f \in Filter \ {"Action"} : Inner(f) \in Filter /\ Place[Inner(f)] = Place[f] + 1
  /\ \A f \in Filter \ {"Panic"} : Outer(f) \in Filter /\ Place[Outer(f)] = Place[f] - 1
  /\ Outer("Panic") = "Apply"
  /\ \A f \in Filter : Place[f] \in 1..9
  /\ \A f, g \in Filter : Place[f] = Place[g] => f = g
  /\ Hooked \subseteq Filter \ {"Panic", "Action"}
  /\ "Apply" \notin Filter /\ "Done" \notin Filter /\ "Action" \in Filter
  /\ Place["Action"] = 9 /\ Place["Panic"] = 1
<1> USE Order
<1>1. /\ Inner("Panic") = "Router" /\ Inner("Router") = "Params" /\ Inner("Params") = "Session"
      /\ Inner("Session") = "Flash" /\ Inner("Flash") = "Validation"
      /\ Inner("Validation") = "Interceptor" /\ Inner("Interceptor") = "BeforeAfter"
      /\ Inner("BeforeAfter") = "Action"
  BY DEF Inner, Chain
<1>2. /\ Outer("Router") = "Panic" /\ Outer("Params") = "Router" /\ Outer("Session") = "Params"
      /\ Outer("Flash") = "Session" /\ Outer("Validation") = "Flash"
      /\ Outer("Interceptor") = "Validation" /\ Outer("BeforeAfter") = "Interceptor"
      /\ Outer("Action") = "BeforeAfter"
  BY DEF Outer, Chain
<1>3. Outer("Panic") = "Apply"
  BY DEF Outer
<1>4. \A f \in Filter \ {"Action"} : Inner(f) \in Filter /\ Place[Inner(f)] = Place[f] + 1
  BY <1>1
<1>5. \A f \in Filter \ {"Panic"} : Outer(f) \in Filter /\ Place[Outer(f)] = Place[f] - 1
  BY <1>2
<1>6. \A f \in Filter : Place[f] \in 1..9
  OBVIOUS
<1>7. \A f, g \in Filter : Place[f] = Place[g] => f = g
  OBVIOUS
<1> QED
  BY <1>3, <1>4, <1>5, <1>6, <1>7 DEF Hooked

-----------------------------------------------------------------------------
(* The moves along the chain. *)

LEMMA FlowOfCall ==
  ASSUME Flow, NEW f \in Filter \ {"Action"}, Call(f), CallNext(f), UNCHANGED crossed
  PROVE  Flow'
BY Neighbours DEF Flow, Call, CallNext, Past, Within

LEMMA FlowOfReturn ==
  ASSUME Flow, NEW f \in Filter, at = f, crossed = {}, Return(f), UNCHANGED crossed,
         reached' = reached \cup {f}
  PROVE  Flow'
BY Neighbours DEF Flow, Return, Past, Within

LEMMA FlowOfThrow ==
  ASSUME Flow, NEW f \in Filter \ {"Panic"}, at = f, Throw(f),
         reached' = reached \cup {f}
  PROVE  Flow'
BY Neighbours DEF Flow, Throw, Past, Within

LEMMA FlowOfRecover ==
  ASSUME Flow, at = "Panic", Return("Panic"), UNCHANGED <<reached, crossed>>, way # "down"
  PROVE  Flow'
BY Neighbours DEF Flow, Return, Past, Within

LEMMA FlowOfHook ==
  ASSUME Flow, NEW f \in Hooked, at = f, at' = f, reached' = reached \cup {f}, UNCHANGED crossed,
         \/ way' \in {"finally", "panic"} /\ crossed = {}
         \/ way' = "finallyPanic"
  PROVE  Flow'
BY Neighbours DEF Flow, Past, Within

LEMMA HooksOfCall ==
  ASSUME Flow, HooksRight, NEW f \in Filter \ (Hooked \cup {"Action"}),
         Call(f), CallNext(f), UNCHANGED <<ran, crossed>>
  PROVE  HooksRight'
<1> SUFFICES ASSUME NEW g \in Hooked
             PROVE  OwnHooks(g)'
  BY DEF HooksRight
<1>1. OwnHooks(g)
  BY DEF HooksRight
<1>2. /\ g \in Filter \ {"Panic", "Action"} /\ Inner(g) \in Filter /\ Place[Inner(g)] = Place[g] + 1
      /\ Place[g] \in 1..9 /\ Place[f] \in 1..9 /\ g # f
  BY Neighbours
<1>3. \A w \in When : <<g, w>> \in ran => g \in reached'
  BY <1>1, <1>2, Neighbours DEF Flow, OwnHooks, Call, CallNext, Past, Within
<1>4. <<g, "AFTER">> \in ran => Inner(g) \in reached' \ crossed' /\ ~Within(g)'
  BY <1>1, <1>2, Neighbours DEF Flow, OwnHooks, Call, CallNext, Past, Within
<1>5. <<g, "PANIC">> \in ran => g \in crossed' \/ (at' = g /\ way' = "finallyPanic")
  BY <1>1, <1>2, Neighbours DEF Flow, OwnHooks, Call, CallNext, Past, Within
<1>6. Inner(g) \in crossed' => <<g, "PANIC">> \in ran \/ (at' = g /\ way' = "panic")
  BY <1>1, <1>2, Neighbours DEF Flow, OwnHooks, Call, CallNext, Past, Within
<1>7. Inner(g) \in reached' \ crossed' =>
        <<g, "AFTER">> \in ran \/ Within(g)' \/ (at' = g /\ way' = "up")
  BY <1>1, <1>2, Neighbours DEF Flow, OwnHooks, Call, CallNext, Past, Within
<1>8. <<g, "FINALLY">> \in ran <=> g \in reached' /\ Past(g)'
  BY <1>1, <1>2, Neighbours DEF Flow, OwnHooks, Call, CallNext, Past, Within
<1>9. /\ <<g, "BEFORE">> \in ran => Inner(g) \in reached' \/ (at' = Inner(g) /\ way' = "down")
      /\ Inner(g) \in reached' \/ Within(g)' => <<g, "BEFORE">> \in ran
  BY <1>1, <1>2, Neighbours DEF Flow, OwnHooks, Call, CallNext, Within
<1> QED
  BY <1>3, <1>4, <1>5, <1>6, <1>7, <1>8, <1>9 DEF OwnHooks

LEMMA HooksOfReturn ==
  ASSUME Flow, HooksRight, NEW f \in Filter \ Hooked, at = f, Return(f), UNCHANGED <<ran, crossed>>,
         reached' = reached \cup {f}
  PROVE  HooksRight'
<1> SUFFICES ASSUME NEW g \in Hooked
             PROVE  OwnHooks(g)'
  BY DEF HooksRight
<1>1. OwnHooks(g)
  BY DEF HooksRight
<1>2. /\ g \in Filter \ {"Panic", "Action"} /\ Inner(g) \in Filter /\ Place[Inner(g)] = Place[g] + 1
      /\ Place[g] \in 1..9 /\ Place[f] \in 1..9 /\ g # f
  BY Neighbours
<1>3. \A w \in When : <<g, w>> \in ran => g \in reached'
  BY <1>1, <1>2, Neighbours DEF Flow, OwnHooks, Return, Past, Within
<1>4. <<g, "AFTER">> \in ran => Inner(g) \in reached' \ crossed' /\ ~Within(g)'
  BY <1>1, <1>2, Neighbours DEF Flow, OwnHooks, Return, Past, Within
<1>5. <<g, "PANIC">> \in ran => g \in crossed' \/ (at' = g /\ way' = "finallyPanic")
  BY <1>1, <1>2, Neighbours DEF Flow, OwnHooks, Return, Past, Within
<1>6. Inner(g) \in crossed' => <<g, "PANIC">> \in ran \/ (at' = g /\ way' = "panic")
  BY <1>1, <1>2, Neighbours DEF Flow, OwnHooks, Return, Past, Within
<1>7. Inner(g) \in reached' \ crossed' =>
        <<g, "AFTER">> \in ran \/ Within(g)' \/ (at' = g /\ way' = "up")
  BY <1>1, <1>2, Neighbours DEF Flow, OwnHooks, Return, Past, Within
<1>8. <<g, "FINALLY">> \in ran <=> g \in reached' /\ Past(g)'
  BY <1>1, <1>2, Neighbours DEF Flow, OwnHooks, Return, Past, Within
<1>9. /\ <<g, "BEFORE">> \in ran => Inner(g) \in reached' \/ (at' = Inner(g) /\ way' = "down")
      /\ Inner(g) \in reached' \/ Within(g)' => <<g, "BEFORE">> \in ran
  BY <1>1, <1>2, Neighbours DEF Flow, OwnHooks, Return, Within
<1> QED
  BY <1>3, <1>4, <1>5, <1>6, <1>7, <1>8, <1>9 DEF OwnHooks

LEMMA HooksOfThrow ==
  ASSUME Flow, HooksRight, NEW f \in Filter \ (Hooked \cup {"Panic"}), at = f, Throw(f),
         reached' = reached \cup {f}, UNCHANGED ran
  PROVE  HooksRight'
<1> SUFFICES ASSUME NEW g \in Hooked
             PROVE  OwnHooks(g)'
  BY DEF HooksRight
<1>1. OwnHooks(g)
  BY DEF HooksRight
<1>2. /\ g \in Filter \ {"Panic", "Action"} /\ Inner(g) \in Filter /\ Place[Inner(g)] = Place[g] + 1
      /\ Place[g] \in 1..9 /\ Place[f] \in 1..9 /\ g # f
  BY Neighbours
<1>3. \A w \in When : <<g, w>> \in ran => g \in reached'
  BY <1>1, <1>2, Neighbours DEF Flow, OwnHooks, Throw, Past, Within
<1>4. <<g, "AFTER">> \in ran => Inner(g) \in reached' \ crossed' /\ ~Within(g)'
  BY <1>1, <1>2, Neighbours DEF Flow, OwnHooks, Throw, Past, Within
<1>5. <<g, "PANIC">> \in ran => g \in crossed' \/ (at' = g /\ way' = "finallyPanic")
  BY <1>1, <1>2, Neighbours DEF Flow, OwnHooks, Throw, Past, Within
<1>6. Inner(g) \in crossed' => <<g, "PANIC">> \in ran \/ (at' = g /\ way' = "panic")
  BY <1>1, <1>2, Neighbours DEF Flow, OwnHooks, Throw, Past, Within
<1>7. Inner(g) \in reached' \ crossed' =>
        <<g, "AFTER">> \in ran \/ Within(g)' \/ (at' = g /\ way' = "up")
  BY <1>1, <1>2, Neighbours DEF Flow, OwnHooks, Throw, Past, Within
<1>8. <<g, "FINALLY">> \in ran <=> g \in reached' /\ Past(g)'
  BY <1>1, <1>2, Neighbours DEF Flow, OwnHooks, Throw, Past, Within
<1>9. /\ <<g, "BEFORE">> \in ran => Inner(g) \in reached' \/ (at' = Inner(g) /\ way' = "down")
      /\ Inner(g) \in reached' \/ Within(g)' => <<g, "BEFORE">> \in ran
  BY <1>1, <1>2, Neighbours DEF Flow, OwnHooks, Throw, Within
<1> QED
  BY <1>3, <1>4, <1>5, <1>6, <1>7, <1>8, <1>9 DEF OwnHooks

LEMMA HooksOfRecover ==
  ASSUME Flow, HooksRight, at = "Panic", Return("Panic"), UNCHANGED <<ran, reached, crossed>>,
         way # "down"
  PROVE  HooksRight'
<1>1. "Panic" \in Filter \ Hooked /\ reached' = reached \cup {"Panic"}
  BY Neighbours DEF Flow
<1> QED
  BY <1>1, HooksOfReturn DEF Flow

(* What a hooked filter running its hooks w does to the other hooked filter.  *)
LEMMA HooksElsewhere ==
  ASSUME Flow, HooksRight, NEW f \in Hooked, at = f, NEW w \in When,
         ran' = ran \/ ran' = ran \cup {<<f, w>>},
         \/ at' = f /\ UNCHANGED crossed
         \/ CallNext(f) /\ way = "down" /\ UNCHANGED crossed
         \/ Return(f) /\ crossed = {} /\ UNCHANGED crossed
         \/ Throw(f),
         reached' = reached \cup {f}, NEW g \in Hooked, g # f
  PROVE  OwnHooks(g)'
<1>1. OwnHooks(g)
  BY DEF HooksRight
<1>2. /\ g \in Filter \ {"Panic", "Action"} /\ Inner(g) \in Filter /\ Place[Inner(g)] = Place[g] + 1
      /\ f \in Filter \ {"Panic", "Action"} /\ Inner(f) \in Filter /\ Place[Inner(f)] = Place[f] + 1
      /\ Outer(f) \in Filter /\ Place[Outer(f)] = Place[f] - 1
      /\ Place[g] \in 1..9 /\ Place[f] \in 1..9 /\ Place[f] # Place[g]
  BY Neighbours
<1>3. \A v \in When : <<g, v>> \in ran' <=> <<g, v>> \in ran
  OBVIOUS
<1>4. \A v \in When : <<g, v>> \in ran' => g \in reached'
  BY <1>1, <1>3 DEF OwnHooks
<1> USE DEF OwnHooks, Flow, Past, Within, When, CallNext, Return, Throw
<1>5. <<g, "AFTER">> \in ran' => Inner(g) \in reached' \ crossed' /\ ~Within(g)'
  BY <1>1, <1>2, <1>3, Neighbours
<1>6. <<g, "PANIC">> \in ran' => g \in crossed' \/ (at' = g /\ way' = "finallyPanic")
  BY <1>1, <1>2, <1>3, Neighbours
<1>7. Inner(g) \in crossed' => <<g, "PANIC">> \in ran' \/ (at' = g /\ way' = "panic")
  BY <1>1, <1>2, <1>3, Neighbours
<1>8. Inner(g) \in reached' \ crossed' =>
        <<g, "AFTER">> \in ran' \/ Within(g)' \/ (at' = g /\ way' = "up")
  BY <1>1, <1>2, <1>3, Neighbours
<1>9. <<g, "FINALLY">> \in ran' <=> g \in reached' /\ Past(g)'
  BY <1>1, <1>2, <1>3, Neighbours
<1>10. /\ <<g, "BEFORE">> \in ran' => Inner(g) \in reached' \/ (at' = Inner(g) /\ way' = "down")
       /\ Inner(g) \in reached' \/ Within(g)' => <<g, "BEFORE">> \in ran'
  BY <1>1, <1>2, <1>3, Neighbours
<1> QED
  BY <1>4, <1>5, <1>6, <1>7, <1>8, <1>9, <1>10 DEF OwnHooks

-----------------------------------------------------------------------------
(* What the client gets and what the browser keeps, while the filters run. *)

LEMMA AnswerKept ==
  ASSUME AnswerRight, at \in Filter, at' \in Filter, UNCHANGED answer
  PROVE  AnswerRight'
BY Neighbours DEF AnswerRight, PanicNeverAnsweredByPage

(* Which of the filters that set a cookie are over without a panic changes    *)
(* only when one of them returns.                                             *)
LEMMA OverKept ==
  ASSUME Flow, NEW f \in Filter, at = f, reached' = reached \cup {f}, NEW g \in Filter,
         \/ at' = f /\ UNCHANGED crossed
         \/ CallNext(f) /\ f # "Action" /\ way = "down" /\ UNCHANGED crossed
         \/ Return(f) /\ UNCHANGED crossed /\ g # f
         \/ Throw(f) /\ f # "Panic"
  PROVE  (Past(g) /\ Passed(g)) <=> (Past(g)' /\ Passed(g)')
BY Neighbours DEF Flow, Past, Passed, CallNext, Return, Throw

LEMMA CookiesKept ==
  ASSUME CookiesRight, at # "Done", at' # "Done", UNCHANGED <<cookies, jar, setCookie, json>>,
         \A f \in {"Session", "Flash", "Validation"} :
           (Past(f) /\ Passed(f)) <=> (Past(f)' /\ Passed(f)'),
         Past("Session") /\ Passed("Session") => UNCHANGED session,
         Past("Flash") /\ Passed("Flash") => UNCHANGED flashOut,
         Past("Validation") /\ Passed("Validation") => UNCHANGED <<keep, errors>>
  PROVE  CookiesRight'
<1>1. SessionCarriedOver' /\ OneShotCookies'
  BY DEF SessionCarriedOver, OneShotCookies, Ended
<1>2. \A f \in {"Session", "Flash", "Validation"} :
        (Past(f) /\ Passed(f)) <=> (Past(f)' /\ Passed(f)')
  OBVIOUS
<1>3. /\ jar' = cookies'
      /\ setCookie'["session"] # Unsent => Past("Session")' /\ Passed("Session")'
      /\ setCookie'["flash"] # Unsent => Past("Flash")' /\ Passed("Flash")'
      /\ setCookie'["errors"] # Unsent => Past("Validation")' /\ Passed("Validation")'
  BY DEF CookiesRight
<1>7. json' => setCookie'["errors"] = Unsent
  BY DEF CookiesRight
<1>4. Past("Session")' /\ Passed("Session")' =>
         setCookie'["session"] = IF Encodes' THEN session' ELSE Unsent
  BY DEF CookiesRight, Encodes
<1>5. Past("Flash")' /\ Passed("Flash")' => setCookie'["flash"] = flashOut'
  BY DEF CookiesRight
<1>6. Past("Validation")' /\ Passed("Validation")' /\ ~json' =>
       setCookie'["errors"] = IF keep' /\ errors' THEN TRUE
                              ELSE IF cookies'.errors THEN FALSE ELSE Unsent
  <2> SUFFICES ASSUME Past("Validation")', Passed("Validation")', ~json'
               PROVE  setCookie'["errors"] = IF keep' /\ errors' THEN TRUE
                              ELSE IF cookies'.errors THEN FALSE ELSE Unsent
    OBVIOUS
  <2>1. Past("Validation") /\ Passed("Validation") /\ ~json
    OBVIOUS
  <2>2. UNCHANGED <<keep, errors, cookies, setCookie>>
    BY <2>1
  <2>3. setCookie["errors"] = IF keep /\ errors THEN TRUE
                              ELSE IF cookies.errors THEN FALSE ELSE Unsent
    BY Zenon, <2>1 DEF CookiesRight
  <2> QED
    BY Zenon, <2>2, <2>3
<1> QED
  BY <1>1, <1>3, <1>4, <1>5, <1>6, <1>7 DEF CookiesRight

CookiesTyped == setCookie \in SetCookies

LEMMA TypeKept ==
  ASSUME TypeOK, Flow', UNCHANGED <<devMode, cookies, jar, json>>, answer' \in Answer,
         setCookie' = setCookie \/ CookiesTyped',
         session' \in Session, flashOut' \in Message \cup {None},
         errors' \in BOOLEAN, keep' \in BOOLEAN, tmpFiles' \in BOOLEAN,
         result' \in {result} \cup Result,
         status' \in {status, 200, 404, 500}, ran' \subseteq Hooked \X When
  PROVE  TypeOK'
<1>1. result' \in {None} \cup Result
  BY DEF TypeOK
<1>2. status' \in {0, 200, 404, 500} /\ devMode' \in BOOLEAN /\ json' \in BOOLEAN
  BY DEF TypeOK
<1>3. reached' \subseteq Filter /\ crossed' \subseteq Filter
      /\ at' \in Filter \cup {"Apply", "Done"}
      /\ way' \in {"down", "up", "panic", "finally", "finallyPanic"}
  BY DEF Flow
<1>4. cookies' \in Jar /\ jar' \in Jar
  BY DEF TypeOK
<1>5. CookiesTyped'
  BY DEF TypeOK, CookiesTyped
<1> QED
  BY <1>1, <1>2, <1>3, <1>4, <1>5 DEF TypeOK, CookiesTyped

LEMMA TmpFilesKept ==
  ASSUME TmpFilesRight, NEW f \in Filter \ {"Params"}, at = f, UNCHANGED tmpFiles,
         at' = f \/ (CallNext(f) /\ f # "Action") \/ Return(f) \/ Throw(f)
  PROVE  TmpFilesRight'
BY Order, Neighbours DEF TmpFilesRight, CallNext, Return, Throw

-----------------------------------------------------------------------------
(* A filter goes on without a change to what the cookies are made of. *)

LEMMA MoveStep ==
  ASSUME IInv, Flow', HooksRight', NEW f \in Filter, at = f, at' \in Filter,
         reached' = reached \cup {f},
         \/ at' = f /\ UNCHANGED crossed
         \/ CallNext(f) /\ f # "Action" /\ way = "down" /\ UNCHANGED crossed
         \/ Return(f) /\ UNCHANGED crossed /\ f \notin {"Session", "Flash", "Validation"}
         \/ Throw(f) /\ f # "Panic",
         UNCHANGED <<request, session, flashOut, errors, keep, setCookie, answer>>,
         tmpFiles' = FALSE \/ (UNCHANGED tmpFiles /\ (f # "Params" \/ CallNext(f))),
         result' \in {result} \cup Result, status' \in {status, 200, 404, 500},
         ran' \subseteq Hooked \X When
  PROVE  IInv'
<1>1. AnswerRight'
  BY AnswerKept DEF IInv
<1>2. CookiesRight'
  <2>1. \A g \in {"Session", "Flash", "Validation"} :
          (Past(g) /\ Passed(g)) <=> (Past(g)' /\ Passed(g)')
    BY OverKept, Order DEF IInv
  <2>2. at # "Done" /\ at' # "Done"
        /\ UNCHANGED <<cookies, jar, setCookie, json, session, flashOut, errors, keep>>
    BY Neighbours DEF request
  <2> QED
    BY <2>1, <2>2, CookiesKept DEF IInv
<1>3. TmpFilesRight'
  <2>1. CASE tmpFiles' = FALSE
    BY <2>1 DEF TmpFilesRight
  <2>2. CASE UNCHANGED tmpFiles
    <3>1. Place["Params"] = 3 /\ (f # "Params" => Place[f] # 3) /\ Place[f] \in 1..9
      BY Order, Neighbours
    <3>2. /\ f # "Action" => Place[Inner(f)] = Place[f] + 1
          /\ f # "Panic" => Place[Outer(f)] = Place[f] - 1
      BY Neighbours
    <3>4. tmpFiles => Place[f] >= 3
      BY <3>1 DEF IInv, TmpFilesRight
    <3>5. tmpFiles => Place[at'] >= 3
      BY <2>1, <2>2, <3>1, <3>2, <3>4, Neighbours DEF CallNext, Return, Throw
    <3> QED
      BY <2>2, <3>1, <3>5 DEF TmpFilesRight
  <2> QED
    BY <2>1, <2>2
<1>4. TypeOK'
  <2>1. /\ UNCHANGED <<devMode, cookies, jar, json, setCookie, answer>>
        /\ session' \in Session /\ flashOut' \in Message \cup {None}
        /\ errors' \in BOOLEAN /\ keep' \in BOOLEAN /\ answer' \in Answer
    BY DEF IInv, TypeOK, request
  <2>2. tmpFiles' \in BOOLEAN
    <3>1. CASE tmpFiles' = FALSE
      BY <3>1
    <3>2. CASE UNCHANGED tmpFiles
      BY <3>2 DEF IInv, TypeOK
    <3> QED
      BY <3>1, <3>2
  <2> QED
    BY <2>1, <2>2, TypeKept DEF IInv, TypeOK
<1> QED
  BY <1>1, <1>2, <1>3, <1>4 DEF IInv

-----------------------------------------------------------------------------
(* PanicFilter, RouterFilter, ParamsFilter. *)

LEMMA CallsStep ==
  ASSUME IInv, PanicCalls \/ RouterCalls \/ ParamsCalls \/ FlashCalls PROVE IInv'
<1>1. PICK f \in {"Panic", "Router", "Params", "Flash"} :
        Call(f) /\ CallNext(f) /\ UNCHANGED <<request, content, response, ran, crossed>>
  BY DEF PanicCalls, RouterCalls, ParamsCalls, FlashCalls
<1>2. /\ f \in Filter \ (Hooked \cup {"Action"}) /\ at = f /\ reached' = reached \cup {f}
      /\ way = "down" /\ at' \in Filter
  BY <1>1, Order, Neighbours DEF Hooked, Call, CallNext
<1>3. Flow' /\ HooksRight'
  BY <1>1, <1>2, FlowOfCall, HooksOfCall DEF IInv
<1>4. UNCHANGED <<session, flashOut, errors, keep, tmpFiles, setCookie, answer, result, status, ran>>
  BY <1>1 DEF content, response
<1> QED
  BY <1>1, <1>2, <1>3, <1>4, MoveStep DEF IInv, TypeOK

LEMMA RouterNotFoundStep ==
  ASSUME IInv, RouterNotFound PROVE IInv'
<1>1. /\ at = "Router" /\ way = "down" /\ reached' = reached \cup {"Router"} /\ Return("Router")
      /\ result' = <<"Router", "not found">> /\ status' = 404
      /\ UNCHANGED <<request, content, setCookie, answer, ran, crossed>>
  BY DEF RouterNotFound, Call
<1>2. "Router" \in Filter \ Hooked /\ crossed = {} /\ at' \in Filter
  BY <1>1, Order, Neighbours DEF IInv, Flow, Hooked, Return
<1>3. Flow' /\ HooksRight'
  BY <1>1, <1>2, FlowOfReturn, HooksOfReturn DEF IInv
<1>4. UNCHANGED <<session, flashOut, errors, keep, tmpFiles, setCookie, answer, ran>>
      /\ result' \in Result
  BY <1>1 DEF content, Result
<1> QED
  BY <1>1, <1>2, <1>3, <1>4, MoveStep DEF IInv, TypeOK

LEMMA PassesStep ==
  ASSUME IInv, RouterPasses \/ ParamsCleansUp \/ \E f \in Filter : Unwinds(f) PROVE IInv'
<1>1. PICK f \in {"Router", "Params", "Session", "Flash", "Validation"} :
        /\ at = f
        /\ \/ f \in {"Router", "Params"} /\ way = "up" /\ Return(f) /\ UNCHANGED crossed
           \/ way = "panic" /\ Throw(f)
        /\ tmpFiles' = FALSE \/ (UNCHANGED tmpFiles /\ f # "Params")
        /\ UNCHANGED <<request, session, flashOut, errors, keep, setCookie, answer, result, status,
                       ran, reached>>
  <2>1. CASE RouterPasses
    BY <2>1 DEF RouterPasses, content, response
  <2>2. CASE ParamsCleansUp
    <3>1. /\ at = "Params" /\ tmpFiles' = FALSE
          /\ \/ way = "up" /\ Return("Params") /\ UNCHANGED crossed
             \/ way = "panic" /\ Throw("Params")
      BY <2>2 DEF ParamsCleansUp, TmpFilesAfter
    <3>2. UNCHANGED <<request, session, flashOut, errors, keep, setCookie, answer, result, status,
                      ran, reached>>
      BY <2>2 DEF ParamsCleansUp, response
    <3> QED
      BY <3>1, <3>2
  <2>3. ASSUME NEW f \in Filter, Unwinds(f)
        PROVE  /\ f \in {"Session", "Flash", "Validation"} /\ at = f /\ way = "panic" /\ Throw(f)
               /\ UNCHANGED <<request, session, flashOut, errors, keep, tmpFiles, setCookie, answer,
                              result, status, ran, reached>>
    BY <2>3 DEF Unwinds, content, response
  <2> QED
    BY <2>1, <2>2, <2>3
<1>2. /\ f \in Filter \ (Hooked \cup {"Panic"}) /\ at' \in Filter /\ reached' = reached \cup {f}
      /\ way = "up" => crossed = {}
  BY <1>1, Order, Neighbours DEF IInv, Flow, Hooked, Return, Throw
<1>3. Flow' /\ HooksRight'
  BY <1>1, <1>2, FlowOfReturn, HooksOfReturn, FlowOfThrow, HooksOfThrow DEF IInv
<1>4. ran' \subseteq Hooked \X When /\ result' \in {result} /\ status' \in {status}
  BY <1>1 DEF IInv, TypeOK
<1> QED
  BY <1>1, <1>2, <1>3, <1>4, MoveStep

LEMMA PanicReturnsStep ==
  ASSUME IInv, PanicReturns PROVE IInv'
<1>1. /\ at = "Panic" /\ way = "up" /\ Return("Panic")
      /\ UNCHANGED <<request, content, response, history>>
  BY DEF PanicReturns
<1>2. /\ "Panic" \in Filter \ Hooked /\ crossed = {} /\ at' = "Apply" /\ at' \notin Filter
      /\ UNCHANGED <<devMode, cookies, jar, json, session, flashOut, errors, keep, tmpFiles, setCookie,
                     answer, result, status, ran, reached, crossed>>
      /\ reached' = reached \cup {"Panic"}
  BY <1>1, Order, Neighbours DEF IInv, Flow, Hooked, Return, request, content, response, history
<1>3. Flow' /\ HooksRight'
  BY <1>1, <1>2, FlowOfReturn, HooksOfReturn DEF IInv
<1>4. AnswerRight'
  <2>1. at' = "Apply" /\ at = "Panic" /\ at \in Filter /\ at' \notin Filter
        /\ UNCHANGED <<answer, setCookie, result, crossed>> /\ crossed = {}
    BY <1>1, <1>2, Order
  <2>2. answer = NoAnswer \/ AtOnce(answer)
    BY <2>1 DEF IInv, AnswerRight
  <2>3. AtOnce(answer) => answer.set = NothingSet
    BY DEF IInv, AnswerRight
  <2> QED
    BY <2>1, <2>2, <2>3 DEF AnswerRight, PanicNeverAnsweredByPage, AtOnce
<1>5. CookiesRight'
  <2>1. \A g \in {"Session", "Flash", "Validation"} :
          (Past(g) /\ Passed(g)) <=> (Past(g)' /\ Passed(g)')
    BY <1>1, <1>2, OverKept, Order DEF IInv
  <2> QED
    BY <1>1, <1>2, <2>1, CookiesKept DEF IInv
<1>6. TmpFilesRight'
  BY <1>1, <1>2, Order DEF IInv, TmpFilesRight
<1>7. TypeOK'
  BY <1>2, <1>3, TypeKept DEF IInv, TypeOK
<1> QED
  BY <1>3, <1>4, <1>5, <1>6, <1>7 DEF IInv

LEMMA PanicRecoversStep ==
  ASSUME IInv, PanicRecovers PROVE IInv'
<1>1. /\ at = "Panic" /\ way = "panic" /\ Return("Panic")
      /\ UNCHANGED <<request, content, setCookie, history>>
      /\ \/ /\ answer' = IF answer # NoAnswer THEN answer
                          ELSE [status |-> 500, body |-> "stack", set |-> setCookie]
            /\ UNCHANGED <<result, status>>
         \/ /\ result' \in {<<"Panic", "error">>, <<"Panic", "nil error">>}
            /\ status' \in {status, 500} /\ UNCHANGED answer
  BY DEF PanicRecovers, ErrorPage
<1>2. /\ "Panic" \in Filter \ Hooked /\ at' = "Apply" /\ at' \notin Filter
      /\ UNCHANGED <<devMode, cookies, jar, json, session, flashOut, errors, keep, tmpFiles, setCookie,
                     ran, reached, crossed>>
      /\ reached' = reached \cup {"Panic"}
  <2>1. "Panic" \in Filter \ Hooked /\ at' = "Apply" /\ at' \notin Filter
    BY <1>1, Order, Neighbours DEF Hooked, Return
  <2>2. UNCHANGED <<devMode, cookies, jar, json, session, flashOut, errors, keep, tmpFiles, setCookie,
                    ran, reached, crossed>>
    BY <1>1 DEF request, content, history
  <2>3. "Panic" \in reached
    BY <1>1, <2>1 DEF IInv, Flow
  <2> QED
    BY <2>1, <2>2, <2>3
<1>3. Flow' /\ HooksRight'
  BY <1>1, <1>2, FlowOfRecover, HooksOfRecover DEF IInv
<1>4. /\ result' \in {result} \cup Result
      /\ \/ /\ result' # None /\ result'[1] = "Panic"
            /\ UNCHANGED answer
         \/ answer' = [status |-> 500, body |-> "stack", set |-> setCookie]
         \/ answer # NoAnswer /\ UNCHANGED answer
  <2>1. <<"Panic", "error">> \in Result /\ <<"Panic", "nil error">> \in Result
    BY DEF Result
  <2>2. None # <<"Panic", "error">> /\ None # <<"Panic", "nil error">>
    BY <2>1, NoneAssumption
  <2>3. CASE /\ answer' = IF answer # NoAnswer THEN answer
                         ELSE [status |-> 500, body |-> "stack", set |-> setCookie]
             /\ UNCHANGED <<result, status>>
    BY <2>3
  <2>4. CASE result' \in {<<"Panic", "error">>, <<"Panic", "nil error">>} /\ UNCHANGED answer
    <3>1. PICK x \in {"error", "nil error"} : result' = <<"Panic", x>>
      BY <2>4
    <3>2. result'[1] = "Panic" /\ result' \in Result /\ result' # None
      BY <2>1, <2>2, <3>1
    <3> QED
      BY <2>4, <3>2
  <2> QED
    BY <1>1, <2>3, <2>4
<1>5. AnswerRight'
  <2>1. at' = "Apply" /\ at \in Filter /\ at' \notin Filter /\ UNCHANGED setCookie
    BY <1>1, <1>2, Order
  <2>2. answer = NoAnswer \/ AtOnce(answer)
    BY <2>1 DEF IInv, AnswerRight
  <2>3. AtOnce(answer) => answer.set = NothingSet
    BY DEF IInv, AnswerRight
  <2>4. PanicNeverAnsweredByPage'
    BY <2>1 DEF PanicNeverAnsweredByPage
  <2>5. CASE answer' = [status |-> 500, body |-> "stack", set |-> setCookie]
    <3>1. answer'.body = "stack" /\ answer'.set = setCookie'
      BY <2>1, <2>5
    <3>2. ~AtOnce(answer')
      BY <3>1 DEF AtOnce
    <3>3. answer' # NoAnswer
      BY <3>1 DEF NoAnswer
    <3> QED
      BY <2>1, <2>4, <3>1, <3>2, <3>3 DEF AnswerRight
  <2>6. CASE UNCHANGED answer /\ answer # NoAnswer
    <3> HIDE DEF AtOnce
    <3> QED
      BY <2>1, <2>2, <2>3, <2>4, <2>6 DEF AnswerRight
  <2>7. CASE UNCHANGED answer /\ result' # None /\ result'[1] = "Panic"
    BY <2>1, <2>2, <2>3, <2>4, <2>7 DEF AnswerRight
  <2> QED
    BY <1>4, <2>5, <2>6, <2>7
<1>6. CookiesRight'
  <2>1. \A g \in {"Session", "Flash", "Validation"} :
          (Past(g) /\ Passed(g)) <=> (Past(g)' /\ Passed(g)')
    <3> TAKE g \in {"Session", "Flash", "Validation"}
    <3>1. Flow /\ g \in Filter /\ "Panic" \in Filter /\ g # "Panic"
      BY Order DEF IInv
    <3>2. at = "Panic" /\ Return("Panic") /\ UNCHANGED crossed /\ reached' = reached \cup {"Panic"}
      BY <1>1, <1>2
    <3> QED
      BY <3>1, <3>2, OverKept, Zenon
  <2> QED
    BY <1>1, <1>2, <2>1, CookiesKept DEF IInv
<1>7. TmpFilesRight'
  <2>1. ~tmpFiles
    <3>1. tmpFiles => Place[at] >= Place["Params"]
      BY DEF IInv, TmpFilesRight
    <3>2. at = "Panic"
      BY <1>1
    <3>3. Place[at] = 1 /\ Place["Params"] = 3
      BY <3>2, Order
    <3> QED
      BY <3>1, <3>3
  <2> QED
    BY <1>2, <2>1 DEF TmpFilesRight
<1>8. TypeOK'
  <2>1. answer' \in Answer
    <3>1. answer \in Answer /\ setCookie \in SetCookies
      BY DEF IInv, TypeOK
    <3> QED
      BY <1>4, <3>1 DEF Answer
  <2> QED
    <3>1. status' \in {status, 200, 404, 500}
      BY <1>1
    <3>2. /\ session' \in Session /\ flashOut' \in Message \cup {None} /\ errors' \in BOOLEAN
          /\ keep' \in BOOLEAN /\ tmpFiles' \in BOOLEAN /\ ran' \subseteq Hooked \X When
      BY <1>2 DEF IInv, TypeOK
    <3> QED
      BY <1>2, <1>3, <1>4, <2>1, <3>1, <3>2, TypeKept DEF IInv
<1> QED
  BY <1>3, <1>5, <1>6, <1>7, <1>8 DEF IInv

-----------------------------------------------------------------------------
(* SessionFilter, FlashFilter, ValidationFilter. *)

LEMMA SessionCallsStep ==
  ASSUME IInv, SessionCalls PROVE IInv'
<1>1. /\ "Session" \in Filter \ (Hooked \cup {"Action"}) /\ Call("Session") /\ CallNext("Session")
      /\ at = "Session" /\ reached' = reached \cup {"Session"} /\ way = "down"
      /\ at' \in Filter
      /\ UNCHANGED <<request, flashOut, errors, keep, tmpFiles, response, ran, crossed>>
      /\ session' = Decoded(cookies.session)
  BY Order, Neighbours DEF SessionCalls, Hooked, Call, CallNext
<1>2. Flow' /\ HooksRight'
  BY <1>1, FlowOfCall, HooksOfCall DEF IInv
<1>3. AnswerRight'
  BY <1>1, AnswerKept DEF IInv, response
<1>4. CookiesRight'
  <2>1. \A g \in Filter : (Past(g) /\ Passed(g)) <=> (Past(g)' /\ Passed(g)')
    BY <1>1, OverKept DEF IInv
  <2>2. at # "Done" /\ at' # "Done" /\ UNCHANGED <<cookies, jar, setCookie, json>>
    BY <1>1, Neighbours DEF request, response
  <2>3. UNCHANGED <<flashOut, keep, errors>> /\ ~Past("Session")
    BY <1>1, Order DEF Past
  <2> QED
    BY <2>1, <2>2, <2>3, Order, CookiesKept DEF IInv
<1>5. TmpFilesRight'
  BY <1>1, Order, TmpFilesKept DEF IInv, content
<1>6. TypeOK'
  <2>1. /\ UNCHANGED <<devMode, cookies, jar, json, setCookie, answer, result, status, ran>>
        /\ session' \in Session /\ flashOut' \in Message \cup {None}
        /\ errors' \in BOOLEAN /\ keep' \in BOOLEAN /\ tmpFiles' \in BOOLEAN
    BY <1>1, SessionAssumption DEF IInv, TypeOK, request, content, response, Decoded, Jar
  <2> QED
    BY <1>2, <2>1, TypeKept DEF IInv, TypeOK
<1> QED
  BY <1>2, <1>3, <1>4, <1>5, <1>6 DEF IInv

LEMMA ValidationCallsStep ==
  ASSUME IInv, ValidationCalls PROVE IInv'
<1>1. /\ "Validation" \in Filter \ (Hooked \cup {"Action"}) /\ Call("Validation") /\ CallNext("Validation")
      /\ at = "Validation" /\ reached' = reached \cup {"Validation"} /\ way = "down"
      /\ at' \in Filter
      /\ UNCHANGED <<request, session, flashOut, keep, tmpFiles, response, ran, crossed>>
      /\ errors' = (~json /\ cookies.errors)
  BY Order, Neighbours DEF ValidationCalls, Hooked, Call, CallNext
<1>2. Flow' /\ HooksRight'
  BY <1>1, FlowOfCall, HooksOfCall DEF IInv
<1>3. AnswerRight'
  BY <1>1, AnswerKept DEF IInv, response
<1>4. CookiesRight'
  <2>1. \A g \in Filter : (Past(g) /\ Passed(g)) <=> (Past(g)' /\ Passed(g)')
    BY <1>1, OverKept DEF IInv
  <2>2. at # "Done" /\ at' # "Done" /\ UNCHANGED <<cookies, jar, setCookie, json>>
    BY <1>1, Neighbours DEF request, response
  <2>3. UNCHANGED <<session, flashOut>> /\ ~Past("Validation")
    BY <1>1, Order DEF Past
  <2> QED
    BY <2>1, <2>2, <2>3, Order, CookiesKept DEF IInv
<1>5. TmpFilesRight'
  BY <1>1, Order, TmpFilesKept DEF IInv, content
<1>6. TypeOK'
  <2>1. /\ UNCHANGED <<devMode, cookies, jar, json, setCookie, answer, result, status, ran>>
        /\ session' \in Session /\ flashOut' \in Message \cup {None}
        /\ errors' \in BOOLEAN /\ keep' \in BOOLEAN /\ tmpFiles' \in BOOLEAN
    BY <1>1 DEF IInv, TypeOK, request, content, response
  <2> QED
    BY <1>2, <2>1, TypeKept DEF IInv, TypeOK
<1> QED
  BY <1>2, <1>3, <1>4, <1>5, <1>6 DEF IInv

LEMMA SessionReturnsStep ==
  ASSUME IInv, SessionReturns, Return("Session") PROVE IInv'
<1>1. /\ at = "Session" /\ way = "up" /\ reached' = reached /\ UNCHANGED <<request, content, result, status, answer>>
      /\ setCookie' = IF Encodes THEN [setCookie EXCEPT !["session"] = session] ELSE setCookie
  BY DEF SessionReturns, Return, Throw
<1>2. /\ "Session" \in Filter \ Hooked /\ at' \in Filter /\ crossed = {} /\ crossed' = crossed
      /\ reached' = reached \cup {"Session"} /\ ran' = ran
  BY <1>1, Order, Neighbours DEF IInv, Flow, Hooked, Return, SessionReturns, Throw, history
<1>3. Flow' /\ HooksRight'
  BY <1>1, <1>2, FlowOfReturn, HooksOfReturn DEF IInv
<1>4. AnswerRight'
  BY <1>1, <1>2, AnswerKept, Neighbours DEF IInv
<1>5. UNCHANGED <<devMode, cookies, jar, json, session, flashOut, errors, keep, tmpFiles>>
  BY <1>1 DEF request, content
<1>6. TmpFilesRight'
  BY <1>1, <1>2, <1>5, TmpFilesKept, Order DEF IInv
<1>7. CookiesTyped /\ CookiesTyped'
  <2>1. CookiesTyped
    BY DEF IInv, TypeOK, CookiesTyped
  <2> QED
    BY <1>1, <2>1 DEF CookiesTyped, SetCookies, IInv, TypeOK
<1>8. TypeOK'
  <2>1. /\ session' \in Session /\ flashOut' \in Message \cup {None} /\ errors' \in BOOLEAN
        /\ keep' \in BOOLEAN /\ tmpFiles' \in BOOLEAN /\ ran' \subseteq Hooked \X When /\ answer' \in Answer
        /\ result' \in {result} /\ status' \in {status}
    BY <1>1, <1>2, <1>5 DEF IInv, TypeOK
  <2> QED
    BY <1>3, <1>5, <1>7, <2>1, TypeKept DEF IInv
<1>9. CookiesRight'
  <2>1. at # "Done" /\ at' # "Done"
    BY <1>1, <1>2, Neighbours
  <2>2. SessionCarriedOver' /\ OneShotCookies'
    BY <2>1 DEF SessionCarriedOver, OneShotCookies, Ended
  <2>3. \A g \in {"Flash", "Validation"} : (Past(g) /\ Passed(g)) <=> (Past(g)' /\ Passed(g)')
    BY <1>1, <1>2, OverKept, Order DEF IInv
  <2>4. ~Past("Session") /\ Past("Session")' /\ Passed("Session")'
    BY <1>1, <1>2, <1>3, Order, Neighbours DEF Past, Passed, Return
  <2>5. setCookie["session"] = Unsent
    BY <2>4 DEF IInv, CookiesRight
  <2>6. \A c \in {"flash", "errors"} : setCookie'[c] = setCookie[c]
    BY <1>1, <1>7 DEF CookiesTyped, SetCookies, Encodes
  <2>7. setCookie'["session"] = IF Encodes' THEN session' ELSE Unsent
    BY <1>1, <1>5, <1>7, <2>5 DEF CookiesTyped, SetCookies, Encodes
  <2>8. /\ at' # "Done" => jar' = cookies'
        /\ setCookie'["session"] # Unsent => Past("Session")' /\ Passed("Session")'
        /\ setCookie'["flash"] # Unsent => Past("Flash")' /\ Passed("Flash")'
        /\ setCookie'["errors"] # Unsent => Past("Validation")' /\ Passed("Validation")'
    BY <1>5, <2>1, <2>3, <2>4, <2>6 DEF IInv, CookiesRight
  <2>9. /\ Past("Session")' /\ Passed("Session")' =>
              setCookie'["session"] = IF Encodes' THEN session' ELSE Unsent
        /\ Past("Flash")' /\ Passed("Flash")' => setCookie'["flash"] = flashOut'
        /\ Past("Validation")' /\ Passed("Validation")' /\ ~json' =>
              setCookie'["errors"] = IF keep' /\ errors' THEN TRUE
                                     ELSE IF cookies'.errors THEN FALSE ELSE Unsent
    BY <1>5, <2>3, <2>6, <2>7 DEF IInv, CookiesRight, Encodes
  <2>10. json' => setCookie'["errors"] = Unsent
    BY <1>5, <2>6 DEF IInv, CookiesRight
  <2> QED
    BY <2>2, <2>8, <2>9, <2>10 DEF CookiesRight
<1> QED
  BY <1>3, <1>4, <1>6, <1>8, <1>9 DEF IInv


LEMMA FlashReturnsStep ==
  ASSUME IInv, FlashReturns, Return("Flash") PROVE IInv'
<1>1. /\ at = "Flash" /\ way = "up" /\ reached' = reached /\ UNCHANGED <<request, content, result, status, answer>>
      /\ setCookie' = [setCookie EXCEPT !["flash"] = flashOut]
  BY DEF FlashReturns, FlashSet, history
<1>2. /\ "Flash" \in Filter \ Hooked /\ at' \in Filter /\ crossed = {} /\ crossed' = crossed
      /\ reached' = reached \cup {"Flash"} /\ ran' = ran
  BY <1>1, Order, Neighbours DEF IInv, Flow, Hooked, Return, FlashReturns, Throw, history
<1>3. Flow' /\ HooksRight'
  BY <1>1, <1>2, FlowOfReturn, HooksOfReturn DEF IInv
<1>4. AnswerRight'
  BY <1>1, <1>2, AnswerKept, Neighbours DEF IInv
<1>5. UNCHANGED <<devMode, cookies, jar, json, session, flashOut, errors, keep, tmpFiles>>
  BY <1>1 DEF request, content
<1>6. TmpFilesRight'
  BY <1>1, <1>2, <1>5, TmpFilesKept, Order DEF IInv
<1>7. CookiesTyped /\ CookiesTyped'
  <2>1. CookiesTyped
    BY DEF IInv, TypeOK, CookiesTyped
  <2> QED
    BY <1>1, <2>1 DEF CookiesTyped, SetCookies, IInv, TypeOK
<1>8. TypeOK'
  <2>1. /\ session' \in Session /\ flashOut' \in Message \cup {None} /\ errors' \in BOOLEAN
        /\ keep' \in BOOLEAN /\ tmpFiles' \in BOOLEAN /\ ran' \subseteq Hooked \X When /\ answer' \in Answer
        /\ result' \in {result} /\ status' \in {status}
    BY <1>1, <1>2, <1>5 DEF IInv, TypeOK
  <2> QED
    BY <1>3, <1>5, <1>7, <2>1, TypeKept DEF IInv
<1>9. CookiesRight'
  <2>1. at # "Done" /\ at' # "Done"
    BY <1>1, <1>2, Neighbours
  <2>2. SessionCarriedOver' /\ OneShotCookies'
    BY <2>1 DEF SessionCarriedOver, OneShotCookies, Ended
  <2>3. \A g \in {"Session", "Validation"} : (Past(g) /\ Passed(g)) <=> (Past(g)' /\ Passed(g)')
    BY <1>1, <1>2, OverKept, Order DEF IInv
  <2>4. ~Past("Flash") /\ Past("Flash")' /\ Passed("Flash")'
    BY <1>1, <1>2, <1>3, Order, Neighbours DEF Past, Passed, Return
  <2>5. setCookie["flash"] = Unsent
    BY <2>4 DEF IInv, CookiesRight
  <2>6. \A c \in {"session", "errors"} : setCookie'[c] = setCookie[c]
    BY <1>1, <1>7 DEF CookiesTyped, SetCookies
  <2>7. setCookie'["flash"] = flashOut'
    BY <1>1, <1>5, <1>7, <2>5 DEF CookiesTyped, SetCookies
  <2>8. /\ at' # "Done" => jar' = cookies'
        /\ setCookie'["session"] # Unsent => Past("Session")' /\ Passed("Session")'
        /\ setCookie'["flash"] # Unsent => Past("Flash")' /\ Passed("Flash")'
        /\ setCookie'["errors"] # Unsent => Past("Validation")' /\ Passed("Validation")'
    BY <1>5, <2>1, <2>3, <2>4, <2>6 DEF IInv, CookiesRight
  <2>9. /\ Past("Session")' /\ Passed("Session")' =>
              setCookie'["session"] = IF Encodes' THEN session' ELSE Unsent
        /\ Past("Flash")' /\ Passed("Flash")' => setCookie'["flash"] = flashOut'
        /\ Past("Validation")' /\ Passed("Validation")' /\ ~json' =>
              setCookie'["errors"] = IF keep' /\ errors' THEN TRUE
                                     ELSE IF cookies'.errors THEN FALSE ELSE Unsent
    BY <1>5, <2>3, <2>6, <2>7 DEF IInv, CookiesRight, Encodes
  <2>10. json' => setCookie'["errors"] = Unsent
    BY <1>5, <2>6 DEF IInv, CookiesRight
  <2> QED
    BY <2>2, <2>8, <2>9, <2>10 DEF CookiesRight
<1> QED
  BY <1>3, <1>4, <1>6, <1>8, <1>9 DEF IInv


LEMMA ValidationReturnsStep ==
  ASSUME IInv, ValidationReturns, Return("Validation") PROVE IInv'
<1>1. /\ at = "Validation" /\ way = "up" /\ reached' = reached /\ UNCHANGED <<request, content, result, status, answer>>
      /\ setCookie' = ErrorsSet
  BY DEF ValidationReturns, history
<1>2. /\ "Validation" \in Filter \ Hooked /\ at' \in Filter /\ crossed = {} /\ crossed' = crossed
      /\ reached' = reached \cup {"Validation"} /\ ran' = ran
  BY <1>1, Order, Neighbours DEF IInv, Flow, Hooked, Return, ValidationReturns, Throw, history
<1>3. Flow' /\ HooksRight'
  BY <1>1, <1>2, FlowOfReturn, HooksOfReturn DEF IInv
<1>4. AnswerRight'
  BY <1>1, <1>2, AnswerKept, Neighbours DEF IInv
<1>5. UNCHANGED <<devMode, cookies, jar, json, session, flashOut, errors, keep, tmpFiles>>
  BY <1>1 DEF request, content
<1>6. TmpFilesRight'
  BY <1>1, <1>2, <1>5, TmpFilesKept, Order DEF IInv
<1>7. CookiesTyped /\ CookiesTyped'
  <2>1. CookiesTyped
    BY DEF IInv, TypeOK, CookiesTyped
  <2> QED
    BY <1>1, <2>1 DEF CookiesTyped, SetCookies, ErrorsSet
<1>8. TypeOK'
  <2>1. /\ session' \in Session /\ flashOut' \in Message \cup {None} /\ errors' \in BOOLEAN
        /\ keep' \in BOOLEAN /\ tmpFiles' \in BOOLEAN /\ ran' \subseteq Hooked \X When /\ answer' \in Answer
        /\ result' \in {result} /\ status' \in {status}
    BY <1>1, <1>2, <1>5 DEF IInv, TypeOK
  <2> QED
    BY <1>3, <1>5, <1>7, <2>1, TypeKept DEF IInv
<1>9. CookiesRight'
  <2>1. at # "Done" /\ at' # "Done"
    BY <1>1, <1>2, Neighbours
  <2>2. SessionCarriedOver' /\ OneShotCookies'
    BY <2>1 DEF SessionCarriedOver, OneShotCookies, Ended
  <2>3. \A g \in {"Session", "Flash"} : (Past(g) /\ Passed(g)) <=> (Past(g)' /\ Passed(g)')
    BY <1>1, <1>2, OverKept, Order DEF IInv
  <2>4. ~Past("Validation") /\ Past("Validation")' /\ Passed("Validation")'
    BY <1>1, <1>2, <1>3, Order, Neighbours DEF Past, Passed, Return
  <2>5. setCookie["errors"] = Unsent
    BY <2>4 DEF IInv, CookiesRight
  <2>6. \A c \in {"session", "flash"} : setCookie'[c] = setCookie[c]
    BY <1>1, <1>7 DEF CookiesTyped, SetCookies, ErrorsSet
  <2>7. setCookie'["errors"] = IF json' THEN Unsent
                               ELSE IF keep' /\ errors' THEN TRUE
                               ELSE IF cookies'.errors THEN FALSE ELSE Unsent
    BY <1>1, <1>5, <1>7, <2>5 DEF CookiesTyped, SetCookies, ErrorsSet
  <2>8. /\ at' # "Done" => jar' = cookies'
        /\ setCookie'["session"] # Unsent => Past("Session")' /\ Passed("Session")'
        /\ setCookie'["flash"] # Unsent => Past("Flash")' /\ Passed("Flash")'
        /\ setCookie'["errors"] # Unsent => Past("Validation")' /\ Passed("Validation")'
    BY <1>5, <2>1, <2>3, <2>4, <2>6 DEF IInv, CookiesRight
  <2>9. /\ Past("Session")' /\ Passed("Session")' =>
              setCookie'["session"] = IF Encodes' THEN session' ELSE Unsent
        /\ Past("Flash")' /\ Passed("Flash")' => setCookie'["flash"] = flashOut'
        /\ Past("Validation")' /\ Passed("Validation")' /\ ~json' =>
              setCookie'["errors"] = IF keep' /\ errors' THEN TRUE
                                     ELSE IF cookies'.errors THEN FALSE ELSE Unsent
    BY <1>5, <2>3, <2>6, <2>7 DEF IInv, CookiesRight, Encodes
  <2>10. json' => setCookie'["errors"] = Unsent
    BY <2>7
  <2> QED
    BY <2>2, <2>8, <2>9, <2>10 DEF CookiesRight
<1> QED
  BY <1>3, <1>4, <1>6, <1>8, <1>9 DEF IInv

LEMMA SessionThrowsStep ==
  ASSUME IInv, SessionReturns, Throw("Session") PROVE IInv'
<1>1. /\ at = "Session" /\ way = "up"
      /\ UNCHANGED <<request, content, result, status, answer, ran, reached, setCookie>>
  BY DEF SessionReturns, Return, Throw
<1>2. /\ "Session" \in Filter \ (Hooked \cup {"Panic", "Params"}) /\ at' \in Filter
      /\ reached' = reached \cup {"Session"}
  BY <1>1, Order, Neighbours DEF IInv, Flow, Hooked, Throw
<1>3. Flow' /\ HooksRight'
  BY <1>1, <1>2, FlowOfThrow, HooksOfThrow DEF IInv
<1>4. /\ ran' \subseteq Hooked \X When /\ result' \in {result} /\ status' \in {status}
      /\ UNCHANGED <<session, flashOut, errors, keep, tmpFiles>>
  BY <1>1 DEF IInv, TypeOK, content
<1> QED
  BY <1>1, <1>2, <1>3, <1>4, MoveStep

-----------------------------------------------------------------------------
(* InterceptorFilter and BeforeAfterFilter. *)

LEMMA HookFacts ==
  ASSUME IInv, NEW f \in Hooked
  PROVE  /\ f \in Filter \ {"Action", "Panic", "Params", "Session", "Flash", "Validation"}
         /\ f \in {"Interceptor", "BeforeAfter"}
         /\ \A w \in When : ran \cup {<<f, w>>} \subseteq Hooked \X When
<1>1. f \in {"Interceptor", "BeforeAfter"}
  BY DEF Hooked
<1>2. f \in Filter \ {"Action", "Panic", "Params", "Session", "Flash", "Validation"}
  BY <1>1, Order
<1>3. \A w \in When : ran \cup {<<f, w>>} \subseteq Hooked \X When
  BY DEF IInv, TypeOK
<1> QED
  BY <1>1, <1>2, <1>3

LEMMA SetsResultFacts ==
  ASSUME NEW f \in {"Interceptor", "BeforeAfter", "Action"}, NEW w \in When \cup {""}, SetsResult(f, w)
  PROVE  result' \in Result /\ status' \in {status, 200}
BY DEF SetsResult, Renders, Result

LEMMA KeepsResultFacts == KeepsResult => result' = result /\ status' \in {status, 200}
BY DEF KeepsResult, Renders

LEMMA BeforeStep ==
  ASSUME IInv, NEW f \in Hooked, Before(f) PROVE IInv'
<1>1. /\ Call(f) /\ at = f /\ way = "down" /\ reached' = reached \cup {f}
      /\ UNCHANGED crossed
      /\ \/ CallNext(f) /\ ran' = ran \cup {<<f, "BEFORE">>}
         \/ at' = f /\ way' \in {"finally", "panic"} /\ ran' = ran
      /\ \/ KeepsResult
         \/ SetsResult(f, "BEFORE")
  BY DEF Before, Call
<1>2. UNCHANGED <<request, session, flashOut, errors, keep, tmpFiles, setCookie, answer>>
  BY DEF Before, content
<1>3. f \in Filter \ {"Action"} /\ at' \in Filter /\ crossed = {} /\ "BEFORE" \in When
  <2>1. f \in Filter \ {"Action"} /\ "BEFORE" \in When
    BY Neighbours DEF When
  <2> QED
    BY <1>1, <2>1, Neighbours DEF IInv, Flow, CallNext
<1>4. Flow'
  BY <1>1, <1>3, FlowOfCall, FlowOfHook DEF IInv
<1>5. OwnHooks(f)'
  <2>1. OwnHooks(f)
    BY DEF IInv, HooksRight
  <2>2. \A w \in When \ {"BEFORE"} : <<f, w>> \in ran' <=> <<f, w>> \in ran
    BY <1>1
  <2>3. f \notin reached /\ Inner(f) \notin reached /\ Inner(f) # f /\ ~Within(f)
        /\ Inner(f) \notin reached'
    BY <1>1, <1>3, Neighbours DEF IInv, Flow, Within
  <2>4. \A w \in When : <<f, w>> \notin ran
    BY <2>1, <2>3 DEF OwnHooks
  <2>5. CASE CallNext(f) /\ ran' = ran \cup {<<f, "BEFORE">>}
    BY <1>1, <1>3, <2>2, <2>3, <2>4, <2>5, Neighbours DEF OwnHooks, When, Past, Within, CallNext
  <2>6. CASE at' = f /\ way' \in {"finally", "panic"} /\ ran' = ran
    <3>1. ~Within(f)' /\ ~Past(f)'
      BY <1>3, <2>6, Neighbours DEF Within, Past
    <3> QED
      BY <1>1, <1>3, <2>3, <2>4, <2>6, <3>1 DEF OwnHooks, When
  <2> QED
    BY <1>1, <2>5, <2>6
<1>6. HooksRight'
  <2>1. \A g \in Hooked \ {f} : OwnHooks(g)'
    BY <1>1, <1>3, HooksElsewhere DEF IInv
  <2> QED
    BY <1>5, <2>1 DEF HooksRight
<1>7. result' \in {result} \cup Result /\ status' \in {status, 200, 404, 500}
      /\ ran' \subseteq Hooked \X When
  <2>1. ran' \subseteq Hooked \X When
    BY <1>1, <1>3, HookFacts
  <2>2. CASE KeepsResult
    BY <2>1, <2>2, KeepsResultFacts
  <2>3. CASE SetsResult(f, "BEFORE")
    <3>1. f \in {"Interceptor", "BeforeAfter", "Action"} /\ "BEFORE" \in When \cup {""}
      BY HookFacts DEF When
    <3>2. result' \in Result /\ status' \in {status, 200}
      BY <2>3, <3>1, SetsResultFacts
    <3> QED
      BY <2>1, <3>2
  <2> QED
    BY <1>1, <2>2, <2>3
<1> QED
  BY <1>1, <1>2, <1>3, <1>4, <1>6, <1>7, HookFacts, MoveStep, ZenonT(60)

LEMMA AfterStep ==
  ASSUME IInv, NEW f \in Hooked, After(f) PROVE IInv'
<1>1. /\ at = f /\ way = "up" /\ at' = f /\ way' \in {"finally", "panic"}
      /\ ran' = ran \cup {<<f, "AFTER">>} /\ UNCHANGED <<reached, crossed>>
      /\ \/ KeepsResult
         \/ SetsResult(f, "AFTER")
  BY DEF After
<1>2. UNCHANGED <<request, session, flashOut, errors, keep, tmpFiles, setCookie, answer>>
  BY DEF After, content
<1>3. /\ f \in Filter \ {"Action"} /\ at' \in Filter /\ crossed = {} /\ "AFTER" \in When
      /\ f \in reached /\ reached' = reached \cup {f} /\ Inner(f) \in reached
  <2>1. f \in Filter \ {"Action"} /\ "AFTER" \in When
    BY Neighbours DEF When
  <2> QED
    BY <1>1, <2>1, Neighbours DEF IInv, Flow
<1>4. Flow'
  BY <1>1, <1>3, FlowOfHook DEF IInv
<1>5. OwnHooks(f)'
  <2>1. OwnHooks(f)
    BY DEF IInv, HooksRight
  <2>2. \A w \in When \ {"AFTER"} : <<f, w>> \in ran' <=> <<f, w>> \in ran
    BY <1>1
  <2> QED
    BY <1>1, <1>3, <2>1, <2>2, Neighbours DEF OwnHooks, When, Past, Within
<1>6. HooksRight'
  <2>1. \A g \in Hooked \ {f} : OwnHooks(g)'
    BY <1>1, <1>3, HooksElsewhere DEF IInv
  <2> QED
    BY <1>5, <2>1 DEF HooksRight
<1>7. result' \in {result} \cup Result /\ status' \in {status, 200, 404, 500}
      /\ ran' \subseteq Hooked \X When
  <2>1. ran' \subseteq Hooked \X When
    BY <1>1, <1>3, HookFacts
  <2>2. CASE KeepsResult
    BY <2>1, <2>2, KeepsResultFacts
  <2>3. CASE SetsResult(f, "AFTER")
    <3>1. f \in {"Interceptor", "BeforeAfter", "Action"} /\ "AFTER" \in When \cup {""}
      BY HookFacts DEF When
    <3>2. result' \in Result /\ status' \in {status, 200}
      BY <2>3, <3>1, SetsResultFacts
    <3> QED
      BY <2>1, <3>2
  <2> QED
    BY <1>1, <2>2, <2>3
<1> QED
  BY <1>1, <1>2, <1>3, <1>4, <1>6, <1>7, HookFacts, MoveStep

LEMMA OnPanicStep ==
  ASSUME IInv, NEW f \in Hooked, OnPanic(f) PROVE IInv'
<1>1. /\ at = f /\ way = "panic" /\ at' = f /\ way' = "finallyPanic"
      /\ ran' = ran \cup {<<f, "PANIC">>} /\ UNCHANGED <<reached, crossed>>
      /\ \/ KeepsResult
         \/ SetsResult(f, "PANIC")
  BY DEF OnPanic, AfterPanicHooks
<1>2. UNCHANGED <<request, session, flashOut, errors, keep, tmpFiles, setCookie, answer>>
  BY DEF OnPanic, content
<1>3. /\ f \in Filter \ {"Action"} /\ at' \in Filter /\ "PANIC" \in When
      /\ f \in reached /\ reached' = reached \cup {f}
  <2>1. f \in Filter \ {"Action"} /\ "PANIC" \in When
    BY Neighbours DEF When
  <2> QED
    BY <1>1, <2>1, Neighbours DEF IInv, Flow
<1>4. Flow'
  BY <1>1, <1>3, FlowOfHook DEF IInv
<1>5. OwnHooks(f)'
  <2>1. OwnHooks(f)
    BY DEF IInv, HooksRight
  <2>2. \A w \in When \ {"PANIC"} : <<f, w>> \in ran' <=> <<f, w>> \in ran
    BY <1>1
  <2> QED
    BY <1>1, <1>3, <2>1, <2>2, Neighbours DEF OwnHooks, When, Past, Within
<1>6. HooksRight'
  <2>1. \A g \in Hooked \ {f} : OwnHooks(g)'
    BY <1>1, <1>3, HooksElsewhere DEF IInv
  <2> QED
    BY <1>5, <2>1 DEF HooksRight
<1>7. result' \in {result} \cup Result /\ status' \in {status, 200, 404, 500}
      /\ ran' \subseteq Hooked \X When
  <2>1. ran' \subseteq Hooked \X When
    BY <1>1, <1>3, HookFacts
  <2>2. CASE KeepsResult
    BY <2>1, <2>2, KeepsResultFacts
  <2>3. CASE SetsResult(f, "PANIC")
    <3>1. f \in {"Interceptor", "BeforeAfter", "Action"} /\ "PANIC" \in When \cup {""}
      BY HookFacts DEF When
    <3>2. result' \in Result /\ status' \in {status, 200}
      BY <2>3, <3>1, SetsResultFacts
    <3> QED
      BY <2>1, <3>2
  <2> QED
    BY <1>1, <2>2, <2>3
<1> QED
  BY <1>1, <1>2, <1>3, <1>4, <1>6, <1>7, HookFacts, MoveStep

LEMMA FinallyStep ==
  ASSUME IInv, NEW f \in Hooked, Finally(f) PROVE IInv'
<1>1. /\ at = f /\ way \in {"finally", "finallyPanic"}
      /\ ran' = ran \cup {<<f, "FINALLY">>} /\ UNCHANGED reached
      /\ \/ way = "finally" /\ Return(f) /\ UNCHANGED crossed
         \/ Throw(f)
      /\ \/ KeepsResult
         \/ SetsResult(f, "FINALLY")
  BY DEF Finally, FinallyHooks
<1>2. UNCHANGED <<request, session, flashOut, errors, keep, tmpFiles, setCookie, answer>>
  BY DEF Finally, content
<1>3. /\ f \in Filter \ {"Action", "Panic"} /\ "FINALLY" \in When
      /\ f \in reached /\ reached' = reached \cup {f} /\ (way = "finally" => crossed = {})
      /\ Outer(f) \in Filter /\ at' = Outer(f)
  <2>1. f \in Filter \ {"Action", "Panic"} /\ "FINALLY" \in When
    BY Neighbours DEF When
  <2>2. Outer(f) \in Filter /\ at' = Outer(f)
    BY <1>1, <2>1, Neighbours DEF Return, Throw
  <2> QED
    BY <1>1, <2>1, <2>2, Neighbours DEF IInv, Flow
<1>4. Flow'
  BY <1>1, <1>3, FlowOfReturn, FlowOfThrow DEF IInv
<1>5. OwnHooks(f)'
  <2>1. OwnHooks(f)
    BY DEF IInv, HooksRight
  <2>2. \A w \in When \ {"FINALLY"} : <<f, w>> \in ran' <=> <<f, w>> \in ran
    BY <1>1
  <2>3. Past(f)' /\ ~Within(f) /\ ~Within(f)' /\ Inner(f) # f
    BY <1>1, <1>3, Neighbours DEF Past, Within
  <2> QED
    BY <1>1, <1>3, <2>1, <2>2, <2>3 DEF OwnHooks, When, Return, Throw
<1>6. HooksRight'
  <2>1. \A g \in Hooked \ {f} : OwnHooks(g)'
    BY <1>1, <1>3, HooksElsewhere DEF IInv
  <2> QED
    BY <1>5, <2>1 DEF HooksRight
<1>7. result' \in {result} \cup Result /\ status' \in {status, 200, 404, 500}
      /\ ran' \subseteq Hooked \X When
  <2>1. ran' \subseteq Hooked \X When
    BY <1>1, <1>3, HookFacts
  <2>2. CASE KeepsResult
    BY <2>1, <2>2, KeepsResultFacts
  <2>3. CASE SetsResult(f, "FINALLY")
    <3>1. f \in {"Interceptor", "BeforeAfter", "Action"} /\ "FINALLY" \in When \cup {""}
      BY HookFacts DEF When
    <3>2. result' \in Result /\ status' \in {status, 200}
      BY <2>3, <3>1, SetsResultFacts
    <3> QED
      BY <2>1, <3>2
  <2> QED
    BY <1>1, <2>2, <2>3
<1> QED
  BY <1>1, <1>2, <1>3, <1>4, <1>6, <1>7, HookFacts, MoveStep, ZenonT(60)
-----------------------------------------------------------------------------
(* ActionInvoker. *)

LEMMA ActionWorksStep ==
  ASSUME IInv, ActionWorks PROVE IInv'
<1>1. /\ at = "Action" /\ way = "down" /\ reached' = reached \cup {"Action"}
      /\ UNCHANGED <<at, way, request, response, ran, crossed>>
  BY DEF ActionWorks, Call
<1>2. /\ session' \in Session /\ flashOut' \in Message \cup {None} /\ keep' \in BOOLEAN
      /\ errors' \in BOOLEAN /\ tmpFiles' \in BOOLEAN
  <2>1. /\ session \in Session /\ flashOut \in Message \cup {None} /\ keep \in BOOLEAN
        /\ errors \in BOOLEAN /\ tmpFiles \in BOOLEAN
    BY DEF IInv, TypeOK
  <2>2. /\ session' \in Session \/ session' = session
        /\ flashOut' \in Message \/ flashOut' = flashOut
    BY Zenon DEF ActionWorks
  <2>3. keep' \in BOOLEAN
    <3>1. keep' = TRUE \/ UNCHANGED keep
      BY Zenon DEF ActionWorks
    <3> QED
      BY <2>1, <3>1, Zenon
  <2>4. errors' \in BOOLEAN
    <3>1. errors' \in BOOLEAN \/ UNCHANGED errors
      BY Zenon DEF ActionWorks
    <3> QED
      BY <2>1, <3>1, Zenon
  <2>5. tmpFiles' \in BOOLEAN
    <3>1. tmpFiles' = TRUE \/ UNCHANGED tmpFiles
      BY Zenon DEF ActionWorks
    <3> QED
      BY <2>1, <3>1, Zenon
  <2> QED
    BY <2>1, <2>2, <2>3, <2>4, <2>5
<1>3. "Action" \in Filter
  BY Order
<1>4. Flow'
  BY <1>1, <1>3, Neighbours DEF IInv, Flow, Past, Within
<1>5. HooksRight'
  <2>1. ASSUME NEW g \in Hooked PROVE OwnHooks(g)'
    <3>1. OwnHooks(g)
      BY <2>1 DEF IInv, HooksRight
    <3>2. g \in Filter \ {"Action"} /\ Within(g)' /\ ~Past(g)' /\ Within(g) /\ ~Past(g) /\ crossed = {}
      BY <1>1, <2>1, Neighbours DEF IInv, Flow, Past, Within
    <3> QED
      BY <1>1, <3>1, <3>2 DEF OwnHooks
  <2> QED
    BY <2>1 DEF HooksRight
<1>6. AnswerRight'
  BY <1>1, <1>3, AnswerKept DEF IInv, response
<1>7. CookiesRight'
  <2>1. \A g \in {"Session", "Flash", "Validation"} :
          (Past(g) /\ Passed(g)) <=> (Past(g)' /\ Passed(g)')
    BY <1>1, <1>3, OverKept, Order DEF IInv
  <2>2. ~Past("Session") /\ ~Past("Flash") /\ ~Past("Validation")
    BY <1>1, Order DEF Past
  <2>3. at # "Done" /\ at' # "Done" /\ UNCHANGED <<cookies, jar, setCookie, json>>
    BY <1>1 DEF request, response
  <2> QED
    BY <2>1, <2>2, <2>3, CookiesKept DEF IInv
<1>8. TmpFilesRight'
  BY <1>1, <1>3, Order DEF TmpFilesRight
<1>9. TypeOK'
  <2>1. /\ UNCHANGED <<devMode, cookies, jar, json, setCookie>> /\ answer' \in Answer
        /\ result' \in {result} /\ status' \in {status} /\ ran' \subseteq Hooked \X When
    BY <1>1 DEF IInv, TypeOK, request, response
  <2> QED
    BY <1>2, <1>4, <2>1, TypeKept DEF IInv
<1> QED
  BY <1>4, <1>5, <1>6, <1>7, <1>8, <1>9 DEF IInv

LEMMA ActionEndsStep ==
  ASSUME IInv, ActionEnds PROVE IInv'
<1>1. /\ at = "Action" /\ way = "down" /\ reached' = reached \cup {"Action"}
      /\ \/ Return("Action") /\ UNCHANGED crossed
         \/ Throw("Action")
      /\ UNCHANGED <<request, content, setCookie, answer, ran>>
  BY DEF ActionEnds, Call
<1>2. result' \in {result} \cup Result /\ status' \in {status, 200, 404, 500}
  <2>1. CASE KeepsResult
    BY <2>1, KeepsResultFacts
  <2>2. CASE SetsResult("Action", "")
    <3>1. "Action" \in {"Interceptor", "BeforeAfter", "Action"} /\ "" \in When \cup {""}
      OBVIOUS
    <3> QED
      BY <2>2, <3>1, SetsResultFacts
  <2> QED
    BY <2>1, <2>2 DEF ActionEnds
<1>3. /\ "Action" \in Filter \ (Hooked \cup {"Panic", "Params"}) /\ at' \in Filter
      /\ crossed = {}
  BY <1>1, Order, Neighbours DEF IInv, Flow, Hooked, Return, Throw
<1>4. Flow' /\ HooksRight'
  BY <1>1, <1>3, FlowOfReturn, HooksOfReturn, FlowOfThrow, HooksOfThrow DEF IInv
<1>5. UNCHANGED <<session, flashOut, errors, keep, tmpFiles>> /\ ran' \subseteq Hooked \X When
  BY <1>1 DEF IInv, TypeOK, content
<1>6. "Action" \notin {"Session", "Flash", "Validation"}
  OBVIOUS
<1> QED
  BY <1>1, <1>2, <1>3, <1>4, <1>5, <1>6, MoveStep

-----------------------------------------------------------------------------
(* User code writes: no cookie is set by then, so none goes with the header.  *)

LEMMA WritesAtOnceStep ==
  ASSUME IInv, WritesAtOnce PROVE IInv'
<1>1. /\ at \in Hooked \cup {"Action"} /\ answer = NoAnswer
      /\ status' \in {status, 200}
      /\ answer' = [status |-> IF status' = 0 THEN 200 ELSE status', body |-> "direct",
                    set |-> setCookie]
      /\ UNCHANGED <<at, way, devMode, cookies, jar, json, session, flashOut, errors, keep, tmpFiles,
                     result, setCookie, ran, reached, crossed>>
  BY DEF WritesAtOnce, Renders, request, content, history
<1>2. /\ at \in Filter /\ at # "Done" /\ at' \in Filter /\ at # "Apply"
      /\ ~Past("Session") /\ ~Past("Flash") /\ ~Past("Validation")
  BY <1>1, Order DEF Hooked, Past
<1>3. setCookie = NothingSet
  <2>1. setCookie \in SetCookies
    BY DEF IInv, TypeOK
  <2>2. setCookie["session"] = Unsent /\ setCookie["flash"] = Unsent /\ setCookie["errors"] = Unsent
    BY <1>2 DEF IInv, CookiesRight
  <2> QED
    BY <2>1, <2>2 DEF SetCookies, NothingSet
<1>4. answer'.body = "direct" /\ answer'.set = NothingSet
  BY <1>1, <1>3
<1>5. Flow' /\ TmpFilesRight'
  BY <1>1 DEF IInv, Flow, TmpFilesRight, Past, Within
<1>6. HooksRight'
  <2>1. ASSUME NEW g \in Hooked PROVE OwnHooks(g)'
    <3>1. OwnHooks(g) /\ (Within(g)' <=> Within(g)) /\ (Past(g)' <=> Past(g))
      BY <1>1, <2>1 DEF IInv, HooksRight, Within, Past
    <3> QED
      BY <1>1, <3>1 DEF OwnHooks
  <2> QED
    BY <2>1 DEF HooksRight
<1>7. AnswerRight'
  <2>1. AtOnce(answer')
    BY <1>4 DEF AtOnce
  <2>2. at' # "Apply" /\ at' # "Done"
    BY <1>1, <1>2
  <2> QED
    BY <1>4, <2>1, <2>2 DEF AnswerRight, PanicNeverAnsweredByPage
<1>8. CookiesRight'
  <2>1. \A f \in {"Session", "Flash", "Validation"} :
          (Past(f) /\ Passed(f)) <=> (Past(f)' /\ Passed(f)')
    BY <1>1 DEF Past, Passed
  <2>2. at' # "Done"
    BY <1>1, <1>2
  <2> QED
    BY <1>1, <1>2, <2>1, <2>2, CookiesKept DEF IInv
<1>9. TypeOK'
  <2>1. answer' \in Answer
    <3>1. status' \in {0, 200, 404, 500} /\ setCookie \in SetCookies
      BY <1>1 DEF IInv, TypeOK
    <3> QED
      BY <1>1, <3>1 DEF Answer
  <2>2. /\ session' \in Session /\ flashOut' \in Message \cup {None} /\ errors' \in BOOLEAN
        /\ keep' \in BOOLEAN /\ tmpFiles' \in BOOLEAN /\ ran' \subseteq Hooked \X When
        /\ result' \in {result} /\ status' \in {status, 200}
    BY <1>1 DEF IInv, TypeOK
  <2> QED
    BY <1>1, <1>5, <2>1, <2>2, TypeKept DEF IInv
<1> QED
  BY <1>5, <1>6, <1>7, <1>8, <1>9 DEF IInv

-----------------------------------------------------------------------------
(* handleInternal: the result is applied, and the browser comes back. *)

(* Either the browser's cookies stay, because the header had gone before or   *)
(* because what was in the buffer is lost, or those that are set replace them. *)
Stays      == jar' = cookies /\ (AtOnce(answer') \/ answer'.body = "cut")
TakesOver  == /\ ~AtOnce(answer')
              /\ jar'.session = IF setCookie["session"] = Unsent THEN cookies.session
                                ELSE setCookie["session"]
              /\ jar'.flash = IF setCookie["flash"] = Unsent THEN cookies.flash
                              ELSE setCookie["flash"]
              /\ jar'.errors = IF setCookie["errors"] = Unsent THEN cookies.errors
                               ELSE setCookie["errors"]

LEMMA ReceivedFacts ==
  ASSUME jar \in Jar, NEW set \in SetCookies
  PROVE  /\ Received(set) \in Jar
         /\ set = NothingSet => Received(set) = jar
         /\ Received(set).session = IF set["session"] = Unsent THEN jar.session ELSE set["session"]
         /\ Received(set).flash = IF set["flash"] = Unsent THEN jar.flash ELSE set["flash"]
         /\ Received(set).errors = IF set["errors"] = Unsent THEN jar.errors ELSE set["errors"]
BY DEF Received, Jar, SetCookies, NothingSet

LEMMA WrittenAnswer ==
  ASSUME TypeOK
  PROVE  /\ Written \in Answer
         /\ answer # NoAnswer => Written = answer
         /\ answer = NoAnswer => /\ Written.set = setCookie /\ Written.body = Body
                                 /\ Body \in {"none", "error", "page"}
<1>1. Body \in {"none", "error", "page"}
  BY DEF Body
<1>2. answer \in Answer /\ status \in {0, 200, 404, 500} /\ setCookie \in SetCookies
  BY DEF TypeOK
<1>3. CASE answer # NoAnswer
  BY <1>2, <1>3 DEF Written
<1>4. CASE answer = NoAnswer
  <2>1. Written = [status |-> IF status = 0 THEN 200 ELSE status, body |-> Body, set |-> setCookie]
    BY <1>4 DEF Written
  <2>2. (IF status = 0 THEN 200 ELSE status) \in {0, 101, 200, 404, 500}
    BY <1>2
  <2>3. Body \in {"none", "page", "error", "stack", "direct", "socket", "cut"}
    BY <1>1
  <2>4. Written \in Answer
    BY <1>2, <2>1, <2>2, <2>3 DEF Answer
  <2> QED
    BY <1>1, <1>4, <2>1, <2>4
<1> QED
  BY <1>3, <1>4

LEMMA ApplyStep ==
  ASSUME IInv, Apply PROVE IInv'
<1>1. /\ at = "Apply" /\ at' = "Done" /\ way' = "up"
      /\ UNCHANGED <<devMode, cookies, json, content, result, status, setCookie, history>>
      /\ \/ answer' = Written /\ jar' = Received(Written.set)
         \/ answer' = Cut /\ jar' \in {jar, Received(Written.set)}
  BY DEF Apply
<1>2. /\ UNCHANGED <<session, flashOut, errors, keep, tmpFiles, ran, reached, crossed>>
      /\ at \notin Filter /\ at' \notin Filter
  BY <1>1, Neighbours DEF content, history
<1>3. /\ jar = cookies /\ jar \in Jar /\ setCookie \in SetCookies /\ answer \in Answer
      /\ answer = NoAnswer \/ AtOnce(answer) \/ (answer.body = "stack" /\ answer.set = setCookie)
      /\ AtOnce(answer) => answer.set = NothingSet
  BY <1>1 DEF IInv, AnswerRight, CookiesRight, TypeOK
<1>4. /\ Written \in Answer
      /\ Written.body \in {"none", "error", "page"} => answer = NoAnswer /\ Written.body = Body
      /\ \/ AtOnce(Written) /\ Written.set = NothingSet
         \/ Written.body \in {"none", "error", "page", "stack"} /\ Written.set = setCookie
  <2>1. CASE answer = NoAnswer
    BY <2>1, WrittenAnswer DEF IInv
  <2>2. CASE answer # NoAnswer /\ AtOnce(answer)
    <3>1. answer.body \notin {"none", "error", "page"}
      BY <2>2 DEF AtOnce
    <3> QED
      BY <1>3, <2>2, <3>1, WrittenAnswer DEF IInv
  <2>3. CASE answer # NoAnswer /\ answer.body = "stack" /\ answer.set = setCookie
    BY <2>3, WrittenAnswer DEF IInv
  <2> QED
    BY <1>3, <2>1, <2>2, <2>3
<1>5. Flow'
  BY <1>1, <1>2 DEF IInv, Flow, Past, Within
<1>6. HooksRight'
  <2>1. ASSUME NEW g \in Hooked PROVE OwnHooks(g)'
    <3>1. OwnHooks(g)
      BY <2>1 DEF IInv, HooksRight
    <3>2. /\ Past(g) /\ Past(g)' /\ ~Within(g) /\ ~Within(g)' /\ at # g
          /\ at # Inner(g)
      BY <1>2, <2>1, Neighbours DEF Past, Within
    <3> QED
      BY <1>2, <3>1, <3>2 DEF OwnHooks
  <2> QED
    BY <2>1 DEF HooksRight
<1>7. answer' \in Answer /\ jar' \in Jar /\ (Stays \/ TakesOver)
  <2>1. Cut \in Answer /\ Cut.body = "cut" /\ ~AtOnce(Cut)
    <3>1. NothingSet \in SetCookies
      BY DEF NothingSet, SetCookies
    <3> QED
      BY <3>1 DEF Cut, Answer, AtOnce
  <2>2. Written.set \in SetCookies
    BY <1>4 DEF Answer
  <2> DEFINE set == Written.set
             app == Written
  <2>3. /\ Received(set) \in Jar
        /\ set = NothingSet => Received(set) = jar
        /\ Received(set).session = IF set["session"] = Unsent THEN jar.session ELSE set["session"]
        /\ Received(set).flash = IF set["flash"] = Unsent THEN jar.flash ELSE set["flash"]
        /\ Received(set).errors = IF set["errors"] = Unsent THEN jar.errors ELSE set["errors"]
    BY ONLY <1>3, <2>2, ReceivedFacts
  <2>4. answer' \in Answer /\ jar' \in Jar
    BY <1>1, <1>3, <1>4, <2>1, <2>3
  <2>5. CASE jar' = jar /\ answer' = Cut
    BY <1>3, <2>1, <2>4, <2>5 DEF Stays
  <2>6. CASE jar' = Received(set) /\ AtOnce(app) /\ set = NothingSet /\ answer' \in {app, Cut}
    BY <1>3, <2>1, <2>3, <2>4, <2>6 DEF Stays
  <2>7. CASE /\ jar' = Received(set) /\ app.body \in {"none", "error", "page", "stack"}
             /\ set = setCookie /\ answer' \in {app, Cut}
    <3>1. ~AtOnce(app)
      BY <2>7 DEF AtOnce
    <3>2. ~AtOnce(answer')
      BY <2>1, <2>7, <3>1
    <3> QED
      BY <1>3, <2>3, <2>4, <2>7, <3>2 DEF TakesOver
  <2> QED
    BY <1>1, <1>4, <2>5, <2>6, <2>7
<1>8. TypeOK'
  <2>1. /\ cookies' \in Jar /\ result' \in {None} \cup Result /\ status' \in {0, 200, 404, 500}
        /\ CookiesTyped' /\ devMode' \in BOOLEAN /\ json' \in BOOLEAN /\ ran' \subseteq Hooked \X When
    BY <1>1, <1>2 DEF IInv, TypeOK, CookiesTyped
  <2>2. /\ session' \in Session /\ flashOut' \in Message \cup {None} /\ keep' \in BOOLEAN
        /\ errors' \in BOOLEAN /\ tmpFiles' \in BOOLEAN
    BY <1>2 DEF IInv, TypeOK
  <2> QED
    BY <1>1, <1>5, <1>7, <2>1, <2>2 DEF TypeOK, CookiesTyped, Flow
<1>9. TmpFilesRight'
  <2>1. ~tmpFiles
    BY <1>2 DEF IInv, TmpFilesRight
  <2> QED
    BY <1>2, <2>1 DEF TmpFilesRight
<1>10. AnswerRight'
  <2>1. PanicNeverAnsweredByPage'
    <3> SUFFICES ASSUME crossed # {}
                 PROVE  answer'.body \in {"error", "stack", "cut", "direct", "socket"}
      BY <1>1, <1>2 DEF PanicNeverAnsweredByPage
    <3>1. CASE answer' = Cut
      BY <3>1 DEF Cut
    <3>2. CASE answer' = Written /\ AtOnce(Written)
      BY <3>2 DEF AtOnce
    <3>3. CASE answer' = Written /\ Written.body \in {"none", "error", "page"}
      <4>1. answer = NoAnswer /\ Written.body = Body
        BY <1>4, <3>3
      <4>2. result # None /\ result[1] = "Panic"
        BY <1>1, <4>1 DEF IInv, AnswerRight
      <4> QED
        BY <3>3, <4>1, <4>2 DEF Body
    <3>4. CASE answer' = Written /\ Written.body = "stack"
      BY <3>4
    <3> QED
      BY <1>1, <1>4, <3>1, <3>2, <3>3, <3>4
  <2>2. AtOnce(answer') => answer'.set = NothingSet
    <3>1. CASE answer' = Cut
      BY <3>1 DEF Cut
    <3>2. CASE answer' = Written
      <4>1. Written.body \in {"none", "error", "page", "stack"} => ~AtOnce(Written)
        BY DEF AtOnce
      <4> QED
        BY <1>4, <3>2, <4>1
    <3> QED
      BY <1>1, <3>1, <3>2
  <2> QED
    BY <1>1, <1>2, <2>1, <2>2 DEF AnswerRight
<1>11. CookiesRight'
  <2>1. \A g \in {"Session", "Flash", "Validation"} : Past(g) /\ Past(g)' /\ (Passed(g)' <=> Passed(g))
    BY <1>2 DEF Past, Passed
  <2>2. /\ setCookie["session"] # Unsent => Passed("Session")
        /\ setCookie["flash"] # Unsent => Passed("Flash")
        /\ setCookie["errors"] # Unsent => Passed("Validation")
        /\ Passed("Session") => setCookie["session"] = IF Encodes THEN session ELSE Unsent
        /\ Passed("Flash") => setCookie["flash"] = flashOut
        /\ Passed("Validation") /\ ~json =>
             setCookie["errors"] = IF keep /\ errors THEN TRUE
                                   ELSE IF cookies.errors THEN FALSE ELSE Unsent
        /\ json => setCookie["errors"] = Unsent
    BY <2>1 DEF IInv, CookiesRight
  <2>3. \A g \in {"Session", "Flash", "Validation"} :
          /\ InTime(g)' <=> Passed(g) /\ ~AtOnce(answer')
          /\ MayBeLost' <=> answer'.body = "cut"
    BY <2>1 DEF InTime, AtOnce, MayBeLost
  <2>4. /\ session \in Session /\ flashOut \in Message \cup {None} /\ cookies.errors \in BOOLEAN
        /\ cookies.session \in Session \cup {None} /\ cookies \in Jar
    BY <1>7 DEF IInv, TypeOK, Jar
  <2>5. SessionCarriedOver'
    <3> SUFFICES \/ InTime("Session")' /\ Decoded(jar'.session) = session
                 \/ (InTime("Session")' => MayBeLost') /\ jar'.session = cookies.session
      BY <1>1, <1>2 DEF SessionCarriedOver, Decoded
    <3>1. CASE Stays
      BY <2>3, <3>1 DEF Stays
    <3>2. CASE TakesOver /\ Passed("Session")
      BY <2>2, <2>3, <2>4, <3>2, NoneAssumption DEF TakesOver, Decoded, Encodes
    <3>3. CASE TakesOver /\ ~Passed("Session")
      BY <2>2, <2>3, <3>3 DEF TakesOver
    <3> QED
      BY <1>7, <3>1, <3>2, <3>3
  <2>6. OneShotCookies'
    <3> SUFFICES /\ \/ InTime("Flash")' /\ jar'.flash = flashOut
                    \/ (InTime("Flash")' => MayBeLost') /\ jar'.flash = cookies.flash
                 /\ \/ InTime("Validation")' /\ ~json /\ jar'.errors = (keep /\ errors)
                    \/ /\ InTime("Validation")' => MayBeLost' \/ json
                       /\ jar'.errors = cookies.errors
      BY <1>1, <1>2 DEF OneShotCookies
    <3>1. CASE Stays
      BY <2>3, <3>1 DEF Stays
    <3>2. CASE TakesOver
      <4>1. \/ InTime("Flash")' /\ jar'.flash = flashOut
            \/ (InTime("Flash")' => MayBeLost') /\ jar'.flash = cookies.flash
        BY <2>2, <2>3, <2>4, <3>2, NoneAssumption DEF TakesOver
      <4>2. \/ InTime("Validation")' /\ ~json /\ jar'.errors = (keep /\ errors)
            \/ (InTime("Validation")' => MayBeLost' \/ json) /\ jar'.errors = cookies.errors
        <5>1. CASE Passed("Validation") /\ ~json
          <6>1. keep \in BOOLEAN /\ errors \in BOOLEAN
            BY DEF IInv, TypeOK
          <6>2. jar'.errors = (keep /\ errors)
            BY <2>2, <2>4, <3>2, <5>1, <6>1, NoneAssumption DEF TakesOver
          <6> QED
            BY <2>3, <3>2, <5>1, <6>2 DEF TakesOver
        <5>2. CASE ~Passed("Validation") \/ json
          BY <2>2, <2>3, <3>2, <5>2 DEF TakesOver
        <5> QED
          BY <5>1, <5>2
      <4> QED
        BY <4>1, <4>2
    <3> QED
      BY <1>7, <3>1, <3>2
  <2> QED
    BY <1>1, <1>2, <2>1, <2>2, <2>5, <2>6 DEF CookiesRight, Encodes
<1> QED
  BY <1>5, <1>6, <1>8, <1>9, <1>10, <1>11 DEF IInv

LEMMA BlankRequest ==
  /\ NoCookies \in Jar /\ NoAnswer \in Answer /\ Upgraded \in Answer /\ NothingSet \in SetCookies
  /\ NothingSet["session"] = Unsent /\ NothingSet["flash"] = Unsent /\ NothingSet["errors"] = Unsent
  /\ ~AtOnce(NoAnswer) /\ AtOnce(Upgraded) /\ Upgraded.set = NothingSet
<1>1. NothingSet \in SetCookies
  BY DEF NothingSet, SetCookies
<1> QED
  BY <1>1 DEF NoCookies, Jar, NoAnswer, Answer, NothingSet, Upgraded, AtOnce

LEMMA RequestStep ==
  ASSUME IInv, Request PROVE IInv'
<1>1. /\ at' = "Panic" /\ way' = "down" /\ UNCHANGED <<devMode, jar>> /\ cookies' = jar
      /\ json' \in BOOLEAN /\ answer' \in {NoAnswer, Upgraded}
      /\ result' = None /\ status' = 0 /\ setCookie' = NothingSet
      /\ session' = NoSession /\ flashOut' = None
      /\ errors' = FALSE /\ keep' = FALSE /\ tmpFiles' = FALSE
      /\ ran' = {} /\ reached' = {} /\ crossed' = {}
  BY DEF Request
<1>2. Flow'
  BY <1>1, Neighbours, Order DEF Flow, Past, Within
<1>3. HooksRight'
  <2>1. ASSUME NEW g \in Hooked PROVE OwnHooks(g)'
    <3>1. ~Within(g)'
      BY <1>1, <2>1, Neighbours, Order DEF Within
    <3> QED
      BY <1>1, <3>1 DEF OwnHooks
  <2> QED
    BY <2>1 DEF HooksRight
<1>4. AnswerRight'
  <2>1. answer' = NoAnswer \/ AtOnce(answer')
    BY <1>1, BlankRequest
  <2>2. AtOnce(answer') => answer'.set = NothingSet
    BY <1>1, BlankRequest
  <2>3. at' # "Apply" /\ at' # "Done"
    BY <1>1
  <2> QED
    BY <2>1, <2>2, <2>3 DEF AnswerRight, PanicNeverAnsweredByPage
<1>5. CookiesRight'
  <2>1. SessionCarriedOver' /\ OneShotCookies'
    BY <1>1 DEF SessionCarriedOver, OneShotCookies, Ended
  <2>2. ~Passed("Session")' /\ ~Passed("Flash")' /\ ~Passed("Validation")'
    BY <1>1 DEF Passed
  <2> QED
    BY <1>1, <2>1, <2>2, BlankRequest DEF CookiesRight
<1>6. TmpFilesRight'
  BY <1>1 DEF TmpFilesRight
<1>7. TypeOK'
  <2>1. devMode \in BOOLEAN /\ jar \in Jar
    BY DEF IInv, TypeOK
  <2> QED
    BY <1>1, <1>2, <2>1, BlankRequest, SessionAssumption DEF TypeOK, Flow
<1> QED
  BY <1>2, <1>3, <1>4, <1>5, <1>6, <1>7 DEF IInv

-----------------------------------------------------------------------------
LEMMA InitInvariant == Init => IInv
<1> SUFFICES ASSUME Init PROVE IInv
  OBVIOUS
<1>1. Flow
  BY Neighbours DEF Init, Flow, Past, Within
<1>2. HooksRight
  <2>1. ASSUME NEW g \in Hooked PROVE OwnHooks(g)
    <3>1. ~Within(g)
      BY Neighbours DEF Init, Within
    <3> QED
      BY <3>1 DEF Init, OwnHooks
  <2> QED
    BY <2>1 DEF HooksRight
<1>3. AnswerRight
  BY Neighbours, BlankRequest DEF Init, AnswerRight, PanicNeverAnsweredByPage
<1>4. CookiesRight
  <2>1. SessionCarriedOver /\ OneShotCookies
    BY DEF Init, SessionCarriedOver, OneShotCookies, Ended
  <2>2. ~Passed("Session") /\ ~Passed("Flash") /\ ~Passed("Validation")
    BY DEF Init, Passed
  <2> QED
    BY <2>1, <2>2, BlankRequest DEF Init, CookiesRight
<1>5. TmpFilesRight
  BY DEF Init, TmpFilesRight
<1>6. TypeOK
  <2>1. /\ devMode \in BOOLEAN /\ jar \in Jar /\ cookies \in Jar /\ answer \in Answer
        /\ json \in BOOLEAN /\ errors \in BOOLEAN /\ keep \in BOOLEAN /\ tmpFiles \in BOOLEAN
    BY BlankRequest DEF Init
  <2>2. /\ session \in Session /\ flashOut \in Message \cup {None} /\ result \in {None} \cup Result
        /\ status \in {0, 200, 404, 500} /\ ran \subseteq Hooked \X When
    BY SessionAssumption DEF Init
  <2>3. CookiesTyped
    BY BlankRequest DEF Init, CookiesTyped
  <2> QED
    BY <1>1, <2>1, <2>2, <2>3 DEF TypeOK, CookiesTyped, Flow
<1> QED
  BY <1>1, <1>2, <1>3, <1>4, <1>5, <1>6 DEF IInv

LEMMA Stutter ==
  ASSUME IInv, UNCHANGED vars PROVE IInv'
<1>1. UNCHANGED <<devMode, at, way, result, status, cookies, setCookie, jar, session, flashOut,
                  errors, keep, json, tmpFiles, answer, ran, reached, crossed>>
  BY DEF vars
<1>2. Flow' /\ TmpFilesRight'
  BY <1>1 DEF IInv, Flow, TmpFilesRight, Past, Within
<1>3. HooksRight'
  BY <1>1 DEF IInv, HooksRight, OwnHooks, Past, Within
<1>4. AnswerRight'
  BY <1>1 DEF IInv, AnswerRight, PanicNeverAnsweredByPage, AtOnce
<1>5. CookiesRight'
  <2>1. /\ \A f \in {"Session", "Flash", "Validation"} :
             (Past(f)' <=> Past(f)) /\ (Passed(f)' <=> Passed(f))
        /\ Encodes' <=> Encodes
        /\ \A f \in {"Session", "Flash", "Validation"} : InTime(f)' <=> InTime(f)
        /\ (Ended' <=> Ended) /\ (MayBeLost' <=> MayBeLost)
    BY <1>1 DEF Past, Passed, Encodes, InTime, Ended, MayBeLost
  <2>2. SessionCarriedOver' /\ OneShotCookies'
    <3>1. SessionCarriedOver /\ OneShotCookies
      BY DEF IInv, CookiesRight
    <3>2. SessionCarriedOver'
      BY <1>1, <2>1, <3>1 DEF SessionCarriedOver, Decoded
    <3>3. OneShotCookies'
      BY <1>1, <2>1, <3>1 DEF OneShotCookies
    <3> QED
      BY <3>2, <3>3
  <2> QED
    BY <1>1, <2>1, <2>2 DEF IInv, CookiesRight
<1>6. TypeOK'
  BY <1>1, <1>2, TypeKept DEF IInv, TypeOK
<1> QED
  BY <1>2, <1>3, <1>4, <1>5, <1>6 DEF IInv

LEMMA Invariance == Spec => []IInv
<1>1. IInv /\ [Next]_vars => IInv'
  <2> SUFFICES ASSUME IInv, [Next]_vars PROVE IInv'
    OBVIOUS
  <2>1. CASE PanicCalls \/ RouterCalls \/ ParamsCalls \/ FlashCalls
    BY <2>1, CallsStep
  <2>2. CASE RouterPasses \/ ParamsCleansUp \/ \E f \in Filter : Unwinds(f)
    BY <2>2, PassesStep
  <2>3. CASE SessionReturns
    <3>1. Return("Session") \/ Throw("Session")
      BY <2>3 DEF SessionReturns
    <3> QED
      BY <2>3, <3>1, SessionReturnsStep, SessionThrowsStep
  <2>4. CASE FlashReturns
    <3>1. Return("Flash")
      BY <2>4 DEF FlashReturns
    <3> QED
      BY <2>4, <3>1, FlashReturnsStep
  <2>5. CASE ValidationReturns
    <3>1. Return("Validation")
      BY <2>5 DEF ValidationReturns
    <3> QED
      BY <2>5, <3>1, ValidationReturnsStep
  <2>6. ASSUME NEW f \in Filter, Before(f) \/ After(f) \/ OnPanic(f) \/ Finally(f)
        PROVE  IInv'
    <3>1. f \in Hooked
      BY <2>6 DEF Before, After, OnPanic, Finally
    <3> QED
      BY <2>6, <3>1, BeforeStep, AfterStep, OnPanicStep, FinallyStep
  <2>7. CASE Request \/ PanicReturns \/ PanicRecovers \/ RouterNotFound \/ SessionCalls
             \/ ValidationCalls \/ ActionWorks \/ ActionEnds \/ WritesAtOnce \/ Apply
    BY <2>7, RequestStep, PanicReturnsStep, PanicRecoversStep, RouterNotFoundStep, SessionCallsStep,
       ValidationCallsStep, ActionWorksStep, ActionEndsStep, WritesAtOnceStep, ApplyStep
  <2>8. CASE UNCHANGED vars
    BY <2>8, Stutter
  <2> QED
    BY <2>1, <2>2, <2>3, <2>4, <2>5, <2>6, <2>7, <2>8 DEF Next
<1> QED
  BY <1>1, InitInvariant, PTL DEF Spec

-----------------------------------------------------------------------------
(* Every variable of the filter chain keeps to its values. *)
THEOREM TypeCorrect == Spec => []TypeOK
<1>1. IInv => TypeOK
  BY DEF IInv
<1> QED
  BY <1>1, Invariance, PTL

(* Whoever panics and however often, the FINALLY hooks of a filter have run   *)
(* when the filters are done if it was entered at all, what is behind it just *)
(* when no BEFORE hook panicked or answered, the PANIC hooks if a panic came  *)
(* up to it, the AFTER hooks if the call returned.                            *)
THEOREM HooksAlwaysComplete == Spec => []HooksComplete
<1>1. IInv => HooksComplete
  <2> SUFFICES ASSUME IInv, at \in {"Apply", "Done"}, NEW f \in Hooked
               PROVE  /\ <<f, "FINALLY">> \in ran <=> f \in reached
                      /\ <<f, "BEFORE">> \in ran <=> Inner(f) \in reached
                      /\ Inner(f) \in crossed => <<f, "PANIC">> \in ran /\ <<f, "AFTER">> \notin ran
                      /\ Inner(f) \in reached \ crossed => <<f, "AFTER">> \in ran
                      /\ <<f, "PANIC">> \in ran => f \in crossed
    BY DEF HooksComplete
  <2>1. f \in Filter /\ Past(f) /\ ~Within(f) /\ at # f /\ at # Inner(f)
    BY Neighbours DEF Past, Within
  <2>2. OwnHooks(f)
    BY DEF IInv, HooksRight
  <2> QED
    BY <2>1, <2>2 DEF OwnHooks
<1> QED
  BY <1>1, Invariance, PTL

(* After a panic the client gets the error page, the stack of development     *)
(* mode, nothing, or what user code had written itself, never the page chosen *)
(* before.                                                                    *)
THEOREM PanicAnswered == Spec => []PanicNeverAnsweredByPage
<1>1. IInv => PanicNeverAnsweredByPage
  BY DEF IInv, AnswerRight
<1> QED
  BY <1>1, Invariance, PTL

(* The deferred clean-up of ParamsFilter leaves no temp file of an upload.    *)
THEOREM TempFilesRemoved == Spec => []NoTempFileLeft
<1>1. IInv => NoTempFileLeft
  BY Neighbours DEF IInv, TmpFilesRight, NoTempFileLeft
<1> QED
  BY <1>1, Invariance, PTL

(* The next request starts with the session this one ended with if            *)
(* SessionFilter finished with the header still to be written, and otherwise  *)
(* with the one this one started with, or either if the connection was cut.   *)
THEOREM SessionsCarriedOver == Spec => []SessionCarriedOver
<1>1. IInv => SessionCarriedOver
  BY DEF IInv, CookiesRight
<1> QED
  BY <1>1, Invariance, PTL

(* Flash and kept validation errors live for one request whose filters finish *)
(* with the header still to be written, and on through any other.             *)
THEOREM CookiesOneShot == Spec => []OneShotCookies
<1>1. IInv => OneShotCookies
  BY DEF IInv, CookiesRight
<1> QED
  BY <1>1, Invariance, PTL

-----------------------------------------------------------------------------
(* There is no result on the way down; later there is one of a filter further *)
(* in, or the filter's own until its FINALLY hooks have run.                  *)
OwnResult   == at = result[1] /\ way \in {"finally", "finallyPanic"} /\ result[2] # "FINALLY"
ResultRight ==
  /\ way = "down" => result = None
  /\ at \in Filter /\ result # None => Place[at] < Place[result[1]] \/ OwnResult

LEMMA ResultKept ==
  ASSUME Flow, TypeOK, ResultRight, result' = result, at \in Filter,
         way' = "down" => way = "down",
         result # None => \/ at' \notin Filter
                          \/ Place[at'] < Place[at]
                          \/ at' = at /\ (way' = way \/ way \notin {"finally", "finallyPanic"})
  PROVE  ResultRight' /\ ResultFromFurtherOut
<1>1. result # None => result[1] \in Filter
  BY Order DEF TypeOK, Result
<1>2. result # None /\ at' \in Filter => Place[at'] < Place[result[1]] \/ OwnResult'
  <2> SUFFICES ASSUME result # None, at' \in Filter
               PROVE  Place[at'] < Place[result[1]] \/ OwnResult'
    OBVIOUS
  <2>1. /\ Place[at] \in 1..9 /\ Place[at'] \in 1..9 /\ Place[result[1]] \in 1..9
        /\ Place[at] < Place[result[1]] \/ OwnResult
    BY <1>1, Neighbours DEF ResultRight
  <2>2. CASE Place[at'] < Place[at]
    BY <2>1, <2>2 DEF OwnResult
  <2>3. CASE at' = at /\ (way' = way \/ way \notin {"finally", "finallyPanic"})
    BY <2>1, <2>3 DEF OwnResult
  <2> QED
    BY <2>2, <2>3
<1> QED
  BY <1>2 DEF ResultRight, ResultFromFurtherOut

LEMMA ResultSet ==
  ASSUME Flow, TypeOK, ResultRight, at \in Filter, NEW f \in Filter, at = f, NEW w, <<f, w>> \in Result,
         result' = <<f, w>>, way' # "down",
         way \in {"finally", "finallyPanic"} => w = "FINALLY",
         \/ at' \notin Filter
         \/ Place[at'] < Place[f]
         \/ at' = f /\ way' \in {"finally", "finallyPanic"} /\ w # "FINALLY"
  PROVE  ResultRight' /\ ResultFromFurtherOut
<1>1. result' # None /\ result'[1] = f /\ result'[2] = w
  BY NoneAssumption
<1>2. result # None => Place[f] < Place[result[1]] \/ (f = result[1] /\ w = "FINALLY")
  BY DEF ResultRight, OwnResult
<1>3. at' \in Filter => Place[at'] < Place[f] \/ OwnResult'
  BY <1>1 DEF OwnResult
<1> QED
  BY <1>1, <1>2, <1>3 DEF ResultRight, ResultFromFurtherOut

LEMMA OuterPlace ==
  ASSUME NEW f \in Filter
  PROVE  Outer(f) \notin Filter \/ Place[Outer(f)] < Place[f]
BY Neighbours

LEMMA ResultStep ==
  ASSUME IInv, ResultRight, [Next]_vars
  PROVE  ResultRight' /\ ResultFromFurtherOut
<1>0. Flow /\ TypeOK
  BY DEF IInv
<1>1. CASE Request
  BY <1>1 DEF Request, ResultRight, ResultFromFurtherOut
<1>2. CASE PanicCalls \/ RouterCalls \/ ParamsCalls \/ SessionCalls \/ FlashCalls \/ ValidationCalls
  <2>1. result' = result /\ at \in Filter /\ way = "down"
    BY <1>2, Order DEF PanicCalls, RouterCalls, ParamsCalls, SessionCalls, FlashCalls, ValidationCalls,
                       Call, response
  <2> QED
    BY <1>0, <2>1, ResultKept DEF ResultRight
<1>3. CASE \/ PanicReturns \/ RouterPasses \/ ParamsCleansUp \/ SessionReturns \/ FlashReturns
           \/ ValidationReturns \/ \E f \in Filter : Unwinds(f)
  <2>1. result' = result /\ at \in Filter /\ at' = Outer(at) /\ way' # "down"
    BY <1>3, Order DEF PanicReturns, RouterPasses, ParamsCleansUp, SessionReturns, FlashReturns,
                       ValidationReturns, Unwinds, Return, Throw, response
  <2> QED
    BY <1>0, <2>1, OuterPlace, ResultKept
<1>4. CASE PanicRecovers
  <2>1. at = "Panic" /\ at' = "Apply" /\ way' = "up" /\ "Panic" \in Filter /\ "Apply" \notin Filter
    BY <1>4, Order, Neighbours DEF PanicRecovers, Return
  <2>2. CASE result' = result
    BY <1>0, <2>1, <2>2, ResultKept
  <2>3. ASSUME NEW w \in {"error", "nil error"}, result' = <<"Panic", w>>
        PROVE  ResultRight' /\ ResultFromFurtherOut
    <3>1. <<"Panic", w>> \in Result
      BY DEF Result
    <3>2. way \notin {"finally", "finallyPanic"}
      BY <1>4 DEF PanicRecovers
    <3> QED
      BY <1>0, <2>1, <2>3, <3>1, <3>2, ResultSet
  <2>4. result' = result \/ \E w \in {"error", "nil error"} : result' = <<"Panic", w>>
    BY <1>4 DEF PanicRecovers, ErrorPage
  <2> QED
    BY <2>2, <2>3, <2>4
<1>5. CASE RouterNotFound
  <2>1. /\ at = "Router" /\ at' = Outer("Router") /\ way' = "up" /\ "Router" \in Filter
        /\ result' = <<"Router", "not found">> /\ way = "down"
    BY <1>5, Order DEF RouterNotFound, Call, Return
  <2>2. <<"Router", "not found">> \in Result
    BY DEF Result
  <2> QED
    BY <1>0, <2>1, <2>2, OuterPlace, ResultSet
<1>6. ASSUME NEW f \in Filter, Before(f) \/ After(f) \/ OnPanic(f) \/ Finally(f)
      PROVE  ResultRight' /\ ResultFromFurtherOut
  <2>1. f \in Hooked /\ at = f /\ f \in {"Interceptor", "BeforeAfter"}
    BY <1>6 DEF Before, After, OnPanic, Finally, Call, Hooked
  <2>2. CASE result' = result /\ way' # "down"
    <3>1. at' = f \/ at' = Outer(f)
      BY <1>6, <2>2 DEF Before, After, OnPanic, Finally, CallNext, Return, Throw
    <3>2. at' = f => way \notin {"finally", "finallyPanic"}
      BY <1>6, <2>1, Neighbours DEF Before, After, OnPanic, Finally, Call, Return, Throw
    <3>3. at' \notin Filter \/ Place[at'] < Place[f]
             \/ (at' = f /\ way \notin {"finally", "finallyPanic"})
      BY <3>1, <3>2, OuterPlace
    <3> QED
      BY <1>0, <2>1, <2>2, <3>3, Neighbours, ResultKept
  <2>3. CASE result' = result /\ way' = "down"
    <3>1. way = "down"
      BY <1>6, <2>3 DEF Before, After, OnPanic, Finally, Call, Return, Throw, AfterPanicHooks
    <3> QED
      BY <1>0, <2>1, <2>3, <3>1, ResultKept DEF ResultRight
  <2>4. CASE result' # result
    <3>1. PICK w \in When : /\ result' = <<f, w>> /\ way' # "down"
                            /\ \/ /\ w # "FINALLY" /\ at' = f /\ way' \in {"finally", "finallyPanic"}
                                  /\ way \notin {"finally", "finallyPanic"}
                               \/ w = "FINALLY" /\ at' = Outer(f)
      <4>1. CASE Before(f)
        BY <2>4, <4>1 DEF Before, SetsResult, KeepsResult, Call, When
      <4>2. CASE After(f)
        BY <2>4, <4>2 DEF After, SetsResult, KeepsResult, When
      <4>3. CASE OnPanic(f)
        BY <2>4, <4>3 DEF OnPanic, SetsResult, KeepsResult, AfterPanicHooks, When
      <4>4. CASE Finally(f)
        BY <2>4, <4>4 DEF Finally, SetsResult, KeepsResult, Return, Throw, When
      <4> QED
        BY <1>6, <4>1, <4>2, <4>3, <4>4
    <3>2. at' \notin Filter \/ Place[at'] < Place[f]
             \/ (at' = f /\ way' \in {"finally", "finallyPanic"} /\ w # "FINALLY")
      BY <3>1, OuterPlace, Neighbours
    <3>3. <<f, w>> \in Result
      BY <2>1 DEF Result
    <3>4. way \in {"finally", "finallyPanic"} => w = "FINALLY"
      BY <3>1
    <3> QED
      BY <1>0, <2>1, <3>1, <3>2, <3>3, <3>4, Neighbours, ResultSet
  <2> QED
    BY <2>2, <2>3, <2>4
<1>7. CASE ActionWorks \/ WritesAtOnce
  <2>1. at \in Filter /\ result' = result /\ at' = at /\ way' = way
    BY <1>7, Order DEF ActionWorks, WritesAtOnce, Call, response, Hooked
  <2> QED
    BY <1>0, <2>1, ResultKept
<1>8. CASE ActionEnds
  <2>1. at = "Action" /\ "Action" \in Filter /\ at' = Outer("Action") /\ way' # "down" /\ way = "down"
    BY <1>8, Order DEF ActionEnds, Call, Return, Throw
  <2>2. CASE result' = result
    BY <1>0, <2>1, <2>2, OuterPlace, ResultKept
  <2>3. CASE result' = <<"Action", "">>
    <3>1. <<"Action", "">> \in Result
      BY DEF Result
    <3> QED
      BY <1>0, <2>1, <2>3, <3>1, OuterPlace, ResultSet
  <2> QED
    BY <1>8, <2>2, <2>3 DEF ActionEnds, SetsResult, KeepsResult
<1>9. CASE Apply
  BY <1>9, Neighbours DEF Apply, ResultRight, ResultFromFurtherOut, OwnResult
<1>10. CASE UNCHANGED vars
  BY <1>10 DEF vars, ResultRight, ResultFromFurtherOut, OwnResult
<1> QED
  BY <1>1, <1>2, <1>3, <1>4, <1>5, <1>6, <1>7, <1>8, <1>9, <1>10 DEF Next

(* Which result a request ends with when several filters set one: those of    *)
(* SetsResult, RouterNotFound and handleInvocationPanic.                      *)
THEOREM ResultsFromFurtherOut == Spec => LastResultCounts
<1>1. Init => ResultRight
  BY Neighbours DEF Init, ResultRight, OwnResult
<1>2. IInv /\ ResultRight /\ [Next]_vars => ResultRight' /\ ResultFromFurtherOut
  BY ResultStep
<1> QED
  BY <1>1, <1>2, Invariance, PTL DEF Spec, LastResultCounts

-----------------------------------------------------------------------------
(* The configuration of the chains: theorems about FilterConfig, for every set *)
(* of controllers, actions and filters and every order of the calls.          *)

Elements == AnyFilter \cup {Unused}

(* A slice lies in an array of its own or another's, never the default's, and *)
(* nothing of the array that is not in use shows in it.                       *)
SliceRight(m, s) ==
  /\ s \in [array : Array \ {Filters}, len : Nat]
  /\ s.len <= Len(m[s.array]) /\ m[s.array] # << >>
  /\ \A i \in 1..s.len : m[s.array][i] \in AnyFilter

HeapRight(m, o) ==
  /\ m \in [Array -> Seq(Elements)] /\ m[Filters] = Default
  /\ DOMAIN o \subseteq Key /\ \A k \in DOMAIN o : SliceRight(m, o[k])
  /\ \A i \in Array \ {Filters} : m[i] # << >> => \E k \in DOMAIN o : o[k].array = i

(* Only chains of one controller, of the given ones, share an array.          *)
Apart(o, sharing) ==
  \A j, k \in DOMAIN o :
    j # k /\ o[j].array = o[k].array => ControllerOf(j) = ControllerOf(k) /\ ControllerOf(k) \in sharing

WantedRight == /\ DOMAIN wanted = DOMAIN overrides
               /\ \A k \in DOMAIN overrides : ControllerOf(k) \notin inherited => Holds(k)

FCInv ==
  /\ HeapRight(memory, overrides) /\ Apart(overrides, inherited) /\ WantedRight
  /\ calls \in 0 .. Calls /\ panicked \in BOOLEAN /\ inherited \subseteq Controller

-----------------------------------------------------------------------------
LEMMA Least ==
  ASSUME NEW S \in SUBSET Nat, S # {}
  PROVE  \E x \in S : \A y \in S : x <= y
<1>1. PICK x \in S : \A y \in S : <<y, x>> \notin OpToRel(<, Nat)
  BY WFMin, NatLessThanWellFounded, Zenon
<1>2. \A y \in S : x <= y
  <2> TAKE y \in S
  <2>1. <<y, x>> \notin {ss \in Nat \X Nat : ss[1] < ss[2]}
    BY <1>1, Zenon DEF OpToRel
  <2> QED
    BY <2>1
<1> QED
  BY <1>2

LEMMA KeyFacts ==
  /\ \A k \in Key : ControllerOf(k) \in Controller
  /\ \A k \in Controller : ControllerOf(k) = k
  /\ IsFiniteSet(Key) /\ Cardinality(Key) \in Nat
  /\ Array = 0 .. Cardinality(Key) + 2
  /\ Default \in Seq(AnyFilter) /\ Len(Default) \in Nat \ {0} /\ Filters = 0
<1>1. IsFiniteSet(Key) /\ Cardinality(Key) \in Nat
  BY KeyAssumption, FS_CardinalityType
<1> QED
  BY <1>1, OwnerAssumption, DefaultAssumption DEF ControllerOf, Key, Array, Filters

(* There is always an array nobody uses: one call needs two at most, and gives *)
(* up the one before.                                                         *)
LEMMA FreeFacts ==
  ASSUME NEW m, NEW o, DOMAIN o \subseteq Key, NEW extra \in Array,
         \A i \in Array \ {Filters, extra} : m[i] # << >> => \E k \in DOMAIN o : o[k].array = i
  PROVE  Free(m) \in Array \ {Filters} /\ m[Free(m)] = << >>
<1> DEFINE n == Cardinality(Key)
           A == (1 .. n + 2) \ {extra}
<1>1. n \in Nat /\ Array = 0 .. n + 2 /\ Filters = 0 /\ IsFiniteSet(DOMAIN o) /\ Cardinality(DOMAIN o) <= n
      /\ Cardinality(DOMAIN o) \in Nat
  BY KeyFacts, FS_Subset, FS_CardinalityType
<1>2. IsFiniteSet(A) /\ Cardinality(A) >= n + 1
  <2>1. IsFiniteSet(1 .. n + 2) /\ Cardinality(1 .. n + 2) = n + 2
    <3>1. n \in Nat /\ 1 \in Int /\ n + 2 \in Int /\ ~(1 > n + 2)
      BY <1>1
    <3>2. n + 2 - 1 + 1 = n + 2
      BY <1>1
    <3> HIDE DEF n
    <3> QED
      BY <3>1, <3>2, FS_Interval
  <2>2. /\ IsFiniteSet(A)
        /\ Cardinality(A) = IF extra \in 1 .. n + 2 THEN Cardinality(1 .. n + 2) - 1
                            ELSE Cardinality(1 .. n + 2)
    BY <2>1, FS_RemoveElement
  <2> HIDE DEF A
  <2> QED
    BY <2>1, <2>2, <1>1
<1>3. \E i \in A : m[i] = << >>
  <2> SUFFICES ASSUME \A i \in A : m[i] # << >> PROVE FALSE
    OBVIOUS
  <2> DEFINE f == [i \in A |-> CHOOSE k \in DOMAIN o : o[k].array = i]
  <2>1. \A i \in A : i \in Array \ {Filters, extra}
    BY <1>1
  <2>2. \A i \in A : f[i] \in DOMAIN o /\ o[f[i]].array = i
    BY <2>1
  <2>3. f \in [A -> DOMAIN o]
    BY <2>2
  <2>4. Cardinality(A) \in Nat
    BY <1>2, FS_CardinalityType
  <2> HIDE DEF f, A
  <2>5. \E x, y \in A : x # y /\ f[x] = f[y]
    BY <1>1, <1>2, <2>3, <2>4, FS_PigeonHole
  <2> QED
    BY <2>2, <2>5
<1>4. \E i \in Array : i # Filters /\ m[i] = << >>
  BY <1>1, <1>3
<1> QED
  BY <1>4 DEF Free

LEMMA FirstFacts ==
  ASSUME NEW fc \in Seq(AnyFilter), NEW f, Has(fc, f)
  PROVE  First(fc, f) \in 1 .. Len(fc)
<1> DEFINE S == {i \in DOMAIN fc : fc[i] = f}
<1>1. DOMAIN fc = 1 .. Len(fc) /\ Len(fc) \in Nat
  OBVIOUS
<1>2. S \in SUBSET Nat /\ S # {}
  BY <1>1 DEF Has
<1> HIDE DEF S
<1>3. PICK x \in S : \A y \in S : x <= y
  BY <1>2, Least
<1>4. x \in DOMAIN fc /\ fc[x] = f /\ \A j \in 1 .. (x - 1) : fc[j] # f
  BY <1>1, <1>3 DEF S
<1> QED
  BY <1>1, <1>4 DEF First

(* What a change keeps and appends.                                           *)
LEMMA ChangeFacts ==
  ASSUME NEW c \in Change, NEW fc \in Seq(AnyFilter), Concerns(c, fc), c.kind = "Add" => fc # << >>
  PROVE  /\ Kept(c, fc) \in 0 .. Len(fc)
         /\ Appended(c, fc) \in Seq(AnyFilter)
         /\ fc # << >>
<1> DEFINE F == First(fc, c.target)
<1>1. Len(fc) \in Nat /\ \A i \in Nat : i >= 1 => From(fc, i) \in Seq(AnyFilter)
  BY DEF From
<1>2. NewFilter \subseteq AnyFilter
  BY DEF AnyFilter
<1>3. CASE c.kind = "Add"
  <2>1. c.filter \in AnyFilter
    BY <1>2, <1>3 DEF Change
  <2>2. Kept(c, fc) = Len(fc) - 1 /\ Appended(c, fc) = <<c.filter>> \o From(fc, Len(fc))
    BY <1>3 DEF Kept, Appended
  <2> QED
    BY <1>1, <1>3, <2>1, <2>2
<1>4. CASE c.kind # "Add"
  <2>1. F \in 1 .. Len(fc)
    BY <1>4, FirstFacts DEF Concerns
  <2> HIDE DEF F
  <2>2. From(fc, F) \in Seq(AnyFilter) /\ From(fc, F + 1) \in Seq(AnyFilter)
    BY <1>1, <2>1
  <2>3. CASE c.kind = "Remove"
    BY <1>1, <2>1, <2>2, <2>3 DEF Kept, Appended, F
  <2>4. CASE c.kind = "Before"
    <3>1. c.filter \in AnyFilter
      BY <1>2, <2>4 DEF Change
    <3> QED
      BY <1>1, <2>1, <2>2, <2>4, <3>1 DEF Kept, Appended, F
  <2>5. CASE c.kind = "After"
    <3>1. c.filter \in AnyFilter
      BY <1>2, <2>5 DEF Change
    <3> QED
      BY <1>1, <2>1, <2>2, <2>5, <3>1 DEF Kept, Appended, F
  <2> QED
    BY <1>4, <2>3, <2>4, <2>5 DEF Change
<1> QED
  BY <1>3, <1>4
(* append keeps what it is told to keep and appends, in place or in a new     *)
(* array.                                                                     *)
InPlace(m, s, a, n) ==
  /\ a.slice.array = s.array
  /\ \A i \in Array \ {s.array} : a.memory[i] = m[i]
  /\ Len(a.memory[s.array]) = Len(m[s.array])
  /\ \A i \in (n + 1) .. Len(m[s.array]) : a.memory[s.array][i] = m[s.array][i]
Moved(m, a) ==
  /\ a.slice.array = Free(m)
  /\ \A i \in Array \ {Free(m)} : a.memory[i] = m[i]

LEMMA AppendFacts ==
  ASSUME NEW m \in [Array -> Seq(Elements)], NEW s, SliceRight(m, s),
         Free(m) \in Array \ {Filters},
         NEW k \in 0 .. s.len, NEW fs \in Seq(AnyFilter),
         NEW a, a = Append_(m, s, k, fs)
  PROVE  /\ a.memory \in [Array -> Seq(Elements)]
         /\ a.slice \in [array : Array \ {Filters}, len : Nat] /\ a.slice.len = k + Len(fs)
         /\ k + Len(fs) <= Len(a.memory[a.slice.array])
         /\ a.memory[a.slice.array] # << >>
         /\ Content(a.memory, a.slice) = SubSeq(Content(m, s), 1, k) \o fs
         /\ InPlace(m, s, a, k + Len(fs)) \/ Moved(m, a)
<1> DEFINE n == k + Len(fs)
           old == m[s.array]
           front == SubSeq(old, 1, k)
           all == front \o fs
<1>1. /\ s.array \in Array \ {Filters} /\ s.len \in Nat /\ k \in Nat /\ n \in Nat /\ Len(fs) \in Nat
      /\ old \in Seq(Elements) /\ Len(old) \in Nat /\ s.len <= Len(old) /\ old # << >>
      /\ \A i \in 1 .. k : old[i] \in AnyFilter
  BY DEF SliceRight
<1>2. front \in Seq(AnyFilter) /\ Len(front) = k
  <2>1. front \in Seq(Elements) /\ Len(front) = k /\ \A i \in 1 .. k : front[i] = old[i]
    BY <1>1, SubSeqProperties
  <2> QED
    BY <1>1, <2>1
<1>3. all \in Seq(AnyFilter) /\ Len(all) = n
  BY <1>1, <1>2, ConcatProperties
<1>4. SubSeq(Content(m, s), 1, k) = front
  <2>1. /\ Content(m, s) \in Seq(AnyFilter) /\ Len(Content(m, s)) = s.len
        /\ \A i \in 1 .. s.len : Content(m, s)[i] = old[i]
    BY <1>1, SubSeqProperties DEF SliceRight, Content
  <2> DEFINE C == Content(m, s)
  <2> HIDE DEF C
  <2>2. /\ SubSeq(C, 1, k) \in Seq(AnyFilter) /\ Len(SubSeq(C, 1, k)) = k
        /\ \A i \in 1 .. k : SubSeq(C, 1, k)[i] = old[i]
    BY <1>1, <2>1 DEF C
  <2>3. \A i \in 1 .. k : front[i] = old[i]
    BY <1>1
  <2> DEFINE cut == SubSeq(C, 1, k)
  <2>4. /\ cut \in Seq(AnyFilter) /\ front \in Seq(AnyFilter) /\ Len(cut) = k /\ Len(front) = k
        /\ \A i \in 1 .. k : cut[i] = front[i]
    BY <1>2, <2>2, <2>3
  <2> HIDE DEF front, cut
  <2>5. cut = front
    BY <2>4, SeqEqual
  <2> QED
    BY <2>5 DEF C, cut
<1>5. AnyFilter \subseteq Elements
  BY DEF Elements
<1>6. CASE n <= Len(old)
  <2> DEFINE rest == SubSeq(old, n + 1, Len(old))
             array == all \o rest
  <2>1. a = [memory |-> [m EXCEPT ![s.array] = array], slice |-> Slice(s.array, n)]
    BY <1>6 DEF Append_
  <2> HIDE DEF n, all
  <2>2. rest \in Seq(Elements) /\ Len(rest) = Len(old) - n
        /\ \A i \in (n + 1) .. Len(old) : rest[i - n] = old[i]
    <3>1. \A i \in (n + 1) .. Len(old) : old[i] \in Elements
      BY <1>1
    <3> HIDE DEF old
    <3>2. /\ rest \in Seq(Elements)
          /\ Len(rest) = IF n + 1 <= Len(old) THEN Len(old) - (n + 1) + 1 ELSE 0
          /\ \A i \in 1 .. Len(old) - (n + 1) + 1 : rest[i] = old[(n + 1) + i - 1]
      BY <1>1, <3>1, SubSeqProperties
    <3>3. ASSUME NEW i \in (n + 1) .. Len(old) PROVE rest[i - n] = old[i]
      <4>1. i - n \in 1 .. Len(old) - (n + 1) + 1 /\ (n + 1) + (i - n) - 1 = i
        BY <1>1
      <4> QED
        BY <3>2, <4>1
    <3> QED
      BY <1>1, <1>6, <3>2, <3>3
  <2> HIDE DEF rest
  <2>3. all \in Seq(Elements)
    BY <1>3, <1>5
  <2>4. /\ array \in Seq(Elements) /\ Len(array) = Len(old)
        /\ \A i \in 1 .. n : array[i] = all[i]
        /\ \A i \in (n + 1) .. Len(old) : array[i] = old[i]
    <3> HIDE DEF old
    <3>1. /\ array \in Seq(Elements) /\ Len(array) = Len(all) + Len(rest)
          /\ \A i \in 1 .. Len(all) + Len(rest) :
               array[i] = IF i <= Len(all) THEN all[i] ELSE rest[i - Len(all)]
      BY <2>2, <2>3, ConcatProperties
    <3> HIDE DEF array
    <3>2. Len(all) = n /\ Len(all) + Len(rest) = Len(old)
      BY <1>1, <1>3, <1>6, <2>2
    <3>3. \A i \in 1 .. n : array[i] = all[i]
      BY <1>1, <1>6, <3>1, <3>2
    <3>4. ASSUME NEW i \in (n + 1) .. Len(old) PROVE array[i] = old[i]
      <4>1. i \in 1 .. Len(all) + Len(rest) /\ ~(i <= Len(all))
        BY <1>1, <3>2
      <4>2. array[i] = rest[i - n]
        BY <3>1, <3>2, <4>1
      <4> QED
        BY <2>2, <4>2
    <3> QED
      BY <3>1, <3>2, <3>3, <3>4
  <2>5. SubSeq(array, 1, n) = all
    <3> HIDE DEF array
    <3>1. /\ SubSeq(array, 1, n) \in Seq(Elements) /\ Len(SubSeq(array, 1, n)) = n
          /\ \A i \in 1 .. n : SubSeq(array, 1, n)[i] = all[i]
      BY <1>1, <1>6, <2>4
    <3> QED
      BY <1>3, <2>3, <3>1, SeqEqual
  <2> HIDE DEF array, old
  <2>6. /\ a.memory = [m EXCEPT ![s.array] = array]
        /\ a.slice.array = s.array /\ a.slice.len = n /\ a.slice = [array |-> s.array, len |-> n]
    BY <2>1 DEF Slice
  <2>7. a.memory[s.array] = array /\ a.memory \in [Array -> Seq(Elements)]
        /\ \A i \in Array \ {s.array} : a.memory[i] = m[i]
    BY <1>1, <2>4, <2>6
  <2>8. Content(a.memory, a.slice) = all
    BY <2>5, <2>6, <2>7 DEF Content
  <2>9. InPlace(m, s, a, n)
    BY <2>4, <2>6, <2>7 DEF InPlace, old
  <2>10. array # << >> 
    BY <1>1, <2>4 DEF old
  <2> QED
    BY <1>1, <1>4, <1>6, <2>4, <2>6, <2>7, <2>8, <2>9, <2>10 DEF all, n, old
<1>7. CASE ~(n <= Len(old))
  <2> DEFINE g == Grown(n, Len(old))
             tail == [i \in 1 .. (g - n) |-> Unused]
             array == all \o tail
             f == Free(m)
  <2>1. a = [memory |-> [m EXCEPT ![f] = array], slice |-> [array |-> f, len |-> n]]
    BY <1>7 DEF Append_, Allocate, Slice
  <2> HIDE DEF n
  <2>2. g \in Nat /\ g >= n
    <3>1. \A x \in Nat : SizeClass(x) \in Nat /\ SizeClass(x) >= x
      BY DEF SizeClass
    <3> DEFINE x == IF n > 2 * Len(old) THEN n ELSE 2 * Len(old)
    <3>2. x \in Nat /\ x >= n
      BY <1>1
    <3>3. g = SizeClass(x)
      BY DEF Grown
    <3> HIDE DEF x, g
    <3> QED
      BY <1>1, <3>1, <3>2, <3>3
  <2> HIDE DEF g
  <2>3. tail \in Seq(Elements) /\ Len(tail) = g - n
    <3>1. tail \in [1 .. (g - n) -> Elements] /\ g - n \in Nat
      BY <1>1, <2>2 DEF Elements
    <3> HIDE DEF tail
    <3> QED
      BY <3>1
  <2> HIDE DEF tail, all
  <2>4. all \in Seq(Elements)
    BY <1>3, <1>5
  <2>5. /\ array \in Seq(Elements) /\ Len(array) = n + (g - n)
        /\ \A i \in 1 .. n : array[i] = all[i]
    <3>1. /\ array \in Seq(Elements) /\ Len(array) = Len(all) + Len(tail)
          /\ \A i \in 1 .. Len(all) + Len(tail) :
               array[i] = IF i <= Len(all) THEN all[i] ELSE tail[i - Len(all)]
      BY <2>3, <2>4, ConcatProperties
    <3> HIDE DEF array
    <3> QED
      BY <1>1, <1>3, <2>2, <2>3, <3>1
  <2>6. SubSeq(array, 1, n) = all
    <3> HIDE DEF array
    <3>1. /\ SubSeq(array, 1, n) \in Seq(Elements) /\ Len(SubSeq(array, 1, n)) = n
          /\ \A i \in 1 .. n : SubSeq(array, 1, n)[i] = all[i]
      BY <1>1, <2>2, <2>5
    <3> QED
      BY <1>3, <2>4, <3>1, SeqEqual
  <2>7. array # << >> /\ n <= Len(array)
    <3>1. Len(array) > 0
      BY <1>1, <1>7, <2>2, <2>5
    <3> HIDE DEF array
    <3> QED
      BY <1>1, <2>2, <2>5, <3>1
  <2> HIDE DEF array, old, f
  <2>8. /\ a.memory = [m EXCEPT ![f] = array]
        /\ a.slice.array = f /\ a.slice.len = n /\ a.slice = [array |-> f, len |-> n]
    BY <2>1
  <2>9. a.memory[f] = array /\ a.memory \in [Array -> Seq(Elements)]
        /\ \A i \in Array \ {f} : a.memory[i] = m[i]
    BY <1>1, <2>5, <2>8 DEF f
  <2>10. Content(a.memory, a.slice) = all
    BY <2>6, <2>8, <2>9 DEF Content
  <2>11. Moved(m, a)
    BY <2>8, <2>9 DEF Moved, f
  <2> QED
    BY <1>1, <1>4, <2>7, <2>8, <2>9, <2>10, <2>11 DEF all, n, f
<1> QED
  BY <1>6, <1>7
LEMMA ContentFacts ==
  ASSUME NEW m \in [Array -> Seq(Elements)], NEW s, SliceRight(m, s)
  PROVE  /\ Content(m, s) \in Seq(AnyFilter) /\ Len(Content(m, s)) = s.len /\ s.len \in Nat
         /\ s.array \in Array \ {Filters}
         /\ \A i \in 1 .. s.len : Content(m, s)[i] = m[s.array][i]
<1>1. /\ s.array \in Array \ {Filters} /\ s.len \in Nat /\ m[s.array] \in Seq(Elements)
      /\ \A i \in 1 .. s.len : m[s.array][i] \in AnyFilter
  BY DEF SliceRight
<1>2. /\ SubSeq(m[s.array], 1, s.len) \in Seq(AnyFilter)
      /\ Len(SubSeq(m[s.array], 1, s.len)) = IF 1 <= s.len THEN s.len - 1 + 1 ELSE 0
      /\ \A i \in 1 .. s.len - 1 + 1 : SubSeq(m[s.array], 1, s.len)[i] = m[s.array][1 + i - 1]
  BY <1>1, SubSeqProperties
<1> QED
  BY <1>1, <1>2 DEF Content

(* A change to a slice is the change of its content.                          *)
LEMMA ChangedFacts ==
  ASSUME NEW m \in [Array -> Seq(Elements)], NEW s, SliceRight(m, s),
         Free(m) \in Array \ {Filters}, NEW c \in Change, c.kind = "Add" => s.len # 0
  PROVE  LET a == Changed(c, m, s)
         IN  /\ a.memory \in [Array -> Seq(Elements)]
             /\ SliceRight(a.memory, a.slice)
             /\ Content(a.memory, a.slice) = Value(c, Content(m, s))
             /\ InPlace(m, s, a, a.slice.len) \/ Moved(m, a)
<1> DEFINE fc == Content(m, s)
           a == Changed(c, m, s)
<1>1. /\ fc \in Seq(AnyFilter) /\ Len(fc) = s.len /\ s.len \in Nat /\ s.array \in Array \ {Filters}
      /\ \A i \in 1 .. s.len : fc[i] = m[s.array][i]
  BY ContentFacts
<1>2. CASE Concerns(c, fc)
  <2> DEFINE k  == Kept(c, fc)
             fs == Appended(c, fc)
  <2>0. c.kind = "Add" => fc # << >>
    <3> HIDE DEF fc
    <3> QED
      BY <1>1
  <2>1. k \in 0 .. s.len /\ fs \in Seq(AnyFilter) /\ fc # << >>
    <3> HIDE DEF fc
    <3> QED
      BY <1>1, <1>2, <2>0, ChangeFacts
  <2>2. a = Append_(m, s, k, fs)
    BY <1>2 DEF Changed
  <2>3. Value(c, fc) = SubSeq(fc, 1, k) \o fs
    BY <1>2, <2>1 DEF Value
  <2> HIDE DEF fc, k, fs
  <2>4. k + Len(fs) >= 0
    BY <1>1, <2>1
  <2> HIDE DEF a
  <2>5. /\ a.memory \in [Array -> Seq(Elements)]
        /\ a.slice \in [array : Array \ {Filters}, len : Nat] /\ a.slice.len = k + Len(fs)
        /\ k + Len(fs) <= Len(a.memory[a.slice.array])
        /\ a.memory[a.slice.array] # << >>
        /\ Content(a.memory, a.slice) = SubSeq(Content(m, s), 1, k) \o fs
        /\ InPlace(m, s, a, k + Len(fs)) \/ Moved(m, a)
    <3>1. k \in 0 .. s.len /\ fs \in Seq(AnyFilter) /\ SliceRight(m, s) /\ Free(m) \in Array \ {Filters}
      BY <2>1
    <3> QED
      <4>1. \A aa : aa = Append_(m, s, k, fs) =>
              /\ aa.memory \in [Array -> Seq(Elements)]
              /\ aa.slice \in [array : Array \ {Filters}, len : Nat] /\ aa.slice.len = k + Len(fs)
              /\ k + Len(fs) <= Len(aa.memory[aa.slice.array])
              /\ aa.memory[aa.slice.array] # << >>
              /\ Content(aa.memory, aa.slice) = SubSeq(Content(m, s), 1, k) \o fs
              /\ InPlace(m, s, aa, k + Len(fs)) \/ Moved(m, aa)
        BY <3>1, AppendFacts, Zenon
      <4> QED
        BY <2>2, <4>1
  <2>6. SubSeq(fc, 1, k) \o fs \in Seq(AnyFilter) /\ Len(SubSeq(fc, 1, k) \o fs) = a.slice.len
    <3>1. SubSeq(fc, 1, k) \in Seq(AnyFilter) /\ Len(SubSeq(fc, 1, k)) = k
      BY <1>1, <2>1
    <3> QED
      BY <2>1, <2>5, <3>1
  <2>7. \A i \in 1 .. a.slice.len : a.memory[a.slice.array][i] \in AnyFilter
    <3> DEFINE new == Content(a.memory, a.slice)
    <3>1. \A i \in 1 .. a.slice.len : new[i] = a.memory[a.slice.array][i]
      <4>1. a.memory[a.slice.array] \in Seq(Elements) /\ a.slice.len <= Len(a.memory[a.slice.array])
            /\ a.slice.len \in Nat
        BY <2>5
      <4> QED
        BY <4>1 DEF Content
    <3>2. new \in Seq(AnyFilter) /\ Len(new) = a.slice.len
      BY <2>5, <2>6 DEF fc
    <3> HIDE DEF new
    <3> QED
      BY <3>1, <3>2
  <2> QED
    <3>1. a.slice.len <= Len(a.memory[a.slice.array])
      BY <2>5
    <3>2. SliceRight(a.memory, a.slice)
      BY <2>5, <2>7, <3>1 DEF SliceRight
    <3>3. Content(a.memory, a.slice) = Value(c, Content(m, s))
      BY <2>3, <2>5 DEF fc
    <3>4. InPlace(m, s, a, a.slice.len) \/ Moved(m, a)
      BY <2>5
    <3> QED
      BY <2>5, <3>2, <3>3, <3>4 DEF a
<1>3. CASE ~Concerns(c, fc)
  <2>1. a = [memory |-> m, slice |-> s]
    BY <1>3 DEF Changed
  <2>2. Value(c, fc) = fc
    BY <1>3 DEF Value
  <2> QED
    BY <1>1, <2>1, <2>2 DEF InPlace
<1> QED
  BY <1>2, <1>3

(* The chain a round starts from is nobody else's but a sharer's.             *)
LEMMA GetChainFacts ==
  ASSUME NEW m, NEW o, HeapRight(m, o), NEW sharing, Apart(o, sharing), NEW k \in Key,
         k \notin DOMAIN o /\ Configured(o, k) # {} => ControllerOf(k) \in sharing
  PROVE  LET a == GetChain(m, o, k)
         IN  /\ a.memory \in [Array -> Seq(Elements)] /\ a.memory[Filters] = Default
             /\ SliceRight(a.memory, a.slice)
             /\ Free(a.memory) \in Array \ {Filters} /\ a.memory[Free(a.memory)] = << >>
             /\ \A j \in DOMAIN o : a.memory[o[j].array] = m[o[j].array]
             /\ \A i \in Array \ {Filters, a.slice.array} : a.memory[i] = m[i]
             /\ \A j \in DOMAIN o : j # k /\ o[j].array = a.slice.array =>
                  ControllerOf(j) = ControllerOf(k) /\ ControllerOf(k) \in sharing
             /\ Content(a.memory, a.slice) =
                  IF Configured(o, k) # {} THEN Content(m, Nearest(o, k)) ELSE Default
<1> DEFINE a == GetChain(m, o, k)
<1>1. /\ m \in [Array -> Seq(Elements)] /\ m[Filters] = Default /\ Filters \in Array
      /\ \A j \in DOMAIN o : SliceRight(m, o[j]) /\ o[j].array \in Array \ {Filters}
      /\ \A i \in Array \ {Filters} : m[i] # << >> => \E j \in DOMAIN o : o[j].array = i
  BY KeyFacts, ContentFacts DEF HeapRight
<1>2. DOMAIN o \subseteq Key
  BY DEF HeapRight
<1>5. Free(m) \in Array \ {Filters} /\ m[Free(m)] = << >>
  <2>1. \A i \in Array \ {Filters, Filters} : m[i] # << >> => \E j \in DOMAIN o : o[j].array = i
    BY <1>1
  <2>2. \A extra \in Array :
          (\A i \in Array \ {Filters, extra} : m[i] # << >> => \E j \in DOMAIN o : o[j].array = i)
          => Free(m) \in Array \ {Filters} /\ m[Free(m)] = << >>
    BY <1>2, FreeFacts
  <2>3. Filters \in Array
    BY <1>1
  <2> QED
    BY ONLY <2>1, <2>2, <2>3
<1>3. CASE Configured(o, k) # {}
  <2>1. a = [memory |-> m, slice |-> Nearest(o, k)]
    BY <1>3 DEF GetChain
  <2>2. PICK j \in DOMAIN o : /\ Nearest(o, k) = o[j] /\ j \in {k, ControllerOf(k)}
                              /\ k \in DOMAIN o => j = k
    BY <1>3 DEF Configured, Nearest
  <2>4. ASSUME NEW i \in DOMAIN o, i # k, o[i].array = o[j].array
        PROVE  ControllerOf(i) = ControllerOf(k) /\ ControllerOf(k) \in sharing
    <3>1. ControllerOf(j) = ControllerOf(k)
      BY <2>2, KeyFacts
    <3>2. CASE i = j
      BY <1>3, <2>2, <2>4, <3>1, <3>2
    <3>3. CASE i # j
      BY <2>4, <3>1, <3>3 DEF Apart
    <3> QED
      BY <3>2, <3>3
  <2> QED
    BY <1>1, <1>3, <1>5, <2>1, <2>2, <2>4
<1>4. CASE Configured(o, k) = {}
  <2> DEFINE f == Free(m)
             mm == [m EXCEPT ![f] = Default]
  <2>1. a = [memory |-> mm, slice |-> [array |-> f, len |-> Len(Default)]]
    BY <1>4 DEF GetChain, Allocate, Slice
  <2>2. f \in Array \ {Filters} /\ m[f] = << >>
    BY <1>5
  <2>3. /\ Default \in Seq(AnyFilter) /\ Len(Default) \in Nat \ {0} /\ Default \in Seq(Elements)
        /\ \A i \in 1 .. Len(Default) : Default[i] \in AnyFilter
        /\ SubSeq(Default, 1, Len(Default)) = Default /\ Default # << >>
    <3>1. AnyFilter \subseteq Elements
      BY DEF Elements
    <3> QED
      BY <3>1, KeyFacts, SubSeqFull
  <2>4. mm \in [Array -> Seq(Elements)] /\ mm[f] = Default /\ \A i \in Array \ {f} : mm[i] = m[i]
    BY <1>1, <2>2, <2>3
  <2> HIDE DEF mm, f
  <2>5. \A j \in DOMAIN o : o[j].array # f
    BY <1>1, <2>2 DEF SliceRight
  <2>6. \A i \in Array \ {Filters, f} : mm[i] # << >> => \E j \in DOMAIN o : o[j].array = i
    BY <1>1, <2>4
  <2>7. Free(mm) \in Array \ {Filters} /\ mm[Free(mm)] = << >>
    BY <1>2, <2>2, <2>6, FreeFacts
  <2>8. SliceRight(mm, [array |-> f, len |-> Len(Default)])
    BY <2>2, <2>3, <2>4 DEF SliceRight
  <2>9. Content(mm, [array |-> f, len |-> Len(Default)]) = Default
    BY <2>3, <2>4 DEF Content
  <2> HIDE DEF a
  <2>10. a.memory = mm /\ a.slice = [array |-> f, len |-> Len(Default)] /\ a.slice.array = f
    BY <2>1
  <2>11. /\ a.memory \in [Array -> Seq(Elements)] /\ a.memory[Filters] = Default
         /\ \A j \in DOMAIN o : a.memory[o[j].array] = m[o[j].array]
         /\ \A i \in Array \ {Filters, a.slice.array} : a.memory[i] = m[i]
    BY <1>1, <2>2, <2>4, <2>5, <2>10
  <2>12. \A j \in DOMAIN o : j # k /\ o[j].array = a.slice.array =>
           ControllerOf(j) = ControllerOf(k) /\ ControllerOf(k) \in sharing
    BY <2>5, <2>10
  <2> QED
    BY <1>4, <2>7, <2>8, <2>9, <2>10, <2>11, <2>12 DEF a
<1> QED
  BY <1>3, <1>4

(* One round.                                                                 *)
LEMMA AppliedFacts ==
  ASSUME NEW m, NEW o, HeapRight(m, o), NEW sharing, Apart(o, sharing), NEW k \in Key, NEW c \in Change,
         k \notin DOMAIN o /\ Configured(o, k) # {} => ControllerOf(k) \in sharing,
         c.kind = "Add" => GetChain(m, o, k).slice.len # 0,
         NEW st, st.memory = m, st.overrides = o,
         NEW r, r = Applied(c, st, k)
  PROVE  /\ HeapRight(r.memory, r.overrides) /\ Apart(r.overrides, sharing)
         /\ DOMAIN r.overrides = DOMAIN o \cup {k}
         /\ Content(r.memory, r.overrides[k]) =
              Value(c, IF Configured(o, k) # {} THEN Content(m, Nearest(o, k)) ELSE Default)
         /\ \A j \in DOMAIN o \ {k} : r.overrides[j] = o[j]
         /\ \A j \in DOMAIN o \ {k} : ControllerOf(j) \notin sharing =>
              Content(r.memory, o[j]) = Content(m, o[j])
<1> DEFINE chain == GetChain(m, o, k)
           s == chain.slice
           cm == chain.memory
           a == Changed(c, cm, s)
           am == a.memory
           oo == [j \in DOMAIN o \cup {k} |-> IF j = k THEN a.slice ELSE o[j]]
           rm == [i \in Array |-> IF i = Filters \/ \E j \in DOMAIN oo : oo[j].array = i THEN am[i] ELSE << >>]
<1>2. r = [memory |-> rm, overrides |-> oo]
  BY DEF Applied, Collected
<1>3. /\ cm \in [Array -> Seq(Elements)] /\ cm[Filters] = Default
      /\ SliceRight(cm, s)
      /\ Free(cm) \in Array \ {Filters} /\ cm[Free(cm)] = << >>
      /\ \A j \in DOMAIN o : cm[o[j].array] = m[o[j].array]
      /\ \A i \in Array \ {Filters, s.array} : cm[i] = m[i]
      /\ \A j \in DOMAIN o : j # k /\ o[j].array = s.array =>
           ControllerOf(j) = ControllerOf(k) /\ ControllerOf(k) \in sharing
      /\ Content(cm, s) = IF Configured(o, k) # {} THEN Content(m, Nearest(o, k)) ELSE Default
  BY GetChainFacts
<1> HIDE DEF chain
<1>4. /\ am \in [Array -> Seq(Elements)]
      /\ SliceRight(am, a.slice)
      /\ Content(am, a.slice) = Value(c, Content(cm, s))
      /\ InPlace(cm, s, a, a.slice.len) \/ Moved(cm, a)
  <2>1. c.kind = "Add" => s.len # 0
    BY DEF chain
  <2> QED
    BY <1>3, <2>1, ChangedFacts
<1> HIDE DEF a, oo, rm
<1>5. /\ DOMAIN oo = DOMAIN o \cup {k} /\ oo[k] = a.slice
      /\ \A j \in DOMAIN o \ {k} : oo[j] = o[j]
  BY DEF oo
<1>6. /\ \A j \in DOMAIN o : SliceRight(m, o[j]) /\ o[j].array \in Array \ {Filters}
                             /\ o[j].len \in Nat
      /\ m \in [Array -> Seq(Elements)] /\ m[Filters] = Default /\ DOMAIN o \subseteq Key
  BY DEF HeapRight, SliceRight
<1>7. /\ s.array \in Array \ {Filters} /\ s.len \in Nat
      /\ a.slice.array \in Array \ {Filters} /\ a.slice.len \in Nat
      /\ am[a.slice.array] # << >>
      /\ \A i \in 1 .. a.slice.len : am[a.slice.array][i] \in AnyFilter
  BY <1>3, <1>4 DEF SliceRight
<1>8. ASSUME NEW j \in DOMAIN o
      PROVE  /\ o[j].array # a.slice.array \/ a.slice.array = s.array
             /\ o[j].array # s.array => am[o[j].array] = m[o[j].array]
             /\ SliceRight(am, o[j])
  <2> DEFINE i == o[j].array
             n == o[j].len
  <2>1. /\ cm[i] = m[i] /\ m[i] # << >> /\ i \in Array \ {Filters} /\ n \in Nat
        /\ n <= Len(m[i]) /\ o[j] \in [array : Array \ {Filters}, len : Nat]
        /\ \A x \in 1 .. n : m[i][x] \in AnyFilter
    BY <1>3, <1>6 DEF SliceRight
  <2>2. CASE Moved(cm, a)
    <3>1. i # Free(cm) /\ am[i] = m[i] /\ a.slice.array = Free(cm)
      BY <1>3, <2>1, <2>2 DEF Moved
    <3>2. SliceRight(am, o[j])
      BY <2>1, <3>1 DEF SliceRight
    <3> QED
      BY <3>1, <3>2
  <2>3. CASE InPlace(cm, s, a, a.slice.len)
    <3>1. a.slice.array = s.array
      BY <2>3 DEF InPlace
    <3>2. CASE i # s.array
      <4>1. am[i] = m[i]
        BY <2>1, <2>3, <3>2 DEF InPlace
      <4>2. SliceRight(am, o[j])
        BY <2>1, <4>1 DEF SliceRight
      <4> QED
        BY <3>1, <3>2, <4>1, <4>2
    <3>3. CASE i = s.array
      <4>1. /\ Len(am[i]) = Len(m[i])
            /\ \A x \in (a.slice.len + 1) .. Len(m[i]) : am[i][x] = m[i][x]
            /\ am[i] # << >>
            /\ \A x \in 1 .. a.slice.len : am[i][x] \in AnyFilter
        BY <1>7, <2>1, <2>3, <3>1, <3>3 DEF InPlace
      <4>2. Len(m[i]) \in Nat
        BY <1>6, <2>1
      <4>3. ASSUME NEW x \in 1 .. n PROVE am[i][x] \in AnyFilter
        <5> HIDE DEF i, n
        <5>1. x \in 1 .. a.slice.len \/ x \in (a.slice.len + 1) .. Len(m[i])
          BY <1>7, <2>1, <4>2
        <5> QED
          BY <2>1, <4>1, <5>1
      <4>4. SliceRight(am, o[j])
        BY <2>1, <4>1, <4>3 DEF SliceRight
      <4> QED
        BY <3>1, <3>3, <4>4
    <3> QED
      BY <3>2, <3>3
  <2> QED
    BY <1>4, <2>2, <2>3
<1>9. /\ rm \in [Array -> Seq(Elements)] /\ rm[Filters] = am[Filters]
      /\ \A j \in DOMAIN oo : oo[j].array \in Array => rm[oo[j].array] = am[oo[j].array]
      /\ \A i \in Array \ {Filters} : rm[i] # << >> => \E j \in DOMAIN oo : oo[j].array = i
  <2>1. Filters \in Array /\ << >> \in Seq(Elements)
    BY KeyFacts
  <2> QED
    BY <1>4, <2>1 DEF rm
<1>10. am[Filters] = Default
  <2>1. Filters \in Array
    BY KeyFacts
  <2> QED
    BY <1>3, <1>4, <1>7, <2>1 DEF InPlace, Moved
<1>11. ASSUME NEW j \in DOMAIN oo
       PROVE  /\ SliceRight(rm, oo[j]) /\ rm[oo[j].array] = am[oo[j].array]
  <2>1. SliceRight(am, oo[j])
    BY <1>4, <1>5, <1>8
  <2>2. oo[j].array \in Array
    BY <2>1 DEF SliceRight
  <2>3. rm[oo[j].array] = am[oo[j].array]
    BY <1>9, <2>2
  <2> QED
    BY <2>1, <2>3 DEF SliceRight
<1>12. HeapRight(rm, oo)
  BY <1>5, <1>6, <1>9, <1>10, <1>11 DEF HeapRight
<1>13. Apart(oo, sharing)
  <2> SUFFICES ASSUME NEW j \in DOMAIN oo, NEW i \in DOMAIN oo, j # i, oo[j].array = oo[i].array
               PROVE  ControllerOf(j) = ControllerOf(i) /\ ControllerOf(i) \in sharing
    BY DEF Apart
  <2>1. CASE j # k /\ i # k
    BY <1>5, <2>1 DEF Apart
  <2>2. CASE j = k
    BY <1>3, <1>5, <1>8, <2>2
  <2>3. CASE i = k
    BY <1>3, <1>5, <1>8, <2>3
  <2> QED
    BY <2>1, <2>2, <2>3
<1>14. Content(rm, oo[k]) = Value(c, Content(cm, s))
  BY <1>4, <1>5, <1>11 DEF Content
<1>15. ASSUME NEW j \in DOMAIN o \ {k}, ControllerOf(j) \notin sharing
       PROVE  Content(rm, o[j]) = Content(m, o[j])
  <2>1. o[j].array # s.array
    BY <1>3, <1>15
  <2>2. rm[o[j].array] = m[o[j].array]
    BY <1>5, <1>8, <1>11, <2>1
  <2> QED
    BY <2>2 DEF Content
<1>16. r.memory = rm /\ r.overrides = oo
  BY <1>2
<1> HIDE DEF cm, s
<1>17. Content(rm, oo[k]) = Value(c, IF Configured(o, k) # {} THEN Content(m, Nearest(o, k)) ELSE Default)
  BY <1>3, <1>14
<1> QED
  BY <1>5, <1>12, <1>13, <1>15, <1>16, <1>17

-----------------------------------------------------------------------------
(* The rounds of a call.                                                      *)
LEMMA CourseFacts ==
  ASSUME NEW c, NEW order, Len(order) \in Nat
  PROVE  /\ Course(c, order)[0] = [memory |-> memory, overrides |-> overrides]
         /\ \A n \in 1 .. Len(order) :
              Course(c, order)[n] = Applied(c, Course(c, order)[n - 1], order[n])
<1> DEFINE start == [memory |-> memory, overrides |-> overrides]
           L == Len(order)
           Is(f, m) == f = [n \in 0 .. m |-> IF n = 0 THEN start ELSE Applied(c, f[n - 1], order[n])]
           S == {m \in 0 .. L : ~ \E f : Is(f, m)}
<1> HIDE DEF start
<1>1. S = {}
  <2> SUFFICES ASSUME S # {} PROVE FALSE
    OBVIOUS
  <2>1. S \in SUBSET Nat
    OBVIOUS
  <2>2. PICK x \in S : \A y \in S : x <= y
    <3> HIDE DEF S
    <3> QED
      BY <2>1, Least
  <2>3. x \in 0 .. L /\ ~ \E f : Is(f, x)
    BY <2>2
  <2>4. CASE x = 0
    <3>1. Is([n \in 0 .. 0 |-> start], 0)
      OBVIOUS
    <3> QED
      BY <2>3, <2>4, <3>1
  <2>5. CASE x # 0
    <3>1. x - 1 \in 0 .. L /\ x - 1 \notin S
      <4>1. x - 1 \in 0 .. L /\ ~(x <= x - 1)
        BY <2>3, <2>5
      <4> QED
        BY <2>2, <4>1
    <3>2. PICK f : Is(f, x - 1)
      BY <3>1
    <3> DEFINE g == [n \in 0 .. x |-> IF n = x THEN Applied(c, f[x - 1], order[x]) ELSE f[n]]
    <3>3. ASSUME NEW n \in 0 .. x
          PROVE  g[n] = IF n = 0 THEN start ELSE Applied(c, g[n - 1], order[n])
      <4>1. CASE n = x
        <5>1. n - 1 \in 0 .. x /\ n - 1 # x /\ n # 0
          BY <2>3, <2>5, <4>1
        <5>2. g[n - 1] = f[x - 1]
          BY <4>1, <5>1
        <5> QED
          BY <4>1, <5>1, <5>2
      <4>2. CASE n # x /\ n = 0
        <5>1. 0 \in 0 .. x - 1
          BY <2>3, <2>5
        <5> QED
          BY <3>2, <4>2, <5>1
      <4>3. CASE n # x /\ n # 0
        <5>1. n \in 0 .. x - 1 /\ n - 1 \in 0 .. x /\ n - 1 # x
          BY <2>3, <2>5, <4>3
        <5>2. g[n] = f[n] /\ g[n - 1] = f[n - 1]
          BY <4>3, <5>1
        <5>3. f[n] = Applied(c, f[n - 1], order[n])
          BY <3>2, <4>3, <5>1
        <5> QED
          BY <4>3, <5>2, <5>3
      <4> QED
        BY <4>1, <4>2, <4>3
    <3>4. DOMAIN g = 0 .. x
      OBVIOUS
    <3> HIDE DEF g
    <3>5. g = [n \in 0 .. x |-> g[n]]
      BY <3>4 DEF g
    <3>6. Is(g, x)
      BY <3>3, <3>5
    <3> QED
      BY <2>3, <3>6
  <2> QED
    BY <2>4, <2>5
<1>2. \E f : Is(f, L)
  BY <1>1
<1>3. Course(c, order) = CHOOSE f : Is(f, L)
  BY DEF Course, start
<1>4. Is(Course(c, order), L)
  <2> HIDE DEF Is
  <2> QED
    BY <1>2, <1>3
<1> HIDE DEF L
<1>5. L \in Nat
  BY DEF L
<1> DEFINE C == Course(c, order)
<1>6. C = [n \in 0 .. L |-> IF n = 0 THEN start ELSE Applied(c, C[n - 1], order[n])]
  BY <1>4
<1> HIDE DEF C
<1>7. C[0] = start
  <2>1. 0 \in 0 .. L
    BY <1>5
  <2> QED
    BY <1>6, <2>1
<1>8. ASSUME NEW n \in 1 .. L PROVE C[n] = Applied(c, C[n - 1], order[n])
  <2>1. n \in 0 .. L /\ n # 0
    BY <1>5
  <2> QED
    BY <1>6, <2>1
<1> QED
  BY <1>7, <1>8 DEF C, L, start

(* Every chain the call reaches has one round, the key's own is the last.     *)
LEMMA RoundsFacts ==
  ASSUME DOMAIN overrides \subseteq Key, NEW k \in Key, NEW order \in Rounds(k)
  PROVE  /\ Len(order) \in Nat \ {0} /\ order \in Seq(Key) /\ order[Len(order)] = k
         /\ \A n \in 1 .. Len(order) : order[n] \in Reached(k)
         /\ \A j \in Reached(k) : \E n \in 1 .. Len(order) : order[n] = j
         /\ \A i, n \in 1 .. Len(order) : order[i] = order[n] => i = n
         /\ \A n \in 1 .. Len(order) : n # Len(order) => order[n] \in Action \cap DOMAIN overrides
<1>1. CASE k \in Action
  <2>1. order = <<k>>
    BY <1>1 DEF Rounds
  <2>2. Reached(k) = {k}
    <3>1. k \notin Controller /\ \A a \in Key : ControllerOf(a) \in Controller
      BY <1>1, KeyFacts, OwnerAssumption
    <3> QED
      BY <3>1 DEF Reached
  <2> QED
    BY <2>1, <2>2
<1>2. CASE k \notin Action
  <2> DEFINE A == {a \in Action : Of[a] = k /\ a \in DOMAIN overrides}
  <2>1. k \in Controller
    BY <1>2 DEF Key
  <2>2. PICK walk \in SetToSeqs(A) : order = walk \o <<k>>
    BY <1>2 DEF Rounds
  <2>3. IsFiniteSet(A) /\ Cardinality(A) \in Nat
    <3>1. A \subseteq Key
      BY DEF Key
    <3> QED
      BY <3>1, KeyFacts, FS_Subset, FS_CardinalityType
  <2>4. Reached(k) = {k} \cup A
    BY <1>2, <2>1 DEF Reached, ControllerOf, Key
  <2> HIDE DEF A
  <2>5. /\ walk \in [1 .. Cardinality(A) -> A]
        /\ \A i, n \in 1 .. Cardinality(A) : walk[i] = walk[n] => i = n
    BY <2>2 DEF SetToSeqs, IsInjective
  <2>6. \A j \in A : \E n \in 1 .. Cardinality(A) : walk[n] = j
    <3>1. IsFiniteSet(1 .. Cardinality(A)) /\ Cardinality(1 .. Cardinality(A)) = Cardinality(A)
      BY <2>3, FS_Interval
    <3> DEFINE D == 1 .. Cardinality(A)
    <3>2. walk \in [D -> A] /\ \A i, n \in D : walk[i] = walk[n] => i = n
      BY <2>5
    <3> HIDE DEF D
    <3>3. walk \in Injection(D, A)
      BY <3>2 DEF Injection, IsInjective
    <3>4. walk \in Surjection(D, A)
      BY <2>3, <3>1, <3>3, FS_Injection DEF D
    <3> QED
      BY <3>4 DEF Surjection, D
  <2>7. A \subseteq Action \cap DOMAIN overrides /\ k \notin A
    BY <1>2 DEF A
  <2> DEFINE C == Cardinality(A)
  <2> HIDE DEF C
  <2>8. /\ order \in Seq(Key) /\ Len(order) = C + 1 /\ C \in Nat
        /\ order[C + 1] = k
        /\ \A n \in 1 .. C : order[n] = walk[n] /\ walk[n] \in A
    <3>1. walk \in Seq(Key) /\ Len(walk) = C /\ C \in Nat /\ \A n \in 1 .. C : walk[n] \in A
      BY <2>3, <2>5, <2>7 DEF Key, C
    <3>2. <<k>> \in Seq(Key) /\ Len(<<k>>) = 1 /\ <<k>>[1] = k
      OBVIOUS
    <3> DEFINE one == <<k>>
    <3> HIDE DEF one
    <3>3. order \in Seq(Key) /\ Len(order) = C + 1
          /\ \A i \in 1 .. C + 1 : order[i] = IF i <= C THEN walk[i] ELSE one[i - C]
      BY <2>2, <3>1, <3>2, ConcatProperties DEF one
    <3> QED
      BY <3>1, <3>2, <3>3 DEF one
  <2>9. \A n \in 1 .. Len(order) : n \in 1 .. C \/ n = C + 1
    BY <2>8
  <2>10. \A n \in 1 .. C : n \in 1 .. Len(order) /\ n # Len(order)
    BY <2>8
  <2>11. \A n \in 1 .. Len(order) : order[n] \in Reached(k)
    BY <2>4, <2>8, <2>9
  <2>12. \A j \in Reached(k) : \E n \in 1 .. Len(order) : order[n] = j
    <3>1. C + 1 \in 1 .. Len(order)
      BY <2>8
    <3> QED
      BY <2>4, <2>6, <2>8, <2>10, <3>1 DEF C
  <2>13. \A i, n \in 1 .. Len(order) : order[i] = order[n] => i = n
    BY <2>5, <2>7, <2>8, <2>9 DEF C
  <2>14. \A n \in 1 .. Len(order) : n # Len(order) => order[n] \in Action \cap DOMAIN overrides
    BY <2>7, <2>8, <2>9
  <2> QED
    BY <2>8, <2>11, <2>12, <2>13, <2>14
<1> QED
  BY <1>1, <1>2

(* What is so after rounds for the keys in done.                              *)
RoundsDone(st, done, c, sharing) ==
  /\ HeapRight(st.memory, st.overrides) /\ Apart(st.overrides, sharing)
  /\ DOMAIN st.overrides = DOMAIN overrides \cup done
  /\ \A j \in DOMAIN overrides \ done :
       /\ st.overrides[j] = overrides[j]
       /\ ControllerOf(j) \notin sharing => Content(st.memory, st.overrides[j]) = wanted[j]
  /\ \A j \in done : ControllerOf(j) \notin sharing =>
       Content(st.memory, st.overrides[j]) = Value(c, Wanted(j))

LEMMA RoundStep ==
  ASSUME DOMAIN wanted = DOMAIN overrides, DOMAIN overrides \subseteq Key, NEW c \in Change,
         NEW st, NEW done, NEW sharing, RoundsDone(st, done, c, sharing),
         done \subseteq Action \cap DOMAIN overrides, NEW k \in Key \ done,
         c.kind = "Add" => GetChain(memory, overrides, k).slice.len # 0,
         k \notin DOMAIN overrides /\ Configured(overrides, k) # {} => ControllerOf(k) \in sharing
  PROVE  RoundsDone(Applied(c, st, k), done \cup {k}, c, sharing)
<1> DEFINE m == st.memory
           o == st.overrides
           r == Applied(c, st, k)
<1>1. /\ HeapRight(m, o) /\ Apart(o, sharing) /\ DOMAIN o = DOMAIN overrides
      /\ \A j \in DOMAIN overrides \ done :
           /\ o[j] = overrides[j]
           /\ ControllerOf(j) \notin sharing => Content(m, o[j]) = wanted[j]
      /\ \A j \in done : ControllerOf(j) \notin sharing => Content(m, o[j]) = Value(c, Wanted(j))
  BY DEF RoundsDone
<1>2. ControllerOf(k) \in Controller /\ ControllerOf(k) \notin done /\ k \notin done
      /\ ControllerOf(ControllerOf(k)) = ControllerOf(k)
  BY KeyFacts, OwnerAssumption
<1>3. /\ Configured(o, k) = Configured(overrides, k) /\ Configured(wanted, k) = Configured(overrides, k)
      /\ Configured(o, k) # {} => Nearest(o, k) = Nearest(overrides, k)
      /\ Configured(o, k) # {} /\ ControllerOf(k) \notin sharing =>
           Content(m, Nearest(o, k)) = Nearest(wanted, k)
  <2>1. Configured(o, k) = Configured(overrides, k) /\ Configured(wanted, k) = Configured(overrides, k)
    BY <1>1 DEF Configured
  <2>2. CASE k \in DOMAIN o
    BY <1>1, <1>2, <2>1, <2>2 DEF Nearest
  <2>3. CASE k \notin DOMAIN o /\ ControllerOf(k) \in DOMAIN o
    BY <1>1, <1>2, <2>1, <2>3 DEF Nearest
  <2>4. CASE k \notin DOMAIN o /\ ControllerOf(k) \notin DOMAIN o
    BY <2>1, <2>4 DEF Configured
  <2> QED
    BY <2>2, <2>3, <2>4
<1>4. c.kind = "Add" => GetChain(m, o, k).slice.len # 0
  <2>1. CASE Configured(o, k) # {}
    BY <1>3, <2>1 DEF GetChain
  <2>2. CASE Configured(o, k) = {}
    BY <2>2, KeyFacts DEF GetChain, Allocate, Slice
  <2> QED
    BY <2>1, <2>2
<1>5. k \notin DOMAIN o /\ Configured(o, k) # {} => ControllerOf(k) \in sharing
  BY <1>1, <1>3
<1> DEFINE rm == r.memory
           ro == r.overrides
<1>6. /\ HeapRight(rm, ro) /\ Apart(ro, sharing)
      /\ DOMAIN ro = DOMAIN o \cup {k}
      /\ Content(rm, ro[k]) =
           Value(c, IF Configured(o, k) # {} THEN Content(m, Nearest(o, k)) ELSE Default)
      /\ \A j \in DOMAIN o \ {k} : ro[j] = o[j]
      /\ \A j \in DOMAIN o \ {k} : ControllerOf(j) \notin sharing => Content(rm, o[j]) = Content(m, o[j])
  BY <1>1, <1>4, <1>5, AppliedFacts
<1> HIDE DEF m, o, rm, ro
<1>7. ControllerOf(k) \notin sharing => Content(rm, ro[k]) = Value(c, Wanted(k))
  BY <1>3, <1>6 DEF Wanted
<1>8. ASSUME NEW j \in DOMAIN overrides \ (done \cup {k})
      PROVE  /\ ro[j] = overrides[j]
             /\ ControllerOf(j) \notin sharing => Content(rm, ro[j]) = wanted[j]
  BY <1>1, <1>6
<1>9. ASSUME NEW j \in done \cup {k}, ControllerOf(j) \notin sharing
      PROVE  Content(rm, ro[j]) = Value(c, Wanted(j))
  <2>1. CASE j = k
    BY <1>7, <1>9, <2>1
  <2>2. CASE j # k
    BY <1>1, <1>6, <1>9, <2>2
  <2> QED
    BY <2>1, <2>2
<1>10. DOMAIN ro = DOMAIN overrides \cup (done \cup {k})
  BY <1>1, <1>6
<1> HIDE DEF r
<1> QED
  BY <1>6, <1>8, <1>9, <1>10 DEF RoundsDone, rm, ro, r

(* All rounds of a call.                                                      *)
LEMMA CourseRight ==
  ASSUME FCInv, NEW k \in Key, NEW c \in Change, ~Panics(c, k), NEW order \in Rounds(k), NEW sharing,
         inherited \subseteq sharing,
         k \notin DOMAIN overrides /\ Configured(overrides, k) # {} => ControllerOf(k) \in sharing
  PROVE  RoundsDone(Course(c, order)[Len(order)], Reached(k), c, sharing)
<1> DEFINE L == Len(order)
           Done(n) == {order[i] : i \in 1 .. n}
           C == Course(c, order)
           S == {n \in 0 .. L : ~RoundsDone(C[n], Done(n), c, sharing)}
<1>1. DOMAIN wanted = DOMAIN overrides /\ DOMAIN overrides \subseteq Key
  BY DEF FCInv, WantedRight, HeapRight
<1>2. /\ L \in Nat \ {0} /\ order \in Seq(Key) /\ order[L] = k
      /\ \A n \in 1 .. L : order[n] \in Reached(k)
      /\ \A j \in Reached(k) : \E n \in 1 .. L : order[n] = j
      /\ \A i, n \in 1 .. L : order[i] = order[n] => i = n
      /\ \A n \in 1 .. L : n # L => order[n] \in Action \cap DOMAIN overrides
  BY <1>1, RoundsFacts
<1>3. /\ C[0] = [memory |-> memory, overrides |-> overrides]
      /\ \A n \in 1 .. L : C[n] = Applied(c, C[n - 1], order[n])
  BY <1>2, CourseFacts
<1> HIDE DEF C
<1>4. RoundsDone(C[0], Done(0), c, sharing)
  <2>1. Done(0) = {}
    OBVIOUS
  <2>2. C[0].memory = memory /\ C[0].overrides = overrides
    BY <1>3
  <2>3. Apart(overrides, sharing)
    BY DEF Apart, FCInv
  <2>4. \A j \in DOMAIN overrides : ControllerOf(j) \notin sharing => Content(memory, overrides[j]) = wanted[j]
    BY DEF FCInv, WantedRight, Holds
  <2> HIDE DEF Done
  <2> QED
    BY <2>1, <2>2, <2>3, <2>4 DEF RoundsDone, FCInv
<1>5. ASSUME NEW n \in 1 .. L, RoundsDone(C[n - 1], Done(n - 1), c, sharing)
      PROVE  RoundsDone(C[n], Done(n), c, sharing)
  <2> DEFINE j == order[n]
  <2>1. j \in Key /\ j \in Reached(k)
    BY <1>2
  <2>2. \A i \in 1 .. n - 1 : i \in 1 .. L /\ i # L /\ i # n
    BY <1>2
  <2>3. Done(n - 1) \subseteq Action \cap DOMAIN overrides
    BY <1>2, <2>2
  <2>4. j \notin Done(n - 1)
    BY <1>2, <2>2
  <2>5. Done(n) = Done(n - 1) \cup {j}
    <3>1. \A i : i \in 1 .. n <=> i \in 1 .. n - 1 \/ i = n
      BY <1>2
    <3> QED
      BY <3>1
  <2>6. c.kind = "Add" => GetChain(memory, overrides, j).slice.len # 0
    BY <2>1 DEF Panics
  <2>7. j \notin DOMAIN overrides /\ Configured(overrides, j) # {} => ControllerOf(j) \in sharing
    <3>1. CASE n = L
      BY <1>2, <3>1
    <3>2. CASE n # L
      BY <1>2, <3>2
    <3> QED
      BY <3>1, <3>2
  <2>8. C[n] = Applied(c, C[n - 1], j)
    BY <1>3
  <2> HIDE DEF j, Done
  <2>9. RoundsDone(Applied(c, C[n - 1], j), Done(n - 1) \cup {j}, c, sharing)
    BY <1>1, <1>5, <2>1, <2>3, <2>4, <2>6, <2>7, RoundStep
  <2> QED
    BY <2>5, <2>8, <2>9
<1>6. S = {}
  <2> SUFFICES ASSUME S # {} PROVE FALSE
    OBVIOUS
  <2> HIDE DEF Done
  <2>1. S \in SUBSET Nat
    OBVIOUS
  <2>2. PICK x \in S : \A y \in S : x <= y
    <3> HIDE DEF S
    <3> QED
      BY <2>1, Least
  <2>3. x \in 0 .. L /\ ~RoundsDone(C[x], Done(x), c, sharing)
    BY <2>2
  <2>4. x # 0
    BY <1>4, <2>3
  <2>5. x \in 1 .. L /\ x - 1 \in 0 .. L /\ ~(x <= x - 1)
    BY <1>2, <2>3, <2>4
  <2>6. RoundsDone(C[x - 1], Done(x - 1), c, sharing)
    BY <2>2, <2>5
  <2> QED
    BY <1>5, <2>3, <2>5, <2>6
<1>7. RoundsDone(C[L], Done(L), c, sharing)
  <2>1. L \in 0 .. L
    BY <1>2
  <2> QED
    BY <1>6, <2>1
<1>8. Done(L) = Reached(k)
  BY <1>2
<1> HIDE DEF Done
<1> QED
  BY <1>7, <1>8 DEF C

-----------------------------------------------------------------------------
LEMMA FCInitInvariant == FCInit => FCInv
<1> SUFFICES ASSUME FCInit PROVE FCInv
  OBVIOUS
<1>1. DOMAIN overrides = {} /\ DOMAIN wanted = {}
  BY DEF FCInit
<1>2. /\ memory \in [Array -> Seq(Elements)] /\ memory[Filters] = Default
      /\ \A i \in Array \ {Filters} : memory[i] = << >>
  <2>1. AnyFilter \subseteq Elements /\ Default \in Seq(AnyFilter) /\ Filters \in Array
    BY KeyFacts DEF Elements
  <2>2. Default \in Seq(Elements)
    BY <2>1
  <2> QED
    BY <2>1, <2>2 DEF FCInit
<1>3. HeapRight(memory, overrides)
  BY <1>1, <1>2 DEF HeapRight
<1>4. Apart(overrides, inherited) /\ WantedRight
  BY <1>1 DEF Apart, WantedRight
<1>5. calls \in 0 .. Calls /\ panicked \in BOOLEAN /\ inherited \subseteq Controller
  <2>1. calls = 0 /\ panicked = FALSE /\ inherited = {}
    BY DEF FCInit
  <2>2. 0 \in 0 .. Calls
    BY CallsAssumption
  <2> QED
    BY <2>1, <2>2
<1> QED
  BY <1>3, <1>4, <1>5 DEF FCInv

LEMMA ConfigureKeeps ==
  ASSUME FCInv, NEW k \in Key, NEW c \in Change, Configure(k, c)
  PROVE  FCInv'
<1> DEFINE sharing == inherited'
<1>1. PICK order \in Rounds(k) : /\ overrides' = Course(c, order)[Len(order)].overrides
                                 /\ memory' = Course(c, order)[Len(order)].memory
  BY DEF Configure
<1>2. /\ inherited \subseteq inherited' /\ inherited' \subseteq Controller
      /\ k \notin DOMAIN overrides /\ Configured(overrides, k) # {} => ControllerOf(k) \in inherited'
  BY KeyFacts DEF Configure, FCInv
<1>3. RoundsDone(Course(c, order)[Len(order)], Reached(k), c, inherited')
  BY <1>2, CourseRight DEF Configure
<1>4. HeapRight(memory', overrides') /\ Apart(overrides', inherited')
  BY <1>1, <1>3 DEF RoundsDone
<1>5. WantedRight'
  <2>1. DOMAIN overrides' = DOMAIN overrides \cup Reached(k)
    BY <1>1, <1>3 DEF RoundsDone
  <2>2. /\ DOMAIN wanted' = DOMAIN wanted \cup Reached(k)
        /\ \A j \in Reached(k) : wanted'[j] = Value(c, Wanted(j))
        /\ \A j \in DOMAIN wanted \ Reached(k) : wanted'[j] = wanted[j]
    BY DEF Configure
  <2>3. DOMAIN wanted = DOMAIN overrides
    BY DEF FCInv, WantedRight
  <2>4. ASSUME NEW j \in DOMAIN overrides', ControllerOf(j) \notin inherited'
        PROVE  Content(memory', overrides'[j]) = wanted'[j]
    <3>1. CASE j \in Reached(k)
      BY <1>1, <1>3, <2>2, <2>4, <3>1 DEF RoundsDone
    <3>2. CASE j \notin Reached(k)
      BY <1>1, <1>3, <2>1, <2>2, <2>3, <2>4, <3>2 DEF RoundsDone
    <3> QED
      BY <3>1, <3>2
  <2> QED
    BY <2>1, <2>2, <2>3, <2>4 DEF WantedRight, Holds
<1>6. calls' \in 0 .. Calls /\ panicked' \in BOOLEAN
  BY CallsAssumption DEF Configure, FCInv
<1> QED
  BY <1>2, <1>4, <1>5, <1>6 DEF FCInv

LEMMA FCInductive == FCInv /\ [FCNext]_fcVars => FCInv'
<1> SUFFICES ASSUME FCInv, [FCNext]_fcVars PROVE FCInv'
  OBVIOUS
<1>1. ASSUME NEW k \in Key, NEW c \in Change, Configure(k, c) PROVE FCInv'
  BY <1>1, ConfigureKeeps
<1>2. ASSUME NEW k \in Key, NEW c \in Change, ConfigureNothing(k, c) PROVE FCInv'
  BY <1>2 DEF ConfigureNothing, FCInv, WantedRight, Holds
<1>3. CASE UNCHANGED fcVars
  BY <1>3 DEF fcVars, FCInv, WantedRight, Holds
<1> QED
  BY <1>1, <1>2, <1>3 DEF FCNext

THEOREM FCInvariance == FCSpec => []FCInv
<1> QED
  BY FCInitInvariant, FCInductive, PTL DEF FCSpec

(* Every configured chain lies within its array and consists of filters.      *)
THEOREM FCTypeCorrect == FCSpec => []FCTypeOK
<1>1. FCInv => FCTypeOK
  <2> SUFFICES ASSUME FCInv PROVE FCTypeOK
    OBVIOUS
  <2>1. ASSUME NEW i \in Array PROVE ToSet(memory[i]) \subseteq AnyFilter \cup {Unused}
    <3>1. memory[i] \in Seq(Elements)
      BY DEF FCInv, HeapRight
    <3> QED
      BY <3>1 DEF ToSet, Elements
  <2>2. DOMAIN overrides \subseteq Key /\ DOMAIN wanted = DOMAIN overrides
    BY DEF FCInv, HeapRight, WantedRight
  <2>3. ASSUME NEW k \in DOMAIN overrides
        PROVE  /\ overrides[k].array \in Array
               /\ overrides[k].len <= Len(memory[overrides[k].array])
               /\ ToSet(Content(memory, overrides[k])) \subseteq AnyFilter
    <3>1. memory \in [Array -> Seq(Elements)] /\ SliceRight(memory, overrides[k])
      BY DEF FCInv, HeapRight
    <3>2. Content(memory, overrides[k]) \in Seq(AnyFilter)
      BY <3>1, ContentFacts
    <3> QED
      BY <3>1, <3>2 DEF SliceRight, ToSet
  <2> QED
    BY <2>1, <2>2, <2>3 DEF FCInv, FCTypeOK
<1> QED
  BY <1>1, FCInvariance, PTL

(* The default chain never changes, and chains of two controllers are in arrays *)
(* of their own, whatever was configured in which order.                      *)
THEOREM ControllersAreApart == FCSpec => []ControllersApart
<1>1. FCInv => ControllersApart
  BY DEF FCInv, HeapRight, Apart, ControllersApart
<1> QED
  BY <1>1, FCInvariance, PTL

(* Chains are what the calls asked for until an action inherits the slice of  *)
(* its controller.                                                            *)
THEOREM ChainsConfigured == FCSpec => []ConfiguredUnlessInherited
<1>1. FCInv => ConfiguredUnlessInherited
  BY DEF FCInv, WantedRight, ConfiguredUnlessInherited
<1> QED
  BY <1>1, FCInvariance, PTL
=============================================================================
