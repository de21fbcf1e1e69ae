---------------------------- MODULE FilterChain ----------------------------
(* The filters around an action and what they do to one browser's cookies,    *)
(* request after request.  A filter runs some code, calls the next filter,    *)
(* and runs some more when that returns; a panic skips the rest of a filter   *)
(* except what it deferred.  Any user code - interceptors, controller methods *)
(* run before and after, the action - may panic.                              *)
(*                                                                           *)
(* FilterConfiguringFilter (which swaps the rest of the chain), I18nFilter    *)
(* and CompressFilter only pass the call on as far as the state here goes and *)
(* are left out of Chain.  So is WatchFilter, in front of the chain when      *)
(* watching is on: module Watcher has it.                                     *)
EXTENDS Naturals, Sequences, FiniteSets

CONSTANTS Session,   \* the contents a session can have
          NoSession, \* the empty session, one of them
          Message,   \* what can be put in the flash
          None,
          Unsent     \* a cookie the response does not set

ASSUME SessionAssumption == NoSession \in Session

Chain == << "Panic", "Router", "Params", "Session", "Flash", "Validation",
            "Interceptor", "BeforeAfter", "Action" >>
Filter  == {Chain[i] : i \in DOMAIN Chain}
Place   == [f \in Filter |-> CHOOSE i \in DOMAIN Chain : Chain[i] = f]
Inner(f) == Chain[Place[f] + 1]
Outer(f) == IF f = "Panic" THEN "Apply" ELSE Chain[Place[f] - 1]

Hooked == {"Interceptor", "BeforeAfter"}         \* filters that run When hooks
When   == {"BEFORE", "AFTER", "PANIC", "FINALLY"}

(* A Result by who set it, and what it is or when it was set. *)
Result == {"Panic", "Router", "Interceptor", "BeforeAfter", "Action"}
            \X (When \cup {"", "error", "nil error", "not found"})

ASSUME NoneAssumption ==
  /\ None \notin Session \cup Message \cup Result
  /\ Unsent \notin Session \cup Message \cup BOOLEAN \cup {None}

VARIABLES
  devMode,   \* DevMode, from the run mode the application is started in
  at,        \* the filter whose code runs next; "Apply" in handleInternal, or "Done"
  way,       \* "down" into it, "up" returning to it, "panic" unwinding through it,
             \* "finally" and "finallyPanic" in the deferred FINALLY hooks
  result,    \* Controller.Result: who set it
  status,    \* Controller.Response.Status, 0 when not set
  cookies,   \* the cookies of the request
  setCookie, \* the Set-Cookie headers of the response: name -> value
  jar,       \* the browser's cookies between requests
  session,   \* Controller.Session
  flashOut,  \* Controller.Flash.Out
  errors,    \* Validation.Errors is not empty
  keep,      \* Validation.keep
  json,      \* the request has a JSON body
  tmpFiles,  \* temp files of an upload exist
  answer,    \* what was written: the status, the kind of body and the Set-Cookie
             \*   headers that went with it; or the connection was cut
  ran,       \* hooks run for this request: <<filter, when>>; BEFORE when none of
             \*   them kept the call from going on
  reached,   \* filters the request went into
  crossed    \* filters a panic went through

vars == <<devMode, at, way, result, status, cookies, setCookie, jar, session, flashOut, errors,
          keep, json, tmpFiles, answer, ran, reached, crossed>>

request  == <<devMode, cookies, jar, json>>
content  == <<session, flashOut, errors, keep, tmpFiles>>
response == <<result, status, setCookie, answer>>
history  == <<ran, reached, crossed>>

(* A cookie is None when the browser has none of that name. *)
Jar == [session : Session \cup {None}, flash : Message \cup {None}, errors : BOOLEAN]
NoCookies == [session |-> None, flash |-> None, errors |-> FALSE]
SetCookies == [session : Session \cup {Unsent}, flash : Message \cup {None, Unsent},
               errors : BOOLEAN \cup {Unsent}]
NothingSet == [session |-> Unsent, flash |-> Unsent, errors |-> Unsent]

(* "direct" is what user code wrote itself, and what was added to it later;   *)
(* "socket" what goes over a websocket once the handshake is answered.        *)
Answer   == [status : {0, 101, 200, 404, 500},
             body : {"none", "page", "error", "stack", "direct", "socket", "cut"},
             set : SetCookies]
NoAnswer == [status |-> 0, body |-> "none", set |-> NothingSet]
Upgraded == [status |-> 101, body |-> "socket", set |-> NothingSet]
Cut      == [status |-> 0, body |-> "cut", set |-> NothingSet]

Init == /\ devMode \in BOOLEAN
        /\ at = "Done" /\ way = "up"
        /\ jar = NoCookies /\ cookies = NoCookies
        /\ json = FALSE
        /\ answer = NoAnswer
        /\ result = None /\ status = 0 /\ setCookie = NothingSet
        /\ session = NoSession /\ flashOut = None
        /\ errors = FALSE /\ keep = FALSE /\ tmpFiles = FALSE
        /\ ran = {} /\ reached = {} /\ crossed = {}

-----------------------------------------------------------------------------
(* handleInternal starts a request of the browser, or handleMux has answered  *)
(* the handshake of a websocket first: the header has gone then.              *)

Request ==
  /\ at = "Done"
  /\ at' = "Panic" /\ way' = "down"
  /\ cookies' = jar
  /\ \/ answer' = NoAnswer /\ json' \in BOOLEAN
     \/ answer' = Upgraded /\ json' = FALSE
  /\ result' = None /\ status' = 0 /\ setCookie' = NothingSet
  /\ session' = NoSession /\ flashOut' = None
  /\ errors' = FALSE /\ keep' = FALSE /\ tmpFiles' = FALSE
  /\ ran' = {} /\ reached' = {} /\ crossed' = {}
  /\ UNCHANGED <<devMode, jar>>

Call(f)   == at = f /\ way = "down" /\ reached' = reached \cup {f}
CallNext(f) == at' = Inner(f) /\ way' = "down"
Return(f) == at' = Outer(f) /\ way' = "up"
Throw(f)  == at' = Outer(f) /\ way' = "panic" /\ crossed' = crossed \cup {f}

-----------------------------------------------------------------------------
(* PanicFilter and handleInvocationPanic.  The stack may have no frame of the *)
(* application: NewErrorFromPanic then returns nil.                           *)

(* Slip: the rest of the chain is passed on with the filter itself in it. *)
PanicCallsItself ==
  /\ Call("Panic") /\ at' = "Panic" /\ way' = "down"
  /\ UNCHANGED <<request, content, response, ran, crossed>>

PanicCalls == /\ Call("Panic") /\ CallNext("Panic")
              /\ UNCHANGED <<request, content, response, ran, crossed>>

PanicReturns == /\ at = "Panic" /\ way = "up" /\ Return("Panic")
                /\ UNCHANGED <<request, content, response, history>>

(* Slip: the panic is recovered but the error page is not put in Result. *)
RecoverKeepingResult(located) == result

ErrorPage(located) == IF located THEN <<"Panic", "error">> ELSE <<"Panic", "nil error">>

PanicRecovers ==
  /\ at = "Panic" /\ way = "panic"
  /\ Return("Panic")
  /\ \E located \in BOOLEAN :
       IF ~located /\ devMode
         THEN /\ answer' = IF answer # NoAnswer THEN answer
                           ELSE [status |-> 500, body |-> "stack", set |-> setCookie]
              /\ UNCHANGED <<result, status>>
         ELSE /\ result' = ErrorPage(located)
              /\ status' = IF status = 0 THEN 500 ELSE status
              /\ UNCHANGED answer
  /\ UNCHANGED <<request, content, setCookie, history>>

-----------------------------------------------------------------------------
(* RouterFilter: no matching route, an explicit 404, or an action not found. *)

RouterCalls == /\ Call("Router") /\ CallNext("Router")
               /\ UNCHANGED <<request, content, response, ran, crossed>>

RouterNotFound ==
  /\ Call("Router") /\ Return("Router")
  /\ result' = <<"Router", "not found">> /\ status' = 404
  /\ UNCHANGED <<request, content, setCookie, answer, ran, crossed>>

RouterPasses ==
  /\ at = "Router"
  /\ \/ way = "up" /\ Return("Router") /\ UNCHANGED crossed
     \/ way = "panic" /\ Throw("Router")
  /\ UNCHANGED <<request, content, response, ran, reached>>

-----------------------------------------------------------------------------
(* ParamsFilter: the removal of the temp files is deferred. *)

ParamsCalls == /\ Call("Params") /\ CallNext("Params")
               /\ UNCHANGED <<request, content, response, ran, crossed>>

(* Slip: the removal is not deferred. *)
TmpFilesAfterUndeferred == IF way = "up" THEN FALSE ELSE tmpFiles
TmpFilesAfter == FALSE

ParamsCleansUp ==
  /\ at = "Params"
  /\ \/ way = "up" /\ Return("Params") /\ UNCHANGED crossed
     \/ way = "panic" /\ Throw("Params")
  /\ tmpFiles' = TmpFilesAfter
  /\ UNCHANGED <<request, session, flashOut, errors, keep, response, ran, reached>>

-----------------------------------------------------------------------------
(* SessionFilter.  A session decoded from a cookie holds at least a timestamp *)
(* and so is not Empty; one the browser has no cookie for is.  Encode refuses *)
(* some keys and values with a panic.  Expired cookies are not considered.    *)

Decoded(c) == IF c = None THEN NoSession ELSE c

SessionCalls ==
  /\ Call("Session") /\ CallNext("Session")
  /\ session' = Decoded(cookies.session)
  /\ UNCHANGED <<request, flashOut, errors, keep, tmpFiles, response, ran, crossed>>

(* Slip: an emptied session is not encoded. *)
EncodesUnlessEmpty == session # NoSession
Encodes == session # NoSession \/ cookies.session # None

SessionReturns ==
  /\ at = "Session" /\ way = "up"
  /\ \/ /\ Return("Session")
        /\ setCookie' = IF Encodes THEN [setCookie EXCEPT !.session = session] ELSE setCookie
        /\ UNCHANGED crossed
     \/ /\ session # NoSession   \* with a key or a value Encode refuses
        /\ Throw("Session")
        /\ UNCHANGED setCookie
  /\ UNCHANGED <<request, content, result, status, answer, ran, reached>>

-----------------------------------------------------------------------------
(* FlashFilter: always sets the cookie, to nothing when Out is empty. *)

FlashCalls ==
  /\ Call("Flash") /\ CallNext("Flash")
  /\ UNCHANGED <<request, content, response, ran, crossed>>

(* Slip: the cookie is only set when there is something to put in it. *)
FlashSetUnlessEmpty == IF flashOut = None THEN setCookie
                       ELSE [setCookie EXCEPT !.flash = flashOut]
FlashSet == [setCookie EXCEPT !.flash = flashOut]

FlashReturns ==
  /\ at = "Flash" /\ way = "up" /\ Return("Flash")
  /\ setCookie' = FlashSet
  /\ UNCHANGED <<request, content, result, status, answer, history>>

-----------------------------------------------------------------------------
(* ValidationFilter. *)

ValidationCalls ==
  /\ Call("Validation") /\ CallNext("Validation")
  /\ errors' = (~json /\ cookies.errors)
  /\ UNCHANGED <<request, session, flashOut, keep, tmpFiles, response, ran, crossed>>

ErrorsSet ==
  IF json THEN setCookie
  ELSE IF keep /\ errors THEN [setCookie EXCEPT !.errors = TRUE]
  ELSE IF cookies.errors THEN [setCookie EXCEPT !.errors = FALSE]
  ELSE setCookie

ValidationReturns ==
  /\ at = "Validation" /\ way = "up" /\ Return("Validation")
  /\ setCookie' = ErrorsSet
  /\ UNCHANGED <<request, content, result, status, answer, history>>

(* Filters without a deferred call: a panic skips what they do on the way up. *)
Unwinds(f) ==
  /\ f \in {"Session", "Flash", "Validation"}
  /\ at = f /\ way = "panic" /\ Throw(f)
  /\ UNCHANGED <<request, content, response, ran, reached>>

-----------------------------------------------------------------------------
(* InterceptorFilter and BeforeAfterFilter run their hooks at four moments.   *)
(* A moment is one step, however many hooks it has: all the interceptors of   *)
(* it run (the BEFORE ones up to the first with a Result), of the methods     *)
(* those up to the first with a Result, and a panic ends it.  It leaves       *)
(* Result alone, replaces it, or panics; and user code that renders anything, *)
(* if only to throw it away, sets the status when there is none, with 200 for *)
(* all that is no error.                                                      *)

Renders == status' \in {status, IF status = 0 THEN 200 ELSE status}

(* Slip: what the hook returns is taken for the Result even if it is nil. *)
SetsResultToNil(f, w) == result' \in {<<f, w>>, None} /\ Renders
SetsResult(f, w)      == result' = <<f, w>> /\ Renders
KeepsResult           == result' = result /\ Renders

Before(f) ==
  /\ f \in Hooked
  /\ Call(f)
  /\ \/ /\ CallNext(f)
        /\ ran' = ran \cup {<<f, "BEFORE">>}
        /\ KeepsResult
     \/ /\ at' = f /\ UNCHANGED ran
        /\ \/ way' = "finally" /\ SetsResult(f, "BEFORE")
           \/ way' = "panic" /\ KeepsResult
  /\ UNCHANGED <<request, content, setCookie, answer, crossed>>

After(f) ==
  /\ f \in Hooked
  /\ at = f /\ way = "up"
  /\ ran' = ran \cup {<<f, "AFTER">>}
  /\ at' = f
  /\ \/ way' = "finally" /\ KeepsResult
     \/ way' = "finally" /\ SetsResult(f, "AFTER")
     \/ way' = "panic" /\ KeepsResult
  /\ UNCHANGED <<request, content, setCookie, answer, reached, crossed>>

(* Slip: the panic ends in the filter that ran its PANIC hooks. *)
AfterPanicHooksSwallowed == "finally"
AfterPanicHooks == "finallyPanic"

(* PANIC hooks, then the panic goes on; a hook's own panic replaces it. *)
OnPanic(f) ==
  /\ f \in Hooked
  /\ at = f /\ way = "panic"
  /\ ran' = ran \cup {<<f, "PANIC">>}
  /\ at' = f /\ way' = AfterPanicHooks
  /\ KeepsResult \/ SetsResult(f, "PANIC")
  /\ UNCHANGED <<request, content, setCookie, answer, reached, crossed>>

(* Slip: FINALLY hooks are not run while a panic unwinds. *)
FinallyHooksOnReturn(f) == IF way = "finally" THEN {<<f, "FINALLY">>} ELSE {}
FinallyHooks(f) == {<<f, "FINALLY">>}

(* FINALLY hooks are deferred first and so run last. *)
Finally(f) ==
  /\ f \in Hooked
  /\ at = f /\ way \in {"finally", "finallyPanic"}
  /\ ran' = ran \cup FinallyHooks(f)
  /\ \/ /\ IF way = "finally" THEN Return(f) /\ UNCHANGED crossed ELSE Throw(f)
        /\ KeepsResult \/ SetsResult(f, "FINALLY")
     \/ /\ Throw(f)
        /\ KeepsResult
  /\ UNCHANGED <<request, content, setCookie, answer, reached>>

-----------------------------------------------------------------------------
(* ActionInvoker: binding an upload makes temp files, the action may change   *)
(* the session, the flash and the validation, and returns a result or panics. *)

ActionWorks ==
  /\ Call("Action")
  /\ \/ session' \in Session \ {session} /\ UNCHANGED <<flashOut, errors, keep, tmpFiles>>
     \/ flashOut = None /\ flashOut' \in Message /\ UNCHANGED <<session, errors, keep, tmpFiles>>
     \/ ~keep /\ keep' = TRUE /\ errors' \in BOOLEAN /\ UNCHANGED <<session, flashOut, tmpFiles>>
     \/ ~tmpFiles /\ tmpFiles' = TRUE /\ answer = NoAnswer
        /\ UNCHANGED <<session, flashOut, errors, keep>>
  /\ UNCHANGED <<at, way, request, response, ran, crossed>>

ActionEnds ==
  /\ Call("Action")
  /\ \/ Return("Action") /\ KeepsResult /\ UNCHANGED crossed
     \/ Return("Action") /\ SetsResult("Action", "") /\ UNCHANGED crossed
     \/ Throw("Action") /\ KeepsResult
  /\ UNCHANGED <<request, content, setCookie, answer, ran>>

-----------------------------------------------------------------------------
(* The action or a hook writes to the response itself, through Response.Out   *)
(* or its writer: the header goes, with the cookies that are set by then.     *)

WritesAtOnce ==
  /\ at \in Hooked \cup {"Action"}
  /\ answer = NoAnswer
  /\ Renders
  /\ answer' = [status |-> IF status' = 0 THEN 200 ELSE status', body |-> "direct", set |-> setCookie]
  /\ UNCHANGED <<at, way, request, content, result, setCookie, history>>

-----------------------------------------------------------------------------
(* handleInternal applies the result outside of every filter.  The response   *)
(* takes its cookies with it when its header is written, which may be here or *)
(* may have been before.  A panic here (an error page without an error is     *)
(* one) is recovered by net/http only, which cuts the connection; what was    *)
(* written by then, the header first, may have been sent or still be in its   *)
(* buffer.  200 stands for the status a result writes when none is set.       *)

Received(set) ==
  [session |-> IF set.session = Unsent THEN jar.session ELSE set.session,
   flash   |-> IF set.flash = Unsent THEN jar.flash ELSE set.flash,
   errors  |-> IF set.errors = Unsent THEN jar.errors ELSE set.errors]

Body == IF result = None THEN "none"
        ELSE IF result[1] \in {"Panic", "Router"} THEN "error" ELSE "page"

Written == IF answer # NoAnswer THEN answer
           ELSE [status |-> IF status = 0 THEN 200 ELSE status, body |-> Body, set |-> setCookie]

Apply ==
  /\ at = "Apply"
  /\ at' = "Done" /\ way' = "up"
  /\ \/ answer' = Written /\ jar' = Received(Written.set)
     \/ /\ result # None /\ answer.body # "socket"
        /\ answer' = Cut
        /\ jar' \in {jar, Received(Written.set)}
  /\ UNCHANGED <<devMode, cookies, json, content, result, status, setCookie, history>>

Next == \/ Request
        \/ PanicCalls \/ PanicReturns \/ PanicRecovers
        \/ RouterCalls \/ RouterNotFound \/ RouterPasses
        \/ ParamsCalls \/ ParamsCleansUp
        \/ SessionCalls \/ SessionReturns
        \/ FlashCalls \/ FlashReturns
        \/ ValidationCalls \/ ValidationReturns
        \/ \E f \in Filter : \/ Unwinds(f) \/ Before(f) \/ After(f)
                             \/ OnPanic(f) \/ Finally(f)
        \/ ActionWorks \/ ActionEnds \/ WritesAtOnce
        \/ Apply

Spec == Init /\ [][Next]_vars

(* The goroutine serving the request runs on and the action ends sometime;    *)
(* the browser need not come back.                                            *)
Serve    == Next /\ at # "Done"
FairSpec == Spec /\ WF_vars(Serve) /\ WF_vars(ActionEnds)

-----------------------------------------------------------------------------
TypeOK ==
  /\ at \in Filter \cup {"Apply", "Done"}
  /\ way \in {"down", "up", "panic", "finally", "finallyPanic"}
  /\ result \in {None} \cup Result
  /\ status \in {0, 200, 404, 500}
  /\ cookies \in Jar /\ jar \in Jar
  /\ setCookie \in SetCookies
  /\ session \in Session /\ flashOut \in Message \cup {None}
  /\ devMode \in BOOLEAN /\ errors \in BOOLEAN /\ keep \in BOOLEAN
  /\ json \in BOOLEAN /\ tmpFiles \in BOOLEAN
  /\ answer \in Answer
  /\ ran \subseteq Hooked \X When
  /\ reached \subseteq Filter /\ crossed \subseteq Filter

(* When the filters are done with a request, the FINALLY hooks of both        *)
(* hooked filters have run if the filter was entered at all, whoever panicked *)
(* and however often; what is further in was entered if and only if no BEFORE *)
(* hook had panicked or answered; the PANIC hooks have run if it panicked,    *)
(* and the AFTER hooks if it returned.                                        *)
HooksComplete ==
  at \in {"Apply", "Done"} =>
    \A f \in Hooked :
      /\ <<f, "FINALLY">> \in ran <=> f \in reached
      /\ <<f, "BEFORE">> \in ran <=> Inner(f) \in reached
      /\ Inner(f) \in crossed => <<f, "PANIC">> \in ran /\ <<f, "AFTER">> \notin ran
      /\ Inner(f) \in reached \ crossed => <<f, "AFTER">> \in ran
      /\ <<f, "PANIC">> \in ran => f \in crossed

(* Of several results the one set furthest out is applied, and of one         *)
(* filter's that of its FINALLY hooks: the result of a BEFORE hook keeps      *)
(* everything behind it from running, but not the FINALLY hooks of its own    *)
(* filter, AFTER and FINALLY hooks further out and the error page of a panic  *)
(* from taking its place; and none is ever taken back.                        *)
ResultFromFurtherOut ==
  result' # result /\ at # "Done" =>
    /\ result' # None
    /\ result # None =>
         \/ Place[result'[1]] < Place[result[1]]
         \/ result'[1] = result[1] /\ result'[2] = "FINALLY"

LastResultCounts == [][ResultFromFurtherOut]_vars

(* A request in which anything panicked is never answered with the page that  *)
(* had been chosen before the panic: the client sees the error page, or       *)
(* nothing at all, unless something had gone out first, which is the stack    *)
(* trace of development mode, what user code wrote itself, or a websocket.    *)
PanicNeverAnsweredByPage ==
  at = "Done" /\ crossed # {} => answer.body \in {"error", "stack", "cut", "direct", "socket"}

(* No temp file of an upload outlives its request. *)
NoTempFileLeft == at \in {"Apply", "Done"} => ~tmpFiles

(* A filter's cookie is in the response if the filter finished, unless the    *)
(* header had gone before: to a websocket, or because user code had written.  *)
Passed(f)  == f \in reached \ crossed
InTime(f)  == Passed(f) /\ answer.body \notin {"direct", "socket"}
Ended      == at = "Done" /\ reached # {}
MayBeLost  == answer.body = "cut"   \* with what is in the buffer

(* What a request left in its session is what the browser's next one starts   *)
(* with, also when it emptied the session, if SessionFilter finished and the  *)
(* header was still to be written; else the next one starts with what this    *)
(* one did: a session changed by a websocket's action, by an action that has  *)
(* written, or in a request that panics is not stored.                        *)
SessionCarriedOver ==
  Ended => \/ InTime("Session") /\ Decoded(jar.session) = session
           \/ (InTime("Session") => MayBeLost) /\ jar.session = cookies.session

(* The flash and the kept validation errors live for one request if their     *)
(* filters finish with the header still to be written: the browser is then    *)
(* left with what this request put there and nothing of what it came with.    *)
(* In every other request, one that panics among them, it keeps what it came  *)
(* with and is shown that once more.                                          *)
OneShotCookies ==
  Ended =>
    /\ \/ InTime("Flash") /\ jar.flash = flashOut
       \/ (InTime("Flash") => MayBeLost) /\ jar.flash = cookies.flash
    /\ \/ InTime("Validation") /\ ~json /\ jar.errors = (keep /\ errors)
       \/ (InTime("Validation") => MayBeLost \/ json) /\ jar.errors = cookies.errors

(* Every request gets to its end. *)
Completes == at = "Panic" ~> at = "Done"

=============================================================================
