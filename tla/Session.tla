------------------------------ MODULE Session ------------------------------
(* The session of the package session, kept in a cookie by the session        *)
(* engine revel-cookie, and the browser the cookie lives in.  Each request    *)
(* has its own copy of the session: SessionFilter decodes the cookie the      *)
(* request came with, the application works on the copy, and the answer       *)
(* carries the copy back whole.                                               *)
(*                                                                           *)
(* A session has three places for a value: the Go map itself (vals), the JSON *)
(* text it was loaded from (json, under "_object_") and the values made from  *)
(* that text so far (made, under "_map_").  A value changes its form on the   *)
(* way: what the application put as a Go value comes back from JSON as a map  *)
(* or a float64, or as a pointer when the reader names a type to read into.   *)
EXTENDS Naturals, Sequences

CONSTANTS Request,
          Key,        \* keys without a dot
          Versions,   \* versions of a value
          Inputs,     \* values the application stores
          Durations,  \* values of session.expires in ticks of the clock, 0 for "session"
          MaxClock, Steps,   \* bounds on the time and on what a request does
          SessionValueName,  \* the timestamp of a session that ends with the browser
          None

ASSUME BoundAssumption == {MaxClock, Steps} \subseteq Nat /\ Durations \subseteq Nat

Name   == {<<k>> : k \in Key} \cup {<<k, "name">> : k \in Key}   \* "user" and "user.name"
Root(n) == <<n[1]>>

(* A string; structs with the field Name as it stands, tagged json:"name", or *)
(* without it; a number or a slice; what JSON cannot hold.                    *)
Structs  == {"struct", "tagged", "fieldless"}
Objects  == Structs \cup {"number"}                   \* what goes into the JSON text
Outcomes == {"field", "nil", "panic"}                 \* what reading a field can come to
Value  == [kind : Objects \cup Outcomes \cup {"text", "func"},
           form : {"go", "json", "pointer"}, v : Versions]
ASSUME InputAssumption == Inputs \subseteq {x \in Value : x.kind \notin Outcomes /\ x.form = "go"}
InForm(x, f)  == [x EXCEPT !.form = f]
Outcome(x, k) == [x EXCEPT !.kind = k, !.form = "go"]
Content == [Name -> Value \cup {None}]
ASSUME NoneAssumption == /\ None \notin Value \cup Content \cup Nat \cup {SessionValueName}
                         /\ SessionValueName \notin Nat
Nothing == [n \in Name |-> None]

VARIABLES
  clock, duration,   \* ExpireAfterDuration
  jar,      \* the session cookie the browser holds
  req       \* req[r]: None, or the session of the request r with its history

vars == <<clock, duration, jar, req>>

Bare == [vals |-> Nothing, json |-> None, made |-> None, ts |-> None]   \* NewSession

Init ==
  /\ clock = 0 /\ duration \in Durations
  /\ jar = None
  /\ req = [r \in Request |-> None]

-----------------------------------------------------------------------------
(* The session.  A read may change it: each read below is the session after   *)
(* it and the value it found.                                                 *)

Table(t) == IF t = None THEN Nothing ELSE t
Found(s, x) == [session |-> s, value |-> x]

(* getNestedProperty.  The key is capitalized: a map made from JSON has it    *)
(* only for a field without a tag, and gives nil otherwise without an error.  *)
(* Reflection on what has no fields panics.                                   *)
NestedProperty(n, x) ==
  IF Len(n) = 1 \/ x = None THEN x
  ELSE CASE x.kind \notin Structs -> Outcome(x, "panic")
         [] x.kind = "struct" \/ (x.kind = "tagged" /\ x.form # "json") -> Outcome(x, "field")
         [] x.kind # "struct" /\ x.form = "json" -> Outcome(x, "nil")
         [] OTHER -> None

FromMap(s, n) ==
  LET kept == Table(s.made)
      text == Table(s.json)
  IN  IF kept[n] # None THEN Found([s EXCEPT !.made = kept], kept[n])
      ELSE Found([s EXCEPT !.made = [kept EXCEPT ![n] = text[n]], !.json = text], text[n])

(* Into a target of another type than the value was the text does not go.     *)
Target == {"none", "same", "other"}

FromObject(s, n, target) ==
  LET text == Table(s.json)
  IN  IF text[n] = None \/ target = "other" THEN Found([s EXCEPT !.json = text], None)
      ELSE Found([s EXCEPT !.json = text, !.vals[n] = InForm(text[n], "pointer")],
                 InForm(text[n], "pointer"))

GetInto(s, n, target, force) ==
  IF s.vals[n] # None /\ ~force THEN Found(s, s.vals[n])
  ELSE LET got == IF force /\ target = "none" THEN FromMap(s, n)
                  ELSE IF ~force /\ s.vals[Root(n)] # None THEN Found(s, s.vals[Root(n)])
                  ELSE IF target = "none" THEN FromMap(s, Root(n))
                  ELSE FromObject(s, Root(n), target)
       IN  Found(got.session, NestedProperty(n, got.value))

Set(s, n, x) == [s EXCEPT !.vals[n] = x]

\* Slip: only the value goes, not the text it was made from.
DelValueOnly(s, n) == [s EXCEPT !.vals[n] = None]

Del(s, n) == [s EXCEPT !.json = [Table(s.json) EXCEPT ![n] = None], !.vals[n] = None]

Empty(s) == s = Bare

\* Slip: a value that cannot be marshalled is written all the same.
SerializeAll(s) ==
  LET is(n, kinds) == s.vals[n] # None /\ s.vals[n].kind \in kinds
  IN  [texts   |-> [n \in Name |-> IF is(n, {"text"}) THEN s.vals[n] ELSE None],
       objects |-> [n \in Name |-> IF is(n, Objects \cup {"func"}) THEN InForm(s.vals[n], "json")
                                   ELSE Table(s.json)[n]]]

(* What cannot be marshalled is logged and the text of before is kept; a      *)
(* string leaves the text of an earlier object in place.                      *)
Serialize(s) ==
  LET is(n, kinds) == s.vals[n] # None /\ s.vals[n].kind \in kinds
  IN  [texts   |-> [n \in Name |-> IF is(n, {"text"}) THEN s.vals[n] ELSE None],
       objects |-> [n \in Name |-> IF is(n, Objects) THEN InForm(s.vals[n], "json")
                                   ELSE Table(s.json)[n]]]

Load(d, ts) ==
  [vals |-> d.texts, json |-> IF d.objects = Nothing THEN None ELSE d.objects,
   made |-> None, ts |-> ts]

SessionTimeoutExpiredOrMissing(s) == s.ts = None \/ (s.ts # SessionValueName /\ s.ts < clock)

-----------------------------------------------------------------------------
(* The cookie engine and SessionFilter.                                       *)

(* DecodeCookie; sound says that the signature verifies.                      *)
Decode(c) ==
  IF c = None \/ ~c.sound THEN Bare
  ELSE LET s == Load(c.data, c.ts)
       IN  IF SessionTimeoutExpiredOrMissing(s) THEN Bare ELSE s

\* Slip: a session that has an expiry keeps it.
ExpiryKept(s) ==
  IF duration = 0 \/ s.ts = SessionValueName THEN SessionValueName ELSE IF s.ts = None THEN clock + duration ELSE s.ts

(* GetExpiration and the timestamp GetCookie makes of it.                     *)
Expiry(s) == IF duration = 0 \/ s.ts = SessionValueName THEN SessionValueName ELSE clock + duration

Lasts(q) == q.endless \/ duration = 0

(* What is left of a value when the request is over: a string, or JSON.       *)
Left(x) == IF x = None \/ x.kind = "text" THEN x ELSE InForm(x, "json")

(* GetCookie: Max-Age is the duration also when the session should end with   *)
(* the browser.  left, at and life are for the properties: what the request   *)
(* left under each name, when it ended and how long that was to last.         *)
Cookie(s, q) ==
  [data |-> Serialize(s), ts |-> Expiry(s),
   maxAge |-> IF duration = 0 THEN None ELSE clock + duration, sound |-> TRUE,
   left |-> [n \in Name |-> Left(q.truth[n])], at |-> IF Lasts(q) THEN 0 ELSE clock, life |-> IF Lasts(q) THEN None ELSE duration]

Unsound == [Cookie(Bare, [truth |-> Nothing, endless |-> TRUE]) EXCEPT !.sound = FALSE]

(* life and at say whether the session the request came with should be there. *)
Due(c) == c # None /\ c.sound /\ (c.life = None \/ clock - c.at <= c.life)

Arrive(r) ==
  /\ req[r] = None
  /\ LET s == Decode(jar)
     IN  req' = [req EXCEPT ![r] =
           [session |-> s, wasEmpty |-> Empty(s), steps |-> 0,
            truth |-> IF Due(jar) THEN jar.left ELSE Nothing,
            deleted |-> {}, endless |-> Due(jar) /\ jar.life = None, due |-> Due(jar)]]
  /\ UNCHANGED <<clock, duration, jar>>

Live(r) == req[r] # None /\ req[r].steps < Steps

Becomes(r, q) ==
  /\ req' = [req EXCEPT ![r] = [q EXCEPT !.steps = @ + 1]]
  /\ UNCHANGED <<clock, duration, jar>>

(* Get, GetInto and GetDefault.  A read that is forced brings the object of   *)
(* the cookie back on purpose.  A panic is the end of the request.            *)
Read(r, n, target, force) ==
  /\ Live(r)
  /\ LET q   == req[r]
         got == GetInto(q.session, n, target, force)
         back == force /\ target = "same" /\ got.session.vals[Root(n)] # q.session.vals[Root(n)]
     IN  IF got.value # None /\ got.value.kind = "panic"
         THEN req' = [req EXCEPT ![r] = None] /\ UNCHANGED <<clock, duration, jar>>
         ELSE Becomes(r, [q EXCEPT !.session = got.session,
                !.truth = IF back THEN [@ EXCEPT ![Root(n)] = got.session.vals[Root(n)]] ELSE @])

Write(r, n, x) ==
  /\ Live(r)
  /\ Becomes(r, [req[r] EXCEPT !.session = Set(@, n, x), !.truth[n] = x, !.deleted = @ \ {n}])

(* Del, and Set of nil.                                                       *)
Remove(r, n) ==
  /\ Live(r)
  /\ Becomes(r, [req[r] EXCEPT !.session = Del(@, n), !.truth[n] = None, !.deleted = @ \cup {n}])

SetNoExpiration(r) ==
  /\ Live(r)
  /\ Becomes(r, [req[r] EXCEPT !.session.ts = SessionValueName, !.endless = TRUE])

SetDefaultExpiration(r) ==
  /\ Live(r)
  /\ Becomes(r, [req[r] EXCEPT !.session.ts = None, !.endless = FALSE])

(* The answer: the cookie is written when there is or was a session.  That    *)
(* GetCookie panics on a null byte is like Fail.                              *)
Encodes(q) == ~Empty(q.session) \/ ~q.wasEmpty

Answer(r) ==
  /\ req[r] # None
  /\ jar' = IF Encodes(req[r]) THEN Cookie(req[r].session, req[r]) ELSE jar
  /\ req' = [req EXCEPT ![r] = None]
  /\ UNCHANGED <<clock, duration>>

(* The action panics: SessionFilter does not come to its second half.         *)
Fail(r) ==
  /\ req[r] # None
  /\ req' = [req EXCEPT ![r] = None]
  /\ UNCHANGED <<clock, duration, jar>>

Tick ==
  /\ clock < MaxClock
  /\ clock' = clock + 1
  /\ UNCHANGED <<duration, jar, req>>

-----------------------------------------------------------------------------
(* The browser, and the administrator.                                        *)

(* The browser gives up a cookie past its age and, closed, one without an age. *)
Forget ==
  /\ jar # None
  /\ jar.maxAge # None => jar.maxAge < clock
  /\ jar' = None
  /\ UNCHANGED <<clock, duration, req>>

(* A restart with another session.expires, or with another secret: no cookie  *)
(* signed before is read any more, whatever it holds.                         *)
Restart ==
  /\ \A r \in Request : req[r] = None
  /\ duration' \in Durations
  /\ \/ UNCHANGED jar
     \/ jar # None /\ jar' = Unsound
  /\ UNCHANGED <<clock, req>>

Next ==
  \/ \E r \in Request :
       \/ Arrive(r) \/ Answer(r) \/ Fail(r)
       \/ SetNoExpiration(r) \/ SetDefaultExpiration(r)
       \/ \E n \in Name : \/ \E target \in Target, force \in BOOLEAN : Read(r, n, target, force)
                          \/ \E x \in Inputs : Write(r, n, x)
                          \/ Remove(r, n)
  \/ Tick \/ Forget \/ Restart

Spec == Init /\ [][Next]_vars

-----------------------------------------------------------------------------
(* Properties.                                                                *)

Time     == {t + d : t \in 0..MaxClock, d \in Durations \cup {0}}
Texts    == {x \in Inputs : x.kind = "text"}
Jsons    == {InForm(x, "json") : x \in {y \in Inputs : y.kind \in Objects}}
Stored   == Inputs \cup {InForm(x, "pointer") : x \in Jsons}
Lasting  == Inputs \cup {InForm(x, "json") : x \in Inputs}
Under(S) == [Name -> S \cup {None}]     \* what may stand under each name

Sessions == [vals : Under(Stored), json : Under(Jsons) \cup {None},
             made : Under(Jsons) \cup {None}, ts : Time \cup {None, SessionValueName}]
Cookies  == [data : [texts : Under(Texts), objects : Under(Jsons)],
             ts : Time \cup {SessionValueName}, maxAge : Time \cup {None}, sound : BOOLEAN,
             left : Under(Lasting), at : 0..MaxClock, life : Durations \cup {None}]
Requests == [session : Sessions, wasEmpty : BOOLEAN, steps : 0..Steps, truth : Under(Stored \cup Lasting),
             deleted : SUBSET Name, endless : BOOLEAN, due : BOOLEAN]

(* Type invariant: a session holds what was put and pointers to what was read *)
(* into a type, its JSON text, the values made from it and the object part of *)
(* a cookie only what can be marshalled, in its JSON form (Session,           *)
(* session.go).                                                               *)
TypeOK ==
  /\ clock \in 0..MaxClock /\ duration \in Durations
  /\ jar \in Cookies \cup {None}
  /\ req \in [Request -> Requests \cup {None}]

(* The forms in which the request may find x: as it was put, or a pointer to  *)
(* it, in the same request; from a cookie in its JSON form unless it is read  *)
(* into a type, and into another type not at all, until it was read into its  *)
(* own.                                                                       *)
Forms(x, target) ==
  IF x = None \/ x.form # "json" THEN {x}
  ELSE {InForm(x, "pointer")} \cup (IF target = "none" THEN {x}
                                   ELSE IF target = "other" THEN {None} ELSE {})

(* Whatever a request reads, unless it forces the read, is what the           *)
(* application has put under the name last, in this request or in the one     *)
(* that wrote the cookie it came with, in one of its forms, and nothing if    *)
(* that was removed: through marshalling and unmarshalling and whatever reads *)
(* before it have copied to other places of the session (GetInto, Serialize,  *)
(* Load).  A field is that of such a form: a map made from JSON has no field  *)
(* with a tag.  Excepted: what this very request has removed may be found     *)
(* again; in the next request what JSON cannot hold is not there, nor what is *)
(* no string and was stored under a name with a dot.                          *)
ReadsAreHonest ==
  \A r \in Request, n \in Name, target \in Target : req[r] # None =>
    LET t     == req[r].truth
        put   == IF t[n] # None THEN t[n] ELSE t[Root(n)]
        found == GetInto(req[r].session, n, target, FALSE).value
    IN  \/ /\ t[n] # None
           /\ found \in Forms(t[n], target)
        \/ /\ t[n] = None
           /\ found \in {NestedProperty(n, x) : x \in Forms(t[Root(n)], target)}
        \/ {n, Root(n)} \cap req[r].deleted # {}
        \/ /\ put # None /\ put.form = "json"
           /\ put.kind = "func" \/ (t[n] # None /\ n # Root(n))

(* A request has the session of its cookie exactly when no more than the      *)
(* duration has gone by since the request that wrote it ended, or it is to    *)
(* last as long as the browser, across restarts with other durations: each    *)
(* answer extends a session and no answer but the last counts (GetCookie,     *)
(* SessionTimeoutExpiredOrMissing).                                           *)
SessionLivesItsDuration ==
  \A r \in Request : req[r] # None => (req[r].due <=> ~req[r].wasEmpty)
=============================================================================
