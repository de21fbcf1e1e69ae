--------------------------- MODULE SessionProofs ---------------------------
(* Theorems about the session, for any number of requests, keys, values and   *)
(* durations, and however far the clock runs.                                 *)
EXTENDS Session, TLAPS

(* What the application has put under a name, x, is the value in the session  *)
(* or cookie, or a pointer to what was read of it, or without a value its     *)
(* text; unless it has come to JSON that cannot hold it.                      *)
Faithful(x, value, text) ==
  \/ x # None /\ x.kind = "func" /\ x.form = "json"
  \/ value # None /\ value = x
  \/ value # None /\ x # None /\ x.form = "json" /\ value = InForm(x, "pointer")
  \/ value = None /\ text = x

(* A map made from the text is as the text, until the name is deleted.        *)
SessionRight(q) ==
  LET s == q.session
  IN \A n \in Name :
       /\ Faithful(q.truth[n], s.vals[n], Table(s.json)[n])
       /\ n \notin q.deleted /\ s.vals[n] = None /\ Table(s.made)[n] # None =>
            Table(s.made)[n] = Table(s.json)[n]

RequestRight(q) ==
  /\ SessionRight(q)
  /\ q.endless <=> q.session.ts = SessionValueName
  /\ q.due <=> ~q.wasEmpty

(* A cookie holds what the request that wrote it has left, and its timestamp  *)
(* is the end of the duration since.                                          *)
CookieRight(c) ==
  c.sound =>
    /\ \A n \in Name : Faithful(c.left[n], c.data.texts[n], c.data.objects[n])
    /\ c.ts = SessionValueName <=> c.life = None
    /\ c.life # None => c.ts = c.at + c.life /\ c.at <= clock

IInv ==
  /\ TypeOK
  /\ jar # None => CookieRight(jar)
  /\ \A r \in Request : req[r] # None => RequestRight(req[r])

-----------------------------------------------------------------------------
(* Names, tables and values. *)

LEMMA NameFacts ==
  ASSUME NEW n \in Name
  PROVE  /\ Root(n) \in Name /\ Root(Root(n)) = Root(n)
         /\ Len(n) = 1 <=> n = Root(n)
<1>1. CASE \E k \in Key : n = <<k>>
  BY <1>1 DEF Name, Root
<1>2. CASE \E k \in Key : n = <<k, "name">>
  <2>1. PICK k \in Key : n = <<k, "name">>
    BY <1>2
  <2>2. Root(n) = <<k>> /\ Len(n) = 2 /\ Len(<<k>>) = 1
    BY <2>1 DEF Root
  <2>3. n # Root(n)
    BY <2>2
  <2> QED
    BY <2>1, <2>2, <2>3 DEF Name, Root
<1> QED
  BY <1>1, <1>2 DEF Name

Kinds == Objects \cup {"text", "func"}

LEMMA FormFacts ==
  ASSUME NEW x \in Value, NEW f \in {"go", "json", "pointer"}
  PROVE  /\ InForm(x, f) \in Value /\ InForm(x, f) # None
         /\ InForm(x, f).kind = x.kind /\ InForm(x, f).form = f
         /\ \A g \in {"go", "json", "pointer"} : InForm(InForm(x, g), f) = InForm(x, f)
         /\ x.form = f => InForm(x, f) = x
<1>1. PICK k \in Objects \cup Outcomes \cup {"text", "func"}, g \in {"go", "json", "pointer"},
           v \in Versions : x = [kind |-> k, form |-> g, v |-> v]
  BY DEF Value
<1>2. InForm(x, f) = [kind |-> k, form |-> f, v |-> v]
  BY <1>1 DEF InForm
<1>3. InForm(x, f) \in Value
  BY <1>1, <1>2 DEF Value
<1>4. \A h \in {"go", "json", "pointer"} : InForm(InForm(x, h), f) = InForm(x, f)
  BY <1>1 DEF InForm
<1> QED
  BY <1>1, <1>2, <1>3, <1>4, NoneAssumption

LEMMA InputFacts ==
  /\ None \notin Nat /\ SessionValueName \notin Nat /\ None # SessionValueName
  /\ Inputs \subseteq Value /\ Texts \subseteq Inputs
  /\ Inputs \subseteq Stored /\ Inputs \subseteq Lasting /\ Jsons \subseteq Lasting
  /\ None \notin Value
  /\ \A x \in Inputs : x.kind \in Kinds /\ x.form = "go"
  BY NoneAssumption, InputAssumption DEF Value, Texts, Kinds, Objects, Structs, Outcomes, Stored, Lasting, Jsons

(* The values of each place, with their kinds and forms. *)
LEMMA PlaceFacts ==
  /\ \A x \in Jsons : /\ x \in Value /\ x.kind \in Objects /\ x.form = "json"
                      /\ InForm(x, "pointer") \in Stored
                      /\ InForm(InForm(x, "pointer"), "json") = x
  /\ \A x \in Stored : /\ x \in Value /\ x.kind \in Kinds
                       /\ x.kind \in Objects => InForm(x, "json") \in Jsons
                       /\ x.kind = "text" => x \in Texts
                       /\ InForm(x, "json") \in Lasting
                       /\ x.form \in {"go", "pointer"}
  /\ \A x \in Lasting : /\ x \in Value /\ x.kind \in Kinds /\ InForm(x, "json") \in Lasting
                        /\ x.form \in {"go", "json"}
                        /\ x.form = "json" /\ x.kind \in Objects => x \in Jsons
<1>0. "func" \notin Objects /\ "text" \notin Objects /\ Objects \subseteq Kinds
  BY DEF Objects, Structs, Kinds
<1>1. ASSUME NEW x \in Inputs
      PROVE  /\ x \in Value /\ x.kind \in Kinds /\ x.form = "go"
             /\ InForm(x, "json") \in Value /\ InForm(x, "json").kind = x.kind
             /\ InForm(x, "json").form = "json" /\ InForm(InForm(x, "json"), "json") = InForm(x, "json")
  BY InputFacts, FormFacts
<1>2. ASSUME NEW x \in Jsons
      PROVE  /\ x \in Value /\ x.kind \in Objects /\ x.form = "json"
             /\ InForm(x, "pointer") \in Stored
             /\ InForm(InForm(x, "pointer"), "json") = x
             /\ InForm(x, "pointer") \in Value /\ InForm(x, "pointer").kind = x.kind
             /\ InForm(x, "pointer").form = "pointer"
  <2>1. x \in Value /\ x.kind \in Objects /\ x.form = "json"
    BY <1>1 DEF Jsons
  <2>2. InForm(x, "pointer") \in Stored
    BY DEF Stored
  <2> QED
    BY <2>1, <2>2, FormFacts
<1>3. ASSUME NEW x \in Stored
      PROVE  /\ x \in Value /\ x.kind \in Kinds
             /\ x.kind \in Objects => InForm(x, "json") \in Jsons
             /\ x.kind = "text" => x \in Texts
             /\ InForm(x, "json") \in Lasting
             /\ x.form \in {"go", "pointer"}
  <2>1. CASE x \in Inputs
    BY <1>1, <2>1 DEF Jsons, Lasting, Texts
  <2>2. CASE x \notin Inputs
    <3>1. PICK y \in Jsons : x = InForm(y, "pointer")
      BY <2>2 DEF Stored
    <3>2. InForm(x, "json") = y /\ y \in Lasting
      BY <1>2, <3>1, InputFacts
    <3> QED
      BY <1>0, <1>2, <3>1, <3>2
  <2> QED
    BY <2>1, <2>2
<1>4. ASSUME NEW x \in Lasting
      PROVE  /\ x \in Value /\ x.kind \in Kinds /\ InForm(x, "json") \in Lasting
             /\ x.form \in {"go", "json"}
             /\ x.form = "json" /\ x.kind \in Objects => x \in Jsons
  <2>1. CASE x \in Inputs
    BY <1>1, <2>1 DEF Lasting
  <2>2. CASE x \notin Inputs
    <3>1. PICK y \in Inputs : x = InForm(y, "json")
      BY <2>2 DEF Lasting
    <3> QED
      BY <1>1, <3>1 DEF Lasting, Jsons
  <2> QED
    BY <2>1, <2>2
<1> QED
  BY <1>2, <1>3, <1>4

(* What is remembered of a value is one that is or was stored. *)
LEMMA TruthFacts ==
  ASSUME NEW x \in Stored \cup Lasting \cup {None}
  PROVE  /\ Left(x) \in Lasting \cup {None}
         /\ x # None => x \in Value
         /\ x # None /\ x.form = "json" /\ x.kind # "func" => x \in Jsons \/ x.kind = "text"
<1>1. CASE x = None
  BY <1>1 DEF Left
<1>2. CASE x # None /\ x \in Stored
  <2>1. x \in Value /\ InForm(x, "json") \in Lasting /\ (x.kind = "text" => x \in Texts)
        /\ x.form # "json"
    BY <1>2, PlaceFacts
  <2> QED
    BY <1>2, <2>1, InputFacts DEF Left
<1>3. CASE x # None /\ x \in Lasting
  <2>1. x \in Value /\ InForm(x, "json") \in Lasting /\ x.kind \in Kinds
        /\ (x.form = "json" /\ x.kind \in Objects => x \in Jsons)
    BY <1>3, PlaceFacts
  <2> QED
    BY <1>3, <2>1 DEF Left, Kinds
<1> QED
  BY <1>1, <1>2, <1>3

LEMMA TableFacts ==
  ASSUME NEW x \in Under(Jsons) \cup {None}
  PROVE  /\ Table(x) \in Under(Jsons) /\ Table(Table(x)) = Table(x)
         /\ None \notin Under(Jsons)
<1>1. Jsons \subseteq Value
  BY PlaceFacts
<1>2. Under(Jsons) \subseteq Content
  BY <1>1 DEF Under, Content
<1>3. None \notin Under(Jsons)
  BY <1>2, NoneAssumption
<1>4. Nothing \in Under(Jsons)
  BY DEF Nothing, Under
<1> QED
  BY <1>3, <1>4 DEF Table

-----------------------------------------------------------------------------
(* Reads. *)

(* What a read does to a session: a value may come back from the text, and a  *)
(* map may be made from it. *)
ReadsTo(s, g, n, target, force) ==
  /\ g \in Sessions /\ g.ts = s.ts /\ Table(g.json) = Table(s.json)
  /\ \A m \in Name :
       \/ g.vals[m] = s.vals[m]
       \/ /\ target = "same" /\ m = Root(n) /\ (force \/ s.vals[m] = None)
          /\ Table(s.json)[m] # None /\ g.vals[m] = InForm(Table(s.json)[m], "pointer")
  /\ \A m \in Name : \/ Table(g.made)[m] = Table(s.made)[m]
                     \/ Table(g.made)[m] = Table(s.json)[m]

LEMMA NoRead ==
  ASSUME NEW s \in Sessions, NEW n, NEW target, NEW force PROVE ReadsTo(s, s, n, target, force)
  BY DEF ReadsTo

LEMMA FromMapFacts ==
  ASSUME NEW s \in Sessions, NEW n \in Name, NEW k, NEW target, NEW force
  PROVE  /\ ReadsTo(s, FromMap(s, n).session, k, target, force)
         /\ FromMap(s, n).value = IF Table(s.made)[n] # None THEN Table(s.made)[n]
                                  ELSE Table(s.json)[n]
<1> DEFINE kept == Table(s.made)
           text == Table(s.json)
           filled == [kept EXCEPT ![n] = text[n]]
<1>1. kept \in Under(Jsons) /\ text \in Under(Jsons)
      /\ Table(kept) = kept /\ Table(text) = text
  BY TableFacts DEF Sessions
<1>2. filled \in Under(Jsons) /\ Table(filled) = filled
  <2>1. filled \in Under(Jsons)
    BY <1>1 DEF Under
  <2> QED
    BY <2>1, TableFacts DEF Table
<1> HIDE DEF kept, text, filled
<1>3. CASE kept[n] # None
  <2> DEFINE g == [s EXCEPT !.made = kept]
  <2>1. FromMap(s, n) = Found(g, kept[n])
    BY <1>3 DEF FromMap, kept
  <2>2. g \in Sessions /\ g.ts = s.ts /\ g.json = s.json /\ g.vals = s.vals /\ g.made = kept
    BY <1>1 DEF Sessions
  <2> HIDE DEF g
  <2>3. Table(g.made) = Table(s.made)
    BY <1>1, <2>2 DEF kept
  <2>4. ReadsTo(s, g, k, target, force)
    BY <2>2, <2>3 DEF ReadsTo
  <2> QED
    BY <1>3, <2>1, <2>4 DEF Found, kept
<1>4. CASE kept[n] = None
  <2> DEFINE g == [s EXCEPT !.made = filled, !.json = text]
  <2>1. FromMap(s, n) = Found(g, text[n])
    BY <1>4 DEF FromMap, kept, text, filled
  <2>2. g \in Sessions /\ g.ts = s.ts /\ g.json = text /\ g.vals = s.vals /\ g.made = filled
    BY <1>1, <1>2 DEF Sessions
  <2> HIDE DEF g
  <2>3. Table(g.json) = Table(s.json)
    BY <1>1, <2>2 DEF text
  <2>4. ASSUME NEW m \in Name
        PROVE  Table(g.made)[m] = Table(s.made)[m] \/ Table(g.made)[m] = Table(s.json)[m]
    <3>1. Table(g.made)[m] = filled[m]
      BY <1>2, <2>2
    <3>2. filled[m] = IF m = n THEN text[m] ELSE kept[m]
      BY <1>1 DEF filled, Under
    <3> QED
      BY <3>1, <3>2 DEF kept, text
  <2>5. ReadsTo(s, g, k, target, force)
    BY <2>2, <2>3, <2>4 DEF ReadsTo
  <2> QED
    BY <1>4, <2>1, <2>5 DEF Found, kept, text
<1> QED
  BY <1>3, <1>4

LEMMA FromObjectFacts ==
  ASSUME NEW s \in Sessions, NEW n \in Name, NEW target \in {"same", "other"}, NEW force \in BOOLEAN,
         force \/ s.vals[Root(n)] = None
  PROVE  /\ ReadsTo(s, FromObject(s, Root(n), target).session, n, target, force)
         /\ FromObject(s, Root(n), target).value =
              IF Table(s.json)[Root(n)] = None \/ target = "other" THEN None
              ELSE InForm(Table(s.json)[Root(n)], "pointer")
<1> DEFINE text == Table(s.json)
           k == Root(n)
           back == InForm(text[k], "pointer")
           filled == [s.vals EXCEPT ![k] = back]
           g == [s EXCEPT !.json = text, !.vals = filled]
           h == [s EXCEPT !.json = text]
<1>1. k \in Name
  BY NameFacts
<1>2. text \in Under(Jsons) /\ Table(text) = text
  BY TableFacts DEF Sessions
<1>3. s.vals \in Under(Stored)
  BY DEF Sessions
<1>4. CASE text[k] = None \/ target = "other"
  <2>1. FromObject(s, k, target) = Found(h, None)
    BY <1>4 DEF FromObject
  <2> HIDE DEF text
  <2>2. h \in Sessions /\ h.ts = s.ts /\ h.json = text /\ h.vals = s.vals /\ h.made = s.made
    BY <1>2 DEF Sessions
  <2> HIDE DEF h
  <2>3. Table(h.json) = text
    BY <1>2, <2>2
  <2>4. ReadsTo(s, h, n, target, force)
    BY <2>2, <2>3 DEF ReadsTo, text
  <2>5. FromObject(s, k, target).session = h /\ FromObject(s, k, target).value = None
    BY <2>1 DEF Found
  <2> QED
    BY <1>4, <2>4, <2>5 DEF text, k
<1>5. CASE text[k] # None /\ target # "other"
  <2>1. FromObject(s, k, target) = Found(g, back) /\ target = "same"
    BY <1>5 DEF FromObject
  <2>2. text[k] \in Jsons
    BY <1>1, <1>2, <1>5 DEF Under
  <2>3. back \in Stored
    BY <2>2, PlaceFacts
  <2> HIDE DEF text, k, back
  <2>4. filled \in Under(Stored)
    BY <1>1, <1>3, <2>3 DEF Under
  <2>5. \A m \in Name : filled[m] = IF m = k THEN back ELSE s.vals[m]
    BY <1>3 DEF Under
  <2> HIDE DEF filled
  <2>6. g \in Sessions /\ g.ts = s.ts /\ g.json = text /\ g.vals = filled /\ g.made = s.made
    BY <1>2, <2>4 DEF Sessions
  <2> HIDE DEF g
  <2>7. Table(g.json) = text
    BY <1>2, <2>6
  <2>8. ASSUME NEW m \in Name
        PROVE  \/ g.vals[m] = s.vals[m]
               \/ m = k /\ (force \/ s.vals[m] = None) /\ text[m] # None /\ g.vals[m] = InForm(text[m], "pointer")
    BY <1>5, <2>5, <2>6 DEF k, back
  <2>9. ReadsTo(s, g, n, target, force)
    BY <2>1, <2>6, <2>7, <2>8 DEF ReadsTo, text, k
  <2>10. FromObject(s, k, target).session = g /\ FromObject(s, k, target).value = back
    BY <2>1 DEF Found
  <2> QED
    BY <1>5, <2>9, <2>10 DEF text, k, back
<1> QED
  BY <1>4, <1>5

LEMMA ReadFacts ==
  ASSUME NEW s \in Sessions, NEW n \in Name, NEW target \in Target, NEW force \in BOOLEAN
  PROVE  ReadsTo(s, GetInto(s, n, target, force).session, n, target, force)
<1> DEFINE g == GetInto(s, n, target, force)
<1>1. CASE s.vals[n] # None /\ ~force
  <2>1. g.session = s
    BY <1>1 DEF GetInto, Found
  <2> QED
    BY <2>1, NoRead
<1>2. CASE force /\ target = "none"
  <2>1. g.session = FromMap(s, n).session
    BY <1>2 DEF GetInto, Found
  <2> QED
    BY <2>1, FromMapFacts
<1>3. CASE ~force /\ s.vals[n] = None /\ s.vals[Root(n)] # None
  <2>1. g.session = s
    BY <1>3 DEF GetInto, Found
  <2> QED
    BY <2>1, NoRead
<1>4. CASE target # "none" /\ (force \/ (s.vals[n] = None /\ s.vals[Root(n)] = None))
  <2>1. g.session = FromObject(s, Root(n), target).session
    BY <1>4 DEF GetInto, Found
  <2>2. target \in {"same", "other"}
    BY <1>4 DEF Target
  <2> QED
    BY <1>4, <2>1, <2>2, FromObjectFacts
<1>5. CASE target = "none" /\ ~force /\ s.vals[n] = None /\ s.vals[Root(n)] = None
  <2>1. g.session = FromMap(s, Root(n)).session
    BY <1>5 DEF GetInto, Found
  <2> QED
    BY <2>1, NameFacts, FromMapFacts
<1> QED
  BY <1>1, <1>2, <1>3, <1>4, <1>5

(* What a read that is not forced finds. *)
LEMMA FoundFacts ==
  ASSUME NEW s \in Sessions, NEW n \in Name, NEW target \in Target
  PROVE  GetInto(s, n, target, FALSE).value =
           LET k    == Root(n)
               text == Table(s.json)
               kept == Table(s.made)
           IN  IF s.vals[n] # None THEN s.vals[n]
               ELSE NestedProperty(n,
                 IF s.vals[k] # None THEN s.vals[k]
                 ELSE IF target = "none" THEN IF kept[k] # None THEN kept[k] ELSE text[k]
                 ELSE IF text[k] = None \/ target = "other" THEN None ELSE InForm(text[k], "pointer"))
<1> DEFINE g == GetInto(s, n, target, FALSE)
<1>1. CASE s.vals[n] # None
  BY <1>1 DEF GetInto, Found
<1>2. CASE s.vals[n] = None /\ s.vals[Root(n)] # None
  BY <1>2 DEF GetInto, Found
<1>3. CASE s.vals[n] = None /\ s.vals[Root(n)] = None /\ target # "none"
  <2>1. g.value = NestedProperty(n, FromObject(s, Root(n), target).value)
    BY <1>3 DEF GetInto, Found
  <2>2. target \in {"same", "other"}
    BY <1>3 DEF Target
  <2> QED
    BY <1>3, <2>1, <2>2, FromObjectFacts
<1>4. CASE s.vals[n] = None /\ s.vals[Root(n)] = None /\ target = "none"
  <2>1. g.value = NestedProperty(n, FromMap(s, Root(n)).value)
    BY <1>4 DEF GetInto, Found
  <2>2. Root(n) \in Name
    BY NameFacts
  <2> QED
    BY <1>4, <2>1, <2>2, FromMapFacts
<1> QED
  BY <1>1, <1>2, <1>3, <1>4

(* The property, for one session that is right. *)
LEMMA HonestFacts ==
  ASSUME NEW q, q \in Requests, SessionRight(q), NEW n \in Name, NEW target \in Target,
         {n, Root(n)} \cap q.deleted = {}
  PROVE  LET t     == q.truth
             put   == IF t[n] # None THEN t[n] ELSE t[Root(n)]
             found == GetInto(q.session, n, target, FALSE).value
         IN  \/ t[n] # None /\ found \in Forms(t[n], target)
             \/ t[n] = None /\ found \in {NestedProperty(n, x) : x \in Forms(t[Root(n)], target)}
             \/ /\ put # None /\ put.form = "json"
                /\ put.kind = "func" \/ (t[n] # None /\ n # Root(n))
<1> DEFINE s == q.session
           t == q.truth
           k == Root(n)
           text == Table(s.json)
           kept == Table(s.made)
           root == IF s.vals[k] # None THEN s.vals[k]
                   ELSE IF target = "none" THEN IF kept[k] # None THEN kept[k] ELSE text[k]
                   ELSE IF text[k] = None \/ target = "other" THEN None ELSE InForm(text[k], "pointer")
           found == GetInto(s, n, target, FALSE).value
<1>1. k \in Name /\ Root(k) = k /\ (Len(n) = 1 <=> n = k)
  BY NameFacts
<1>2. s \in Sessions /\ t \in Under(Stored \cup Lasting) /\ text \in Under(Jsons)
  BY TableFacts DEF Requests, Sessions
<1>3. /\ Faithful(t[n], s.vals[n], text[n]) /\ Faithful(t[k], s.vals[k], text[k])
      /\ s.vals[k] = None /\ kept[k] # None => kept[k] = text[k]
  BY <1>1 DEF SessionRight
<1>4. found = IF s.vals[n] # None THEN s.vals[n] ELSE NestedProperty(n, root)
  BY <1>2, FoundFacts
<1>5. /\ text[n] \in Jsons \cup {None} /\ text[k] \in Jsons \cup {None}
      /\ \A x \in Jsons : x # None /\ x.form = "json"
  BY <1>1, <1>2, PlaceFacts, InputFacts DEF Under
<1> HIDE DEF s, t, k, text, kept, found, root
<1>6. ASSUME NEW m \in {n, k}, t[m] # None, ~(t[m].kind = "func" /\ t[m].form = "json"),
             s.vals[m] # None
      PROVE  s.vals[m] \in Forms(t[m], target)
  <2>1. Faithful(t[m], s.vals[m], text[m])
    BY <1>3
  <2>2. CASE s.vals[m] = InForm(t[m], "pointer") /\ t[m].form = "json"
    BY <1>6, <2>2 DEF Forms
  <2>3. CASE s.vals[m] = t[m] /\ t[m].form # "json"
    BY <2>3 DEF Forms
  <2>4. s.vals[m] \in Stored \cup {None}
    BY <1>1, <1>2 DEF Sessions, Under
  <2>5. s.vals[m] = t[m] /\ t[m].form = "json" => FALSE
    BY <1>6, <2>4, PlaceFacts
  <2> QED
    BY <1>6, <2>1, <2>2, <2>3, <2>5 DEF Faithful
<1>7. ASSUME t[k] # None => ~(t[k].kind = "func" /\ t[k].form = "json")
      PROVE  root \in Forms(t[k], target)
  <2>1. CASE s.vals[k] # None
    <3>1. t[k] # None
      BY <1>3, <2>1 DEF Faithful
    <3> QED
      BY <1>6, <1>7, <2>1, <3>1 DEF root
  <2>2. CASE s.vals[k] = None
    <3>1. text[k] = t[k]
      BY <1>3, <1>7, <2>2 DEF Faithful
    <3>2. CASE target = "none"
      BY <1>3, <1>5, <2>2, <3>1, <3>2 DEF root, Forms
    <3>3. CASE target = "other"
      <4>1. root = None
        BY <2>2, <3>3 DEF root
      <4> QED
        BY <1>5, <3>1, <3>3, <4>1 DEF Forms
    <3>4. CASE target \notin {"none", "other"}
      <4>1. root = IF text[k] = None THEN None ELSE InForm(text[k], "pointer")
        BY <2>2, <3>4 DEF root
      <4> QED
        BY <1>5, <3>1, <4>1 DEF Forms
    <3> QED
      BY <3>2, <3>3, <3>4
  <2> QED
    BY <2>1, <2>2
<1>8. CASE t[n] = None
  <2>1. s.vals[n] = None
    BY <1>3, <1>8 DEF Faithful
  <2>2. found = NestedProperty(n, root)
    BY <1>4, <2>1
  <2> QED
    BY <1>7, <1>8, <2>2 DEF found, s, t, k
<1>9. CASE t[n] # None
  <2>1. CASE t[n].form = "json" /\ (t[n].kind = "func" \/ n # k)
    BY <1>9, <2>1 DEF t, k
  <2>2. CASE ~(t[n].form = "json" /\ (t[n].kind = "func" \/ n # k))
    <3>1. CASE s.vals[n] # None
      BY <1>4, <1>6, <1>9, <2>2, <3>1 DEF found, s, t
    <3>2. CASE s.vals[n] = None
      <4>1. text[n] = t[n]
        BY <1>3, <2>2, <3>2 DEF Faithful
      <4>2. t[n].form = "json"
        BY <1>5, <1>9, <4>1
      <4>3. n = k
        BY <2>2, <4>2
      <4>4. found = root
        BY <1>1, <1>4, <3>2, <4>3 DEF NestedProperty
      <4> QED
        BY <1>7, <1>9, <2>2, <4>3, <4>4 DEF found, s, t
    <3> QED
      BY <3>1, <3>2
  <2> QED
    BY <2>1, <2>2
<1> QED
  BY <1>8, <1>9

-----------------------------------------------------------------------------
(* The invariant is inductive. *)

(* A step of the application leaves its request right.  *)
LEMMA BecomesKeeps ==
  ASSUME IInv, NEW r \in Request, Live(r),
         NEW q \in Requests, q.steps = req[r].steps, RequestRight(q), Becomes(r, q)
  PROVE  IInv'
<1> DEFINE p == [q EXCEPT !.steps = @ + 1]
<1>1. /\ req' = [req EXCEPT ![r] = p] /\ clock' = clock /\ duration' = duration /\ jar' = jar
  BY DEF Becomes
<1>2. TypeOK /\ req \in [Request -> Requests \cup {None}] /\ req[r] \in Requests
  BY DEF IInv, TypeOK, Live
<1>3. q.steps + 1 \in 0..Steps
  BY <1>2, BoundAssumption DEF Live, Requests
<1>4. /\ p \in Requests /\ p.session = q.session /\ p.wasEmpty = q.wasEmpty /\ p.truth = q.truth
      /\ p.deleted = q.deleted /\ p.endless = q.endless /\ p.due = q.due
  BY <1>3 DEF Requests
<1> HIDE DEF p
<1>5. RequestRight(p)
  BY <1>4 DEF RequestRight, SessionRight
<1>6. TypeOK'
  BY <1>1, <1>2, <1>4 DEF TypeOK
<1>7. (jar # None => CookieRight(jar))'
  BY <1>1 DEF IInv, CookieRight
<1>8. ASSUME NEW k \in Request, req'[k] # None PROVE RequestRight(req'[k])
  <2>1. req'[k] = IF k = r THEN p ELSE req[k]
    BY <1>1, <1>2
  <2> QED
    BY <1>5, <1>8, <2>1 DEF IInv
<1> QED
  BY <1>6, <1>7, <1>8 DEF IInv

(* A request that ends leaves the others and the clock alone.  *)
LEMMA EndKeeps ==
  ASSUME IInv, NEW r \in Request, req' = [req EXCEPT ![r] = None],
         clock' = clock, duration' = duration,
         jar' \in Cookies \cup {None}, jar' # None => CookieRight(jar')
  PROVE  IInv'
<1>1. TypeOK'
  BY DEF IInv, TypeOK
<1>2. (jar # None => CookieRight(jar))'
  BY DEF CookieRight
<1>3. ASSUME NEW k \in Request, req'[k] # None PROVE RequestRight(req'[k])
  BY <1>3 DEF IInv, TypeOK
<1> QED
  BY <1>1, <1>2, <1>3 DEF IInv

(* The request a step starts from. *)
LEMMA LiveFacts ==
  ASSUME IInv, NEW r \in Request, req[r] # None
  PROVE  /\ req[r] \in Requests /\ RequestRight(req[r]) /\ SessionRight(req[r])
         /\ req[r].session \in Sessions /\ req[r].truth \in Under(Stored \cup Lasting)
         /\ req[r].deleted \in SUBSET Name
<1>1. req[r] \in Requests /\ RequestRight(req[r])
  BY DEF IInv, TypeOK
<1> QED
  BY <1>1 DEF RequestRight, Requests

LEMMA WriteKeeps ==
  ASSUME IInv, NEW r \in Request, NEW n \in Name, NEW x \in Inputs, Write(r, n, x)
  PROVE  IInv'
<1> DEFINE o == req[r]
           s == o.session
           v == [s.vals EXCEPT ![n] = x]
           t == [o.truth EXCEPT ![n] = x]
           g == Set(s, n, x)
           q == [o EXCEPT !.session = g, !.truth = t, !.deleted = @ \ {n}]
<1>1. Live(r) /\ Becomes(r, q)
  BY DEF Write
<1>2. /\ o \in Requests /\ RequestRight(o) /\ SessionRight(o) /\ s \in Sessions
      /\ o.truth \in Under(Stored \cup Lasting) /\ o.deleted \in SUBSET Name
  BY <1>1, LiveFacts DEF Live
<1>3. s.vals \in Under(Stored)
  BY <1>2 DEF Sessions
<1>4. /\ v \in Under(Stored) /\ t \in Under(Stored \cup Lasting)
      /\ \A m \in Name : v[m] = (IF m = n THEN x ELSE s.vals[m]) /\ t[m] = (IF m = n THEN x ELSE o.truth[m])
  <2>1. x \in Stored /\ x \in Stored \cup Lasting
    BY InputFacts
  <2> QED
    BY <1>2, <1>3, <2>1 DEF Under
<1>5. g = [s EXCEPT !.vals = v]
  BY <1>2 DEF Set, Sessions
<1> HIDE DEF v, t, g
<1>6. g \in Sessions /\ g.vals = v /\ g.json = s.json /\ g.made = s.made /\ g.ts = s.ts
  BY <1>2, <1>4, <1>5 DEF Sessions
<1>7. /\ q \in Requests /\ q.session = g /\ q.truth = t /\ q.deleted = o.deleted \ {n}
      /\ q.steps = o.steps /\ q.endless = o.endless /\ q.due = o.due /\ q.wasEmpty = o.wasEmpty
  BY <1>2, <1>4, <1>6 DEF Requests
<1> HIDE DEF q
<1>8. SessionRight(q)
  <2> SUFFICES ASSUME NEW m \in Name
               PROVE  /\ Faithful(t[m], v[m], Table(s.json)[m])
                      /\ m \notin o.deleted \ {n} /\ v[m] = None /\ Table(s.made)[m] # None =>
                           Table(s.made)[m] = Table(s.json)[m]
    BY <1>6, <1>7 DEF SessionRight
  <2>1. CASE m = n
    BY <1>4, <2>1, InputFacts DEF Faithful
  <2>2. CASE m # n
    BY <1>2, <1>4, <2>2 DEF SessionRight
  <2> QED
    BY <2>1, <2>2
<1>9. RequestRight(q)
  BY <1>2, <1>6, <1>7, <1>8 DEF RequestRight
<1> QED
  BY <1>1, <1>7, <1>9, BecomesKeeps

LEMMA RemoveKeeps ==
  ASSUME IInv, NEW r \in Request, NEW n \in Name, Remove(r, n)
  PROVE  IInv'
<1> DEFINE o == req[r]
           s == o.session
           v == [s.vals EXCEPT ![n] = None]
           t == [o.truth EXCEPT ![n] = None]
           j == [Table(s.json) EXCEPT ![n] = None]
           g == Del(s, n)
           q == [o EXCEPT !.session = g, !.truth = t, !.deleted = @ \cup {n}]
<1>1. Live(r) /\ Becomes(r, q)
  BY DEF Remove
<1>2. /\ o \in Requests /\ RequestRight(o) /\ SessionRight(o) /\ s \in Sessions
      /\ o.truth \in Under(Stored \cup Lasting) /\ o.deleted \in SUBSET Name
  BY <1>1, LiveFacts DEF Live
<1>3. s.vals \in Under(Stored) /\ Table(s.json) \in Under(Jsons)
  BY <1>2, TableFacts DEF Sessions
<1>4. /\ v \in Under(Stored) /\ t \in Under(Stored \cup Lasting) /\ j \in Under(Jsons)
      /\ \A m \in Name : /\ v[m] = IF m = n THEN None ELSE s.vals[m]
                         /\ t[m] = IF m = n THEN None ELSE o.truth[m]
                         /\ j[m] = IF m = n THEN None ELSE Table(s.json)[m]
  BY <1>2, <1>3 DEF Under
<1>5. g = [s EXCEPT !.json = j, !.vals = v]
  BY <1>2 DEF Del, Sessions
<1> HIDE DEF v, t, j, g
<1>6. g \in Sessions /\ g.vals = v /\ g.json = j /\ g.made = s.made /\ g.ts = s.ts
  BY <1>2, <1>4, <1>5 DEF Sessions
<1>7. Table(j) = j
  BY <1>4, TableFacts DEF Table
<1>8. /\ q \in Requests /\ q.session = g /\ q.truth = t /\ q.deleted = o.deleted \cup {n}
      /\ q.steps = o.steps /\ q.endless = o.endless /\ q.due = o.due /\ q.wasEmpty = o.wasEmpty
  BY <1>2, <1>4, <1>6 DEF Requests
<1> HIDE DEF q
<1>9. SessionRight(q)
  <2> SUFFICES ASSUME NEW m \in Name
               PROVE  /\ Faithful(t[m], v[m], j[m])
                      /\ m \notin o.deleted \cup {n} /\ v[m] = None /\ Table(s.made)[m] # None =>
                           Table(s.made)[m] = j[m]
    BY <1>6, <1>7, <1>8 DEF SessionRight
  <2>1. CASE m = n
    BY <1>4, <2>1 DEF Faithful
  <2>2. CASE m # n
    BY <1>2, <1>4, <2>2 DEF SessionRight
  <2> QED
    BY <2>1, <2>2
<1>10. RequestRight(q)
  BY <1>2, <1>6, <1>8, <1>9 DEF RequestRight
<1> QED
  BY <1>1, <1>8, <1>10, BecomesKeeps

(* SetNoExpiration and SetDefaultExpiration. *)
LEMMA ExpirationKeeps ==
  ASSUME IInv, NEW r \in Request, SetNoExpiration(r) \/ SetDefaultExpiration(r)
  PROVE  IInv'
<1> DEFINE o == req[r]
           s == o.session
<1>1. PICK ts \in {None, SessionValueName}, endless \in BOOLEAN :
        /\ endless <=> ts = SessionValueName
        /\ Live(r) /\ Becomes(r, [o EXCEPT !.session.ts = ts, !.endless = endless])
  BY InputFacts DEF SetNoExpiration, SetDefaultExpiration
<1> DEFINE g == [s EXCEPT !.ts = ts]
           q == [o EXCEPT !.session = g, !.endless = endless]
<1>2. /\ o \in Requests /\ RequestRight(o) /\ SessionRight(o) /\ s \in Sessions
  BY <1>1, LiveFacts DEF Live
<1>3. Becomes(r, q)
  BY <1>1, <1>2 DEF Requests
<1>4. g \in Sessions /\ g.vals = s.vals /\ g.json = s.json /\ g.made = s.made /\ g.ts = ts
  BY <1>2 DEF Sessions
<1> HIDE DEF g
<1>5. /\ q \in Requests /\ q.session = g /\ q.truth = o.truth /\ q.deleted = o.deleted
      /\ q.steps = o.steps /\ q.endless = endless /\ q.due = o.due /\ q.wasEmpty = o.wasEmpty
  BY <1>2, <1>4 DEF Requests
<1> HIDE DEF q
<1>6. RequestRight(q)
  BY <1>1, <1>2, <1>4, <1>5 DEF RequestRight, SessionRight
<1> QED
  BY <1>1, <1>3, <1>5, <1>6, BecomesKeeps

LEMMA ReadKeeps ==
  ASSUME IInv, NEW r \in Request, NEW n \in Name, NEW target \in Target, NEW force \in BOOLEAN,
         Read(r, n, target, force)
  PROVE  IInv'
<1> DEFINE o == req[r]
           s == o.session
           k == Root(n)
           g == GetInto(s, n, target, force).session
           back == force /\ target = "same" /\ g.vals[k] # s.vals[k]
           t == IF back THEN [o.truth EXCEPT ![k] = g.vals[k]] ELSE o.truth
           q == [o EXCEPT !.session = g, !.truth = t]
<1>1. Live(r)
  BY DEF Read
<1>2. CASE req' = [req EXCEPT ![r] = None] /\ UNCHANGED <<clock, duration, jar>>
  <2>1. jar' \in Cookies \cup {None} /\ (jar' # None => CookieRight(jar'))
    BY <1>2 DEF IInv, TypeOK
  <2> QED
    BY <1>2, <2>1, EndKeeps
<1>3. CASE Becomes(r, q)
  <2>1. /\ o \in Requests /\ RequestRight(o) /\ SessionRight(o) /\ s \in Sessions
        /\ o.truth \in Under(Stored \cup Lasting) /\ k \in Name
    BY <1>1, LiveFacts, NameFacts DEF Live
  <2>2. ReadsTo(s, g, n, target, force)
    BY <2>1, ReadFacts
  <2> HIDE DEF g
  <2>3. g \in Sessions /\ g.ts = s.ts /\ Table(g.json) = Table(s.json)
    BY <2>2 DEF ReadsTo
  <2>4. g.vals \in Under(Stored)
    BY <2>3 DEF Sessions
  <2>5. /\ t \in Under(Stored \cup Lasting)
        /\ \A m \in Name : t[m] = IF back /\ m = k THEN g.vals[k] ELSE o.truth[m]
    BY <2>1, <2>4 DEF Under
  <2> HIDE DEF t
  <2>6. /\ q \in Requests /\ q.session = g /\ q.truth = t /\ q.deleted = o.deleted
        /\ q.steps = o.steps /\ q.endless = o.endless /\ q.due = o.due /\ q.wasEmpty = o.wasEmpty
    BY <2>1, <2>3, <2>5 DEF Requests
  <2> HIDE DEF q
  <2>7. SessionRight(q)
    <3> SUFFICES ASSUME NEW m \in Name
                 PROVE  /\ Faithful(t[m], g.vals[m], Table(s.json)[m])
                        /\ m \notin o.deleted /\ g.vals[m] = None /\ Table(g.made)[m] # None =>
                             Table(g.made)[m] = Table(s.json)[m]
      BY <2>3, <2>6 DEF SessionRight
    <3>1. /\ Faithful(o.truth[m], s.vals[m], Table(s.json)[m])
          /\ m \notin o.deleted /\ s.vals[m] = None /\ Table(s.made)[m] # None =>
               Table(s.made)[m] = Table(s.json)[m]
      BY <2>1 DEF SessionRight
    <3>2. Table(g.made)[m] = Table(s.made)[m] \/ Table(g.made)[m] = Table(s.json)[m]
      BY <2>2 DEF ReadsTo
    <3>3. \/ g.vals[m] = s.vals[m]
          \/ /\ target = "same" /\ m = k /\ (force \/ s.vals[m] = None)
             /\ Table(s.json)[m] # None /\ g.vals[m] = InForm(Table(s.json)[m], "pointer")
      BY <2>2 DEF ReadsTo
    <3>4. CASE g.vals[m] = s.vals[m]
      <4>1. t[m] = o.truth[m]
        BY <2>5, <3>4
      <4> QED
        BY <3>1, <3>2, <3>4, <4>1
    <3>5. CASE g.vals[m] # s.vals[m] /\ force
      <4>1. back /\ m = k
        BY <3>3, <3>5
      <4>2. t[m] = g.vals[m] /\ g.vals[m] # None
        <5>1. Table(s.json)[m] \in Jsons
          BY <2>1, <3>3, <3>5, TableFacts DEF Sessions, Under
        <5>2. g.vals[m] # None
          BY <3>3, <3>5, <5>1, PlaceFacts, FormFacts
        <5> QED
          BY <2>5, <4>1, <5>2
      <4> QED
        BY <4>2 DEF Faithful
    <3>6. CASE g.vals[m] # s.vals[m] /\ ~force
      <4>1. t[m] = o.truth[m]
        BY <2>5, <3>6
      <4>2. /\ s.vals[m] = None /\ Table(s.json)[m] # None
            /\ g.vals[m] = InForm(Table(s.json)[m], "pointer")
        BY <3>3, <3>6
      <4>3. Table(s.json)[m] \in Jsons
        BY <2>1, <4>2, TableFacts DEF Sessions, Under
      <4>4. g.vals[m] # None /\ Table(s.json)[m].form = "json"
        BY <4>2, <4>3, PlaceFacts, FormFacts
      <4> QED
        BY <3>1, <4>1, <4>2, <4>4 DEF Faithful
    <3> QED
      BY <3>4, <3>5, <3>6
  <2>8. RequestRight(q)
    BY <2>1, <2>3, <2>6, <2>7 DEF RequestRight
  <2> QED
    BY <1>1, <1>3, <2>6, <2>8, BecomesKeeps
<1>4. (req' = [req EXCEPT ![r] = None] /\ UNCHANGED <<clock, duration, jar>>) \/ Becomes(r, q)
  <2>1. o \in Requests /\ o.truth \in Under(Stored \cup Lasting)
    BY <1>1, LiveFacts DEF Live
  <2> HIDE DEF g
  <2> QED
    BY <2>1 DEF Read, g, Requests
<1> QED
  BY <1>2, <1>3, <1>4

-----------------------------------------------------------------------------
(* Cookies: written, decoded and forgotten. *)

LEMMA TimeFacts ==
  /\ Time \subseteq Nat /\ None \notin Time /\ SessionValueName \notin Time
  /\ Durations \subseteq Nat
  /\ \A t \in 0..MaxClock : t \in Nat /\ \A d \in Durations : t + d \in Time
<1>1. Time \subseteq Nat /\ Durations \subseteq Nat /\ 0..MaxClock \subseteq Nat
  <2>1. Durations \subseteq Nat /\ 0..MaxClock \subseteq Nat
    BY BoundAssumption
  <2>2. \A t \in Nat, d \in Nat : t + d \in Nat
    OBVIOUS
  <2>3. \A t \in 0..MaxClock, d \in Durations \cup {0} : t + d \in Nat
    BY <2>1, <2>2
  <2> QED
    BY <2>1, <2>3 DEF Time
<1>2. \A t \in 0..MaxClock, d \in Durations : t + d \in Time
  BY DEF Time
<1> QED
  BY <1>1, <1>2, InputFacts

LEMMA BareFacts == Bare \in Sessions /\ Table(Bare.json) = Nothing /\ Bare.ts = None
<1>1. Nothing \in Under(Stored)
  BY DEF Nothing, Under
<1> QED
  BY <1>1 DEF Bare, Sessions, Table

LEMMA SerializeFacts ==
  ASSUME NEW s \in Sessions
  PROVE  /\ Serialize(s).texts \in Under(Texts) /\ Serialize(s).objects \in Under(Jsons)
         /\ Serialize(s) = [texts |-> Serialize(s).texts, objects |-> Serialize(s).objects]
         /\ \A n \in Name, x \in Stored \cup Lasting \cup {None} :
              Faithful(x, s.vals[n], Table(s.json)[n]) =>
                Faithful(Left(x), Serialize(s).texts[n], Serialize(s).objects[n])
<1> DEFINE is(n, kinds) == s.vals[n] # None /\ s.vals[n].kind \in kinds
           texts == [n \in Name |-> IF is(n, {"text"}) THEN s.vals[n] ELSE None]
           objects == [n \in Name |-> IF is(n, Objects) THEN InForm(s.vals[n], "json")
                                     ELSE Table(s.json)[n]]
<1>1. Serialize(s) = [texts |-> texts, objects |-> objects]
  BY DEF Serialize
<1>2. s.vals \in Under(Stored) /\ Table(s.json) \in Under(Jsons)
  BY TableFacts DEF Sessions
<1>3. \A n \in Name : /\ s.vals[n] \in Stored \cup {None}
                      /\ Table(s.json)[n] \in Jsons \cup {None}
  BY <1>2 DEF Under
<1>4. texts \in Under(Texts) /\ objects \in Under(Jsons)
  <2>1. \A n \in Name : is(n, {"text"}) => s.vals[n] \in Texts
    BY <1>3, PlaceFacts
  <2>2. \A n \in Name : is(n, Objects) => InForm(s.vals[n], "json") \in Jsons
    BY <1>3, PlaceFacts
  <2> QED
    BY <1>3, <2>1, <2>2 DEF Under
<1>5. ASSUME NEW n \in Name, NEW x \in Stored \cup Lasting \cup {None},
             Faithful(x, s.vals[n], Table(s.json)[n])
      PROVE  Faithful(Left(x), texts[n], objects[n])
  <2> DEFINE val == s.vals[n]
             text == Table(s.json)[n]
  <2>1. /\ val \in Stored \cup {None} /\ text \in Jsons \cup {None}
        /\ texts[n] = IF val # None /\ val.kind = "text" THEN val ELSE None
        /\ objects[n] = IF val # None /\ val.kind \in Objects THEN InForm(val, "json") ELSE text
    BY <1>3
  <2>2. /\ Faithful(x, val, text) /\ (x # None => x \in Value)
        /\ x # None /\ x.form = "json" /\ x.kind # "func" => x \in Jsons \/ x.kind = "text"
    BY <1>5, TruthFacts
  <2> HIDE DEF val, text, texts, objects
  <2>3. CASE x # None /\ x.kind = "func"
    <3>1. Left(x) = InForm(x, "json")
      BY <2>3 DEF Left
    <3>2. Left(x) # None /\ Left(x).kind = "func" /\ Left(x).form = "json"
      BY <2>2, <2>3, <3>1, FormFacts
    <3> QED
      BY <3>2 DEF Faithful
  <2>4. CASE x # None /\ x.kind # "func" /\ val # None /\ val = x
    <3>1. x \in Stored /\ x.kind \in Kinds
      BY <2>1, <2>4, PlaceFacts
    <3>2. CASE x.kind = "text"
      BY <2>1, <2>4, <3>2 DEF Left, Faithful
    <3>3. CASE x.kind \in Objects
      <4>1. x.kind # "text" /\ Left(x) = InForm(x, "json")
        BY <3>3, <2>4 DEF Left, Objects, Structs
      <4>2. texts[n] = None /\ objects[n] = InForm(x, "json")
        BY <2>1, <2>4, <3>3, <4>1
      <4> QED
        BY <4>1, <4>2 DEF Faithful
    <3> QED
      BY <2>4, <3>1, <3>2, <3>3 DEF Kinds
  <2>5. CASE x # None /\ x.kind # "func" /\ x.form = "json" /\ val # None /\ val = InForm(x, "pointer")
    <3>1. val.form = "pointer" /\ val.kind = x.kind
      BY <2>2, <2>5, FormFacts
    <3>2. x \in Jsons
      <4>1. x.kind # "text"
        <5>1. val.kind = "text" => val \in Texts
          BY <2>1, <2>5, PlaceFacts
        <5>2. \A y \in Texts : y.form = "go"
          BY InputFacts
        <5> QED
          BY <3>1, <5>1, <5>2
      <4> QED
        BY <2>2, <2>5, <4>1
    <3>3. x.kind \in Objects /\ InForm(val, "json") = x
      BY <2>5, <3>2, PlaceFacts
    <3>4. x.kind # "text" /\ Left(x) = InForm(x, "json")
      BY <2>5, <3>3 DEF Left, Objects, Structs
    <3>5. Left(x) = x
      BY <2>2, <2>5, <3>4, FormFacts
    <3>6. texts[n] = None /\ objects[n] = x
      BY <2>1, <2>5, <3>1, <3>3, <3>4
    <3> QED
      BY <3>5, <3>6 DEF Faithful
  <2>6. CASE val = None /\ text = x
    <3>1. texts[n] = None /\ objects[n] = x
      BY <2>1, <2>6
    <3>2. Left(x) = x
      <4>1. CASE x = None
        BY <4>1 DEF Left
      <4>2. CASE x # None
        <5>1. x.form = "json" /\ x \in Value
          BY <2>1, <2>6, <4>2, PlaceFacts
        <5> QED
          BY <4>2, <5>1, FormFacts DEF Left
      <4> QED
        BY <4>1, <4>2
    <3> QED
      BY <3>1, <3>2 DEF Faithful
  <2> QED
    BY <2>2, <2>3, <2>4, <2>5, <2>6 DEF Faithful
<1> HIDE DEF texts, objects
<1> QED
  BY <1>1, <1>4, <1>5

LEMMA CookieFacts ==
  ASSUME TypeOK, NEW s \in Sessions, NEW q, q.truth \in Under(Stored \cup Lasting)
  PROVE  /\ Cookie(s, q) \in Cookies
         /\ \A n \in Name : Cookie(s, q).left[n] = Left(q.truth[n])
         /\ Cookie(s, q).data = Serialize(s)
         /\ Cookie(s, q).ts = Expiry(s)
         /\ Cookie(s, q).at = IF Lasts(q) THEN 0 ELSE clock
         /\ Cookie(s, q).life = IF Lasts(q) THEN None ELSE duration
<1>1. Serialize(s) \in [texts : Under(Texts), objects : Under(Jsons)]
  BY SerializeFacts
<1>2. clock \in 0..MaxClock /\ duration \in Durations /\ clock + duration \in Time
  BY TimeFacts DEF TypeOK
<1>3. Expiry(s) \in Time \cup {SessionValueName}
  BY <1>2 DEF Expiry
<1>4. 0 \in 0..MaxClock
  BY <1>2, BoundAssumption
<1>5. (IF Lasts(q) THEN 0 ELSE clock) \in 0..MaxClock
      /\ (IF Lasts(q) THEN None ELSE duration) \in Durations \cup {None}
  BY <1>2, <1>4
<1>6. [n \in Name |-> Left(q.truth[n])] \in Under(Lasting)
  BY TruthFacts DEF Under
<1> HIDE DEF Time
<1> QED
  BY <1>1, <1>2, <1>3, <1>5, <1>6 DEF Cookie, Cookies

LEMMA AnswerKeeps ==
  ASSUME IInv, NEW r \in Request, Answer(r)
  PROVE  IInv'
<1> DEFINE q == req[r]
           s == q.session
           c == Cookie(s, q)
<1>1. /\ req[r] # None /\ req' = [req EXCEPT ![r] = None]
      /\ clock' = clock /\ duration' = duration
      /\ jar' = IF Encodes(q) THEN c ELSE jar
  BY DEF Answer
<1>2. /\ RequestRight(q) /\ SessionRight(q) /\ s \in Sessions /\ q.truth \in Under(Stored \cup Lasting)
  BY <1>1, LiveFacts
<1>3. TypeOK
  BY DEF IInv
<1>4. /\ c \in Cookies /\ (\A n \in Name : c.left[n] = Left(q.truth[n])) /\ c.data = Serialize(s) /\ c.ts = Expiry(s)
      /\ c.at = (IF Lasts(q) THEN 0 ELSE clock) /\ c.life = (IF Lasts(q) THEN None ELSE duration)
  BY <1>2, <1>3, CookieFacts
<1> HIDE DEF c
<1>5. CookieRight(c)
  <2>1. ASSUME NEW n \in Name PROVE Faithful(c.left[n], c.data.texts[n], c.data.objects[n])
    <3>1. Faithful(q.truth[n], s.vals[n], Table(s.json)[n]) /\ q.truth[n] \in Stored \cup Lasting \cup {None}
      BY <1>2 DEF SessionRight, Under
    <3> QED
      BY <1>2, <1>4, <3>1, SerializeFacts
  <2>2. Lasts(q) <=> (duration = 0 \/ s.ts = SessionValueName)
    BY <1>2 DEF RequestRight, Lasts
  <2>3. clock \in Nat /\ duration \in Nat /\ duration # None /\ clock + duration \in Nat
    BY <1>3, TimeFacts, InputFacts DEF TypeOK
  <2>4. CASE Lasts(q)
    BY <1>4, <2>1, <2>2, <2>4 DEF CookieRight, Expiry
  <2>5. CASE ~Lasts(q)
    <3>1. c.ts = clock + duration /\ c.at = clock /\ c.life = duration
      BY <1>4, <2>2, <2>5 DEF Expiry
    <3> QED
      BY <2>1, <2>3, <3>1, InputFacts DEF CookieRight
  <2> QED
    BY <2>4, <2>5
<1>6. jar' \in Cookies \cup {None} /\ (jar' # None => CookieRight(jar'))
  BY <1>1, <1>3, <1>4, <1>5 DEF IInv, TypeOK
<1> QED
  BY <1>1, <1>6, EndKeeps

(* Decode gives the session of the cookie exactly while it is due. *)
LEMMA DueFacts ==
  ASSUME IInv
  PROVE  /\ Due(jar) => jar # None /\ Decode(jar) = Load(jar.data, jar.ts) /\ ~Empty(Decode(jar))
         /\ ~Due(jar) => Decode(jar) = Bare
<1>1. CASE jar = None \/ ~jar.sound
  BY <1>1 DEF Due, Decode
<1>2. CASE jar # None /\ jar.sound
  <2> DEFINE s == Load(jar.data, jar.ts)
  <2>1. /\ jar.ts \in Time \cup {SessionValueName} /\ jar.at \in 0..MaxClock
        /\ jar.life \in Durations \cup {None} /\ clock \in 0..MaxClock
    BY <1>2 DEF IInv, TypeOK, Cookies
  <2>2. /\ jar.ts = SessionValueName <=> jar.life = None
        /\ jar.life # None => jar.ts = jar.at + jar.life /\ jar.at <= clock
    BY <1>2 DEF IInv, CookieRight
  <2>3. s.ts = jar.ts
    BY DEF Load
  <2>4. jar.ts # None
    BY <2>1, TimeFacts, InputFacts
  <2>5. s # Bare
    BY <2>3, <2>4, BareFacts
  <2> HIDE DEF s
  <2>6. SessionTimeoutExpiredOrMissing(s) <=> (jar.life # None /\ jar.ts < clock)
    BY <2>2, <2>3, <2>4 DEF SessionTimeoutExpiredOrMissing
  <2>7. jar.life # None => (clock - jar.at <= jar.life <=> ~(jar.ts < clock))
    <3> SUFFICES ASSUME jar.life # None PROVE clock - jar.at <= jar.life <=> ~(jar.ts < clock)
      OBVIOUS
    <3>1. jar.life \in Nat /\ jar.at \in Nat /\ clock \in Nat /\ jar.ts = jar.at + jar.life
      BY <2>1, <2>2, TimeFacts
    <3> QED
      BY <3>1
  <2>8. Due(jar) <=> ~SessionTimeoutExpiredOrMissing(s)
    BY <1>2, <2>6, <2>7 DEF Due
  <2> QED
    BY <1>2, <2>5, <2>8 DEF Decode, Empty, s
<1> QED
  BY <1>1, <1>2

LEMMA ArriveKeeps ==
  ASSUME IInv, NEW r \in Request, Arrive(r)
  PROVE  IInv'
<1> DEFINE s == Decode(jar)
           t == IF Due(jar) THEN jar.left ELSE Nothing
           endless == Due(jar) /\ jar.life = None
           q == [session |-> s, wasEmpty |-> Empty(s), steps |-> 0, truth |-> t,
                 deleted |-> {}, endless |-> endless, due |-> Due(jar)]
<1>1. req' = [req EXCEPT ![r] = q] /\ clock' = clock /\ duration' = duration /\ jar' = jar
  BY DEF Arrive
<1>2. TypeOK /\ req \in [Request -> Requests \cup {None}]
  BY DEF IInv, TypeOK
<1>3. ASSUME Due(jar)
      PROVE  /\ s \in Sessions /\ t \in Under(Stored \cup Lasting) /\ SessionRight(q)
             /\ ~Empty(s) /\ (endless <=> s.ts = SessionValueName)
  <2> DEFINE d == jar.data
  <2>1. jar # None /\ s = Load(d, jar.ts) /\ ~Empty(s) /\ jar.sound
    BY <1>3, DueFacts DEF Due
  <2>2. /\ jar.left \in Under(Lasting) /\ d.texts \in Under(Texts) /\ d.objects \in Under(Jsons)
        /\ jar.ts \in Time \cup {SessionValueName}
    BY <1>2, <2>1 DEF TypeOK, Cookies
  <2>3. /\ \A n \in Name : Faithful(jar.left[n], d.texts[n], d.objects[n])
        /\ jar.ts = SessionValueName <=> jar.life = None
    BY <2>1 DEF IInv, CookieRight
  <2> DEFINE j == IF d.objects = Nothing THEN None ELSE d.objects
  <2>4. s = [vals |-> d.texts, json |-> j, made |-> None, ts |-> jar.ts]
    BY <2>1 DEF Load
  <2>5. Table(j) = d.objects /\ j \in Under(Jsons) \cup {None}
    <3>1. None \notin Under(Jsons)
      BY TableFacts
    <3> QED
      BY <2>2, <3>1 DEF Table
  <2>6. d.texts \in Under(Stored) /\ jar.left \in Under(Stored \cup Lasting)
    BY <2>2, InputFacts DEF Under
  <2> HIDE DEF s, d, j
  <2>7. s \in Sessions /\ s.vals = d.texts /\ s.json = j /\ s.made = None /\ s.ts = jar.ts
    BY <2>2, <2>4, <2>5, <2>6 DEF Sessions
  <2>8. t = jar.left /\ (endless <=> jar.life = None)
    BY <1>3
  <2>9. \A n \in Name : Nothing[n] = None
    BY DEF Nothing
  <2>10. Table(None) = Nothing
    BY DEF Table
  <2> HIDE DEF t, endless
  <2>11. SessionRight(q)
    BY <2>3, <2>5, <2>7, <2>8, <2>9, <2>10 DEF SessionRight
  <2> QED
    BY <2>1, <2>2, <2>3, <2>6, <2>7, <2>8, <2>11
<1>4. ASSUME ~Due(jar)
      PROVE  /\ s \in Sessions /\ t \in Under(Stored \cup Lasting) /\ SessionRight(q)
             /\ Empty(s) /\ (endless <=> s.ts = SessionValueName)
  <2>1. s = Bare /\ t = Nothing /\ ~endless
    BY <1>4, DueFacts
  <2>2. Nothing \in Under(Stored \cup Lasting) /\ \A n \in Name : Nothing[n] = None
    BY DEF Nothing, Under
  <2>3. s.ts = None /\ s.vals = Nothing /\ s.json = None /\ s.made = None
    BY <2>1 DEF Bare
  <2>4. Table(None) = Nothing
    BY DEF Table
  <2> HIDE DEF s, t, endless
  <2>5. SessionRight(q)
    BY <2>1, <2>2, <2>3, <2>4 DEF SessionRight, Faithful
  <2> QED
    BY <2>1, <2>2, <2>3, <2>5, BareFacts, InputFacts DEF Empty
<1> HIDE DEF s, t, endless
<1>5. /\ s \in Sessions /\ t \in Under(Stored \cup Lasting) /\ SessionRight(q)
      /\ (endless <=> s.ts = SessionValueName) /\ (Due(jar) <=> ~Empty(s))
  BY <1>3, <1>4
<1>6. q \in Requests
  <2>1. Empty(s) \in BOOLEAN /\ endless \in BOOLEAN /\ Due(jar) \in BOOLEAN
    BY DEF Empty, endless, Due
  <2>2. 0 \in 0..Steps
    BY BoundAssumption
  <2> QED
    BY <1>5, <2>1, <2>2 DEF Requests
<1>7. RequestRight(q)
  <2>1. /\ q.session = s /\ q.endless = endless /\ q.due = Due(jar) /\ q.wasEmpty = Empty(s)
    OBVIOUS
  <2> HIDE DEF q
  <2> QED
    BY <1>5, <2>1 DEF RequestRight
<1> HIDE DEF q
<1>8. TypeOK'
  BY <1>1, <1>2, <1>6 DEF TypeOK
<1>9. (jar # None => CookieRight(jar))'
  BY <1>1 DEF IInv, CookieRight
<1>10. ASSUME NEW k \in Request, req'[k] # None PROVE RequestRight(req'[k])
  <2>1. req'[k] = IF k = r THEN q ELSE req[k]
    BY <1>1, <1>2
  <2> QED
    BY <1>7, <1>10, <2>1 DEF IInv
<1> QED
  BY <1>8, <1>9, <1>10 DEF IInv

(* The clock, the browser and the administrator leave requests alone. *)
LEMMA OutsideKeeps ==
  ASSUME IInv, Tick \/ Forget \/ Restart
  PROVE  IInv'
<1>1. req' = req /\ TypeOK
  BY DEF IInv, Tick, Forget, Restart
<1>2. \A r \in Request : req'[r] # None => RequestRight(req'[r])
  BY <1>1 DEF IInv
<1>3. CASE Tick
  <2>1. clock' = clock + 1 /\ clock' \in 0..MaxClock /\ duration' = duration /\ jar' = jar
    BY <1>1, <1>3, BoundAssumption DEF Tick, TypeOK
  <2>2. TypeOK'
    BY <1>1, <2>1 DEF TypeOK
  <2>3. ASSUME jar # None PROVE CookieRight(jar)'
    <3>1. CookieRight(jar) /\ jar.at \in 0..MaxClock /\ clock \in 0..MaxClock
      BY <1>1, <2>3 DEF IInv, TypeOK, Cookies
    <3> QED
      BY <2>1, <3>1 DEF CookieRight
  <2> QED
    BY <1>2, <2>1, <2>2, <2>3 DEF IInv
<1>4. CASE Forget
  <2>1. TypeOK'
    BY <1>1, <1>4 DEF TypeOK, Forget
  <2>2. jar' = None
    BY <1>4 DEF Forget
  <2> QED
    BY <1>2, <2>1, <2>2 DEF IInv
<1>5. CASE Restart
  <2>1. /\ clock' = clock /\ duration' \in Durations
        /\ jar' = jar \/ jar' = Unsound
    BY <1>5 DEF Restart
  <2>2. Unsound \in Cookies /\ ~Unsound.sound
    <3> DEFINE q == [truth |-> Nothing, endless |-> TRUE]
    <3>1. q.truth \in Under(Stored \cup Lasting)
      BY DEF Nothing, Under
    <3> HIDE DEF q
    <3>2. Cookie(Bare, q) \in Cookies
      BY <1>1, <3>1, BareFacts, CookieFacts
    <3>3. Unsound = [Cookie(Bare, q) EXCEPT !.sound = FALSE]
      BY DEF Unsound, q
    <3> QED
      BY <3>2, <3>3 DEF Cookies
  <2>3. TypeOK'
    BY <1>1, <2>1, <2>2 DEF TypeOK
  <2>4. (jar # None => CookieRight(jar))'
    <3>1. jar # None => CookieRight(jar)
      BY DEF IInv
    <3> QED
      BY <2>1, <2>2, <3>1 DEF CookieRight
  <2> QED
    BY <1>2, <2>3, <2>4 DEF IInv
<1> QED
  BY <1>3, <1>4, <1>5

-----------------------------------------------------------------------------
(* The theorems. *)

LEMMA InitInvariant == Init => IInv
<1> SUFFICES ASSUME Init PROVE IInv
  OBVIOUS
<1>1. TypeOK
  BY BoundAssumption DEF Init, TypeOK
<1> QED
  BY <1>1 DEF Init, IInv

LEMMA StepInvariant == IInv /\ [Next]_vars => IInv'
<1> SUFFICES ASSUME IInv, [Next]_vars PROVE IInv'
  OBVIOUS
<1>1. ASSUME NEW r \in Request, Fail(r) PROVE IInv'
  <2>1. jar' \in Cookies \cup {None} /\ (jar' # None => CookieRight(jar'))
    BY <1>1 DEF Fail, IInv, TypeOK
  <2> QED
    BY <1>1, <2>1, EndKeeps DEF Fail
<1>2. CASE UNCHANGED vars
  BY <1>2 DEF vars, IInv, TypeOK, CookieRight
<1> QED
  BY <1>1, <1>2, ArriveKeeps, AnswerKeeps, ExpirationKeeps, ReadKeeps, WriteKeeps, RemoveKeeps,
     OutsideKeeps DEF Next

LEMMA Invariance == Spec => []IInv
  BY InitInvariant, StepInvariant, PTL DEF Spec

(* Sessions, cookies and what is remembered of them keep their types: what    *)
(* can be marshalled, and only objects in the JSON text.                      *)
THEOREM TypeCorrect == Spec => []TypeOK
<1>1. IInv => TypeOK
  BY DEF IInv
<1> QED
  BY <1>1, Invariance, PTL

(* Whatever a request reads is what the application has put under the name    *)
(* last, in the form its way through cookies and JSON has given it, through   *)
(* any number of cookies, reads, writes and removals.                         *)
THEOREM HonestReads == Spec => []ReadsAreHonest
<1>1. IInv => ReadsAreHonest
  <2> SUFFICES ASSUME IInv, NEW r \in Request, NEW n \in Name, NEW target \in Target, req[r] # None
               PROVE  LET t     == req[r].truth
                          put   == IF t[n] # None THEN t[n] ELSE t[Root(n)]
                          found == GetInto(req[r].session, n, target, FALSE).value
                      IN  \/ /\ t[n] # None
                             /\ found \in Forms(t[n], target)
                          \/ /\ t[n] = None
                             /\ found \in {NestedProperty(n, x) : x \in Forms(t[Root(n)], target)}
                          \/ {n, Root(n)} \cap req[r].deleted # {}
                          \/ /\ put # None /\ put.form = "json"
                             /\ put.kind = "func" \/ (t[n] # None /\ n # Root(n))
    BY DEF ReadsAreHonest
  <2>1. req[r] \in Requests /\ SessionRight(req[r])
    BY LiveFacts
  <2>2. CASE {n, Root(n)} \cap req[r].deleted = {}
    BY <2>1, <2>2, HonestFacts
  <2> QED
    BY <2>2
<1> QED
  BY <1>1, Invariance, PTL

(* A session lives exactly as long as the duration it was given, or as the    *)
(* browser, across restarts with other durations.                             *)
THEOREM SessionsLive == Spec => []SessionLivesItsDuration
<1>1. IInv => SessionLivesItsDuration
  BY DEF IInv, SessionLivesItsDuration, RequestRight
<1> QED
  BY <1>1, Invariance, PTL
=============================================================================
