---------------------------- MODULE ResponseProofs ----------------------------
(* Theorems about the response: what detectCompressionType chooses, for every  *)
(* Accept-Encoding, and that a compressed response is the plain one, for every *)
(* page and whatever filters and the action do to it in which order.          *)
EXTENDS Response, SequenceTheorems, WellFoundedInduction, TLAPS

Type  == Range(compressionTypes)

LEMMA Least ==
  ASSUME NEW S \in SUBSET Nat, S # {}
  PROVE  \E x \in S : \A y \in S : x <= y
<1>1. PICK x \in S : \A y \in S : <<y, x>> \notin OpToRel(<, Nat)
  BY WFMin, NatLessThanWellFounded, Zenon
<1>2. \A y \in S : x <= y
  <2> TAKE y \in S
  <2>1. <<y, x>> \notin {ss \in Nat \X Nat : ss[1] < ss[2]}
    BY <1>1, Zenon DEF OpToRel
  <2> QED
    BY <2>1
<1> QED
  BY <1>2

LEMMA TypeFacts ==
  /\ Type = {"gzip", "deflate"} /\ Range(compressionTypes) = Type
  /\ compressionTypes[1] = "gzip" /\ compressionTypes[2] = "deflate"
  BY DEF Type, compressionTypes, Range

LEMMA NoneFacts ==
  /\ None \notin Started /\ None \notin Writer /\ None \notin Type
  /\ None \notin Nat /\ Bad \notin Nat /\ None # Bad
  BY NoneAssumption DEF Type

-----------------------------------------------------------------------------
(* The search for a compression type.                                         *)

LEMMA SearchFacts ==
  ASSUME NEW codings, Len(codings) \in Nat
  PROVE  /\ Search(codings)[0] = [largestQ |-> 0, chosen |-> 3, stop |-> FALSE]
         /\ \A n \in 1 .. Len(codings) :
              Search(codings)[n] = Considered(Search(codings)[n - 1], codings[n])
<1> DEFINE start == [largestQ |-> 0, chosen |-> 3, stop |-> FALSE]
           L == Len(codings)
           Is(f, m) == f = [n \in 0 .. m |-> IF n = 0 THEN start ELSE Considered(f[n - 1], codings[n])]
           S == {m \in 0 .. L : ~ \E f : Is(f, m)}
<1> HIDE DEF start
<1>1. S = {}
  <2> SUFFICES ASSUME S # {} PROVE FALSE
    OBVIOUS
  <2>1. S \in SUBSET Nat
    OBVIOUS
  <2>2. PICK x \in S : \A y \in S : x <= y
    <3> HIDE DEF S
    <3> QED
      BY <2>1, Least
  <2>3. x \in 0 .. L /\ ~ \E f : Is(f, x)
    BY <2>2
  <2>4. CASE x = 0
    <3>1. Is([n \in 0 .. 0 |-> start], 0)
      OBVIOUS
    <3> QED
      BY <2>3, <2>4, <3>1
  <2>5. CASE x # 0
    <3>1. x - 1 \in 0 .. L /\ x - 1 \notin S
      <4>1. x - 1 \in 0 .. L /\ ~(x <= x - 1)
        BY <2>3, <2>5
      <4> QED
        BY <2>2, <4>1
    <3>2. PICK f : Is(f, x - 1)
      BY <3>1
    <3> DEFINE g == [n \in 0 .. x |-> IF n = x THEN Considered(f[x - 1], codings[x]) ELSE f[n]]
    <3>3. ASSUME NEW n \in 0 .. x
          PROVE  g[n] = IF n = 0 THEN start ELSE Considered(g[n - 1], codings[n])
      <4>1. CASE n = x
        <5>1. n - 1 \in 0 .. x /\ n - 1 # x /\ n # 0
          BY <2>3, <2>5, <4>1
        <5>2. g[n - 1] = f[x - 1]
          BY <4>1, <5>1
        <5> QED
          BY <4>1, <5>1, <5>2
      <4>2. CASE n # x /\ n = 0
        <5>1. 0 \in 0 .. x - 1
          BY <2>3, <2>5
        <5> QED
          BY <3>2, <4>2, <5>1
      <4>3. CASE n # x /\ n # 0
        <5>1. n \in 0 .. x - 1 /\ n - 1 \in 0 .. x /\ n - 1 # x
          BY <2>3, <2>5, <4>3
        <5>2. g[n] = f[n] /\ g[n - 1] = f[n - 1]
          BY <4>3, <5>1
        <5>3. f[n] = Considered(f[n - 1], codings[n])
          BY <3>2, <4>3, <5>1
        <5> QED
          BY <4>3, <5>2, <5>3
      <4> QED
        BY <4>1, <4>2, <4>3
    <3>4. DOMAIN g = 0 .. x
      OBVIOUS
    <3> HIDE DEF g
    <3>5. g = [n \in 0 .. x |-> g[n]]
      BY <3>4 DEF g
    <3>6. Is(g, x)
      BY <3>3, <3>5
    <3> QED
      BY <2>3, <3>6
  <2> QED
    BY <2>4, <2>5
<1>2. \E f : Is(f, L)
  BY <1>1
<1>3. Search(codings) = CHOOSE f : Is(f, L)
  BY DEF Search, start
<1>4. Is(Search(codings), L)
  <2> HIDE DEF Is
  <2> QED
    BY <1>2, <1>3
<1> HIDE DEF L
<1>5. L \in Nat
  BY DEF L
<1> DEFINE C == Search(codings)
<1>6. C = [n \in 0 .. L |-> IF n = 0 THEN start ELSE Considered(C[n - 1], codings[n])]
  BY <1>4
<1> HIDE DEF C
<1>7. C[0] = start
  <2>1. 0 \in 0 .. L
    BY <1>5
  <2> QED
    BY <1>6, <2>1
<1>8. ASSUME NEW n \in 1 .. L PROVE C[n] = Considered(C[n - 1], codings[n])
  <2>1. n \in 0 .. L /\ n # 0
    BY <1>5
  <2> QED
    BY <1>6, <2>1
<1> QED
  BY <1>7, <1>8 DEF C, L, start

(* What the search has found after n of the elements.                         *)
WeighsIn(codings, n, name) == \E i \in 1 .. n : codings[i].name = name /\ codings[i].q \notin {0, Bad}

FoundRight(codings, n, s) ==
  /\ s \in [largestQ : Nat, chosen : 1 .. 3, stop : BOOLEAN]
  /\ s.largestQ = 0 => /\ s.chosen = 3 /\ ~s.stop
                       /\ \A t \in Type : ~WeighsIn(codings, n, t)
  /\ s.largestQ # 0 => /\ s.chosen \in {1, 2}
                       /\ WeighsIn(codings, n, compressionTypes[s.chosen]) \/ WeighsIn(codings, n, "*")

LEMMA FoundNext ==
  \A s \in [largestQ : Nat, chosen : 1 .. 3, stop : BOOLEAN], q \in Nat, x \in 1 .. 2 :
    LET r == [s EXCEPT !.largestQ = q, !.chosen = x]
    IN  r.largestQ = q /\ r.chosen = x /\ r \in [largestQ : Nat, chosen : 1 .. 3, stop : BOOLEAN]
<1> TAKE s \in [largestQ : Nat, chosen : 1 .. 3, stop : BOOLEAN], q \in Nat, x \in 1 .. 2
<1>1. x \in 1 .. 3
  OBVIOUS
<1> QED
  BY <1>1

LEMMA ConsideredRight ==
  ASSUME NEW codings, NEW n \in Nat \ {0}, codings[n].q \in Nat \cup {None, Bad},
         NEW s, FoundRight(codings, n - 1, s)
  PROVE  FoundRight(codings, n, Considered(s, codings[n]))
<1> DEFINE e == codings[n]
           r == Considered(s, e)
<1>1. \A i : i \in 1 .. n <=> i \in 1 .. n - 1 \/ i = n
  OBVIOUS
<1>2. \A name : WeighsIn(codings, n, name) <=>
        WeighsIn(codings, n - 1, name) \/ (e.name = name /\ e.q \notin {0, Bad})
  BY <1>1 DEF WeighsIn
<1>3. /\ s \in [largestQ : Nat, chosen : 1 .. 3, stop : BOOLEAN]
      /\ s.largestQ = 0 => s.chosen = 3 /\ ~s.stop
      /\ s.largestQ = 0 => \A t \in Type : ~WeighsIn(codings, n - 1, t)
      /\ s.largestQ # 0 => s.chosen \in {1, 2}
      /\ s.largestQ # 0 => WeighsIn(codings, n - 1, compressionTypes[s.chosen]) \/ WeighsIn(codings, n - 1, "*")
  BY DEF FoundRight
<1>4. /\ Index(e.name) \in 1 .. 3
      /\ Index(e.name) = 3 => e.name \notin Type /\ e.name # "*"
      /\ Index(e.name) # 3 => e.name = compressionTypes[Index(e.name)] \/ e.name = "*"
  BY TypeFacts DEF Index
<1>5. e.q \in Nat \cup {None, Bad}
  OBVIOUS
<1> HIDE DEF e
<1>6. CASE r = s
  <2>1. CASE s.largestQ # 0
    <3>1. WeighsIn(codings, n, compressionTypes[s.chosen]) \/ WeighsIn(codings, n, "*")
      BY <1>2, <1>3, <2>1
    <3>2. FoundRight(codings, n, s)
      BY <1>3, <2>1, <3>1 DEF FoundRight
    <3> QED
      BY <1>6, <3>2 DEF e
  <2>2. CASE s.largestQ = 0
    <3>1. e.q \in {0, Bad} \/ e.name \notin Type
      <4> SUFFICES ASSUME e.q \notin {0, Bad}, e.name \in Type PROVE FALSE
        OBVIOUS
      <4>1. s.chosen = 3 /\ ~s.stop /\ s.largestQ = 0 /\ Index(e.name) \in 1 .. 2 /\ e.name # "*"
        BY <1>3, <1>4, <2>2, TypeFacts
      <4>2. CASE e.q = None
        <5>1. r = [s EXCEPT !.largestQ = 10, !.chosen = Index(e.name)]
          BY <4>1, <4>2, NoneFacts DEF Considered
        <5> QED
          BY <1>3, <1>6, <2>2, <5>1
      <4>3. CASE e.q # None
        <5>1. e.q \in Nat /\ e.q > 0
          BY <1>5, <4>3
        <5>2. r = [s EXCEPT !.largestQ = e.q, !.chosen = Index(e.name)]
          BY <4>1, <4>3, <5>1, NoneFacts DEF Considered
        <5> QED
          BY <1>3, <1>6, <2>2, <5>1, <5>2
      <4> QED
        BY <4>2, <4>3
    <3>2. \A t \in Type : ~WeighsIn(codings, n, t)
      BY <1>2, <1>3, <2>2, <3>1
    <3>3. FoundRight(codings, n, s)
      BY <1>3, <2>2, <3>2 DEF FoundRight
    <3> QED
      BY <1>6, <3>3 DEF e
  <2> QED
    BY <2>1, <2>2
<1>7. CASE r # s
  <2>1. /\ r \in [largestQ : Nat, chosen : 1 .. 3, stop : BOOLEAN]
        /\ r.largestQ # 0 /\ r.chosen \in {1, 2}
        /\ e.q \notin {0, Bad}
        /\ e.name = compressionTypes[r.chosen] \/ e.name = "*"
    <3>1. CASE e.q = None /\ e.name = "*"
      <4>1. r = [largestQ |-> 10, chosen |-> 1, stop |-> TRUE]
        BY <1>7, <3>1 DEF Considered
      <4> QED
        BY <3>1, <4>1, NoneFacts
    <3>2. CASE e.q = None /\ e.name # "*"
      <4>1. r = [s EXCEPT !.largestQ = 10, !.chosen = Index(e.name)] /\ Index(e.name) < s.chosen
        BY <1>7, <3>2 DEF Considered
      <4>2. Index(e.name) \in 1 .. 2
        BY <1>3, <1>4, <4>1
      <4>3. r.largestQ = 10 /\ r.chosen = Index(e.name) /\ r \in [largestQ : Nat, chosen : 1 .. 3, stop : BOOLEAN]
        <5>1. 10 \in Nat
          OBVIOUS
        <5>2. s \in [largestQ : Nat, chosen : 1 .. 3, stop : BOOLEAN]
          BY <1>3
        <5> HIDE DEF r
        <5> QED
          BY ONLY <5>1, <5>2, <4>1, <4>2, FoundNext, Zenon
      <4>4. e.q \notin {0, Bad}
        BY <3>2, NoneFacts
      <4> QED
        BY <1>4, <4>2, <4>3, <4>4
    <3>3. CASE e.q # None
      <4>1. /\ r = [s EXCEPT !.largestQ = e.q, !.chosen = Index(e.name)]
            /\ e.q > 0 /\ e.q # Bad /\ (e.name = "*" \/ Index(e.name) < s.chosen)
        BY <1>7, <3>3 DEF Considered
      <4>2. e.q \in Nat
        BY <1>5, <3>3, <4>1
      <4>3. e.name = "*" => Index(e.name) = 1
        BY DEF Index
      <4>4. Index(e.name) \in 1 .. 2
        BY <1>3, <1>4, <4>1, <4>3
      <4>5. r.largestQ = e.q /\ r.chosen = Index(e.name) /\ r \in [largestQ : Nat, chosen : 1 .. 3, stop : BOOLEAN]
        <5>2. s \in [largestQ : Nat, chosen : 1 .. 3, stop : BOOLEAN]
          BY <1>3
        <5> HIDE DEF r
        <5> QED
          BY ONLY <5>2, <4>1, <4>2, <4>4, FoundNext, Zenon
      <4> QED
        BY <1>4, <4>1, <4>2, <4>4, <4>5
    <3> QED
      BY <3>1, <3>2, <3>3
  <2> HIDE DEF r
  <2> QED
    BY <1>2, <2>1 DEF FoundRight, r, e
<1> QED
  BY <1>6, <1>7 DEF e

LEMMA SearchRight ==
  ASSUME NEW codings \in Seq(Coding)
  PROVE  FoundRight(codings, Len(codings), Search(codings)[Len(codings)])
<1> DEFINE L == Len(codings)
           R == Search(codings)
           S == {n \in 0 .. L : ~FoundRight(codings, n, R[n])}
<1>1. /\ L \in Nat /\ R[0] = [largestQ |-> 0, chosen |-> 3, stop |-> FALSE]
      /\ \A n \in 1 .. L : R[n] = Considered(R[n - 1], codings[n])
  BY SearchFacts
<1>2. \A n \in 1 .. L : codings[n].q \in Nat \cup {None, Bad}
  BY CodingAssumption
<1> HIDE DEF R, L
<1>3. FoundRight(codings, 0, R[0])
  BY <1>1 DEF FoundRight, WeighsIn
<1>4. S = {}
  <2> SUFFICES ASSUME S # {} PROVE FALSE
    OBVIOUS
  <2>1. S \in SUBSET Nat
    OBVIOUS
  <2>2. PICK x \in S : \A y \in S : x <= y
    <3> HIDE DEF S
    <3> QED
      BY <2>1, Least
  <2>3. x \in 0 .. L /\ ~FoundRight(codings, x, R[x]) /\ x # 0
    BY <1>3, <2>2
  <2>4. x \in 1 .. L /\ x - 1 \in 0 .. L /\ ~(x <= x - 1) /\ x \in Nat \ {0}
    BY <1>1, <2>3
  <2>5. FoundRight(codings, x - 1, R[x - 1])
    BY <2>2, <2>4
  <2> QED
    BY <1>1, <1>2, <2>3, <2>4, <2>5, ConsideredRight
<1>5. FoundRight(codings, L, R[L])
  <2>1. L \in 0 .. L
    BY <1>1
  <2> QED
    BY <1>4, <2>1
<1> QED
  BY <1>5 DEF R, L

LEMMA DetectRight ==
  ASSUME NEW codings \in Seq(Coding)
  PROVE  /\ detectCompressionType(codings) \in {None} \cup Type
         /\ LET type == detectCompressionType(codings)
                Weighs(n) == \E i \in DOMAIN codings : codings[i].name = n /\ codings[i].q \notin {0, Bad}
            IN  IF type = None THEN \A t \in Range(compressionTypes) : ~Weighs(t)
                ELSE Weighs(type) \/ Weighs("*")
<1> DEFINE end == Search(codings)[Len(codings)]
<1>1. FoundRight(codings, Len(codings), end)
  BY SearchRight
<1>2. detectCompressionType(codings) = IF end.largestQ = 0 THEN None ELSE compressionTypes[end.chosen]
  BY DEF detectCompressionType
<1>3. DOMAIN codings = 1 .. Len(codings)
  OBVIOUS
<1> HIDE DEF end
<1> QED
  BY <1>1, <1>2, <1>3, TypeFacts, NoneFacts DEF FoundRight, WeighsIn

-----------------------------------------------------------------------------
(* The state of a response.                                                   *)
Atom    == Text \cup Nat
Piece   == [chunk : Chunk \cup {None}, by : {None} \cup Type]
Net     == [header : Headers, sent : {None} \cup Started, body : Seq(Piece)]
Out     == [net : Net, writer : {None} \cup Writer, status : Nat, contentType : Text]

LEMMA OutFacts ==
  ASSUME NEW o \in Out
  PROVE  /\ o.net \in Net /\ o.net.header \in Headers /\ o.net.sent \in {None} \cup Started
         /\ o.net.body \in Seq(Piece)
         /\ o.writer \in {None} \cup Writer /\ o.status \in Nat /\ o.contentType \in Text
         /\ o.writer # None =>
              /\ o.writer \in Writer
              /\ o.writer.compressionType \in {None} \cup Type
              /\ o.writer.headersWritten \in BOOLEAN
              /\ o.writer.closed \in BOOLEAN /\ o.writer.released \in BOOLEAN
              /\ o.writer.headerMap \in Headers /\ o.writer.cookieList \in Seq(Nat)
              /\ o.writer.status \in Nat
  BY DEF Out, Net, Writer, Type

(* A header, in the buffer or not, is given a value.                          *)
SameWriter(w, x) ==
  /\ x.compressionType = w.compressionType /\ x.headersWritten = w.headersWritten
  /\ x.closed = w.closed /\ x.released = w.released /\ x.cookieList = w.cookieList /\ x.status = w.status

Changed(o, r, k, v) ==
  /\ r \in Out /\ r.status = o.status /\ r.contentType = o.contentType
  /\ r.net.sent = o.net.sent /\ r.net.body = o.net.body
  /\ IF Buffers(o)
     THEN /\ r.net.header = o.net.header
          /\ r.writer # None /\ SameWriter(o.writer, r.writer)
          /\ r.writer.headerMap = [o.writer.headerMap EXCEPT ![k] = v]
     ELSE /\ r.net.header = [o.net.header EXCEPT ![k] = v]
          /\ r.writer = o.writer

LEMMA HeaderFacts ==
  ASSUME NEW o \in Out, NEW k \in Header, NEW v \in Seq(Atom), NEW r,
         r = IF Buffers(o) THEN [o EXCEPT !.writer.headerMap[k] = v] ELSE [o EXCEPT !.net.header[k] = v]
  PROVE  Changed(o, r, k, v)
<1>1. CASE Buffers(o)
  <2>1. r = [o EXCEPT !.writer = [o.writer EXCEPT !.headerMap = [o.writer.headerMap EXCEPT ![k] = v]]]
    BY <1>1
  <2> DEFINE h == [o.writer.headerMap EXCEPT ![k] = v]
             w == [o.writer EXCEPT !.headerMap = h]
  <2>2. o.writer \in Writer /\ o.writer # None /\ o.writer.headerMap \in Headers
    BY <1>1, OutFacts DEF Buffers
  <2>3. h \in Headers
    BY <2>2 DEF Headers, Atom
  <2> HIDE DEF h
  <2>4. w \in Writer /\ w.headerMap = h /\ SameWriter(o.writer, w)
    BY <2>2, <2>3 DEF Writer, SameWriter
  <2>5. w # None
    BY <2>4, NoneFacts
  <2> HIDE DEF w
  <2>6. r = [o EXCEPT !.writer = w]
    BY <2>1 DEF w, h
  <2>7. r \in Out /\ r.writer = w /\ r.net = o.net /\ r.status = o.status /\ r.contentType = o.contentType
    BY <2>4, <2>6 DEF Out
  <2> QED
    BY <1>1, <2>4, <2>5, <2>7 DEF Changed, h
<1>2. CASE ~Buffers(o)
  <2>1. r = [o EXCEPT !.net = [o.net EXCEPT !.header = [o.net.header EXCEPT ![k] = v]]]
    BY <1>2
  <2> DEFINE h == [o.net.header EXCEPT ![k] = v]
             n == [o.net EXCEPT !.header = h]
  <2>2. o.net \in Net /\ o.net.header \in Headers
    BY OutFacts
  <2>3. h \in Headers
    BY <2>2 DEF Headers, Atom
  <2> HIDE DEF h
  <2>4. n \in Net /\ n.header = h /\ n.sent = o.net.sent /\ n.body = o.net.body
    BY <2>2, <2>3 DEF Net
  <2> HIDE DEF n
  <2>5. r = [o EXCEPT !.net = n]
    BY <2>1 DEF n, h
  <2>6. r \in Out /\ r.writer = o.writer /\ r.net = n /\ r.status = o.status /\ r.contentType = o.contentType
    BY <2>4, <2>5 DEF Out
  <2> QED
    BY <1>2, <2>4, <2>6 DEF Changed, h
<1> QED
  BY <1>1, <1>2

LEMMA HeaderSetFacts ==
  ASSUME NEW o \in Out, NEW k \in Header, NEW v \in Atom
  PROVE  Changed(o, HeaderSet(o, k, v), k, <<v>>)
<1>1. <<v>> \in Seq(Atom)
  OBVIOUS
<1>2. HeaderSet(o, k, v) = IF Buffers(o) THEN [o EXCEPT !.writer.headerMap[k] = <<v>>]
                           ELSE [o EXCEPT !.net.header[k] = <<v>>]
  BY DEF HeaderSet
<1> QED
  BY <1>1, <1>2, HeaderFacts

LEMMA HeaderDelFacts ==
  ASSUME NEW o \in Out, NEW k \in Header
  PROVE  Changed(o, HeaderDel(o, k), k, << >>)
<1>1. << >> \in Seq(Atom)
  OBVIOUS
<1>2. HeaderDel(o, k) = IF Buffers(o) THEN [o EXCEPT !.writer.headerMap[k] = << >>]
                        ELSE [o EXCEPT !.net.header[k] = << >>]
  BY DEF HeaderDel
<1> QED
  BY <1>1, <1>2, HeaderFacts

LEMMA HeaderAddFacts ==
  ASSUME NEW o \in Out, NEW k \in Header, NEW v \in Atom
  PROVE  \E x : Changed(o, HeaderAdd(o, k, v), k, x)
<1> DEFINE x == IF Buffers(o) THEN Append(o.writer.headerMap[k], v)
                ELSE IF o.writer = None THEN Append(o.net.header[k], v) ELSE <<v>>
<1>1. x \in Seq(Atom)
  <2>1. o.net.header[k] \in Seq(Atom) /\ (Buffers(o) => o.writer.headerMap[k] \in Seq(Atom))
    BY OutFacts DEF Headers, Atom, Buffers
  <2> QED
    BY <2>1, AppendProperties
<1>2. HeaderAdd(o, k, v) = IF Buffers(o) THEN [o EXCEPT !.writer.headerMap[k] = x]
                           ELSE [o EXCEPT !.net.header[k] = x]
  BY DEF HeaderAdd
<1> HIDE DEF x
<1> QED
  BY <1>1, <1>2, HeaderFacts

(* The two operations of net/http.                                            *)
LEMMA NetWriteHeaderFacts ==
  ASSUME NEW n \in Net, NEW status \in Nat
  PROVE  LET r == NetWriteHeader(n, status)
         IN  /\ r \in Net /\ r.header = n.header /\ r.body = n.body /\ r.sent # None
             /\ n.sent # None => r = n
             /\ n.sent = None => r.sent = [status |-> status, header |-> n.header]
<1> DEFINE r == NetWriteHeader(n, status)
<1>1. CASE n.sent # None
  BY <1>1 DEF NetWriteHeader
<1>2. CASE n.sent = None
  <2> DEFINE s == [status |-> status, header |-> n.header]
  <2>1. s \in Started /\ s # None
    BY NoneFacts DEF Net, Started
  <2> HIDE DEF s
  <2>2. r = [n EXCEPT !.sent = s]
    BY <1>2 DEF NetWriteHeader, s
  <2> QED
    BY <1>2, <2>1, <2>2 DEF Net, s
<1> QED
  BY <1>1, <1>2

LEMMA NetWriteFacts ==
  ASSUME NEW n \in Net, NEW chunk \in Chunk \cup {None}, NEW by \in {None} \cup Type
  PROVE  LET r == NetWrite(n, chunk, by)
         IN  /\ r \in Net /\ r.header = n.header /\ r.sent # None
             /\ n.sent # None => r.sent = n.sent
             /\ n.sent = None => r.sent = [status |-> 200, header |-> n.header]
             /\ BodyAllowed(r.sent.status) => r.body = Append(n.body, [chunk |-> chunk, by |-> by])
             /\ ~BodyAllowed(r.sent.status) => r.body = n.body
<1> DEFINE r == NetWrite(n, chunk, by)
<1> DEFINE m == NetWriteHeader(n, 200)
           b == Append(n.body, [chunk |-> chunk, by |-> by])
<1>1. /\ m \in Net /\ m.header = n.header /\ m.body = n.body /\ m.sent # None
      /\ n.sent # None => m = n
      /\ n.sent = None => m.sent = [status |-> 200, header |-> n.header]
  BY NetWriteHeaderFacts
<1>2. b \in Seq(Piece)
  <2>1. n.body \in Seq(Piece) /\ [chunk |-> chunk, by |-> by] \in Piece
    BY DEF Net, Piece
  <2> QED
    BY <2>1, AppendProperties
<1>3. r = IF BodyAllowed(m.sent.status) THEN [m EXCEPT !.body = b] ELSE m
  BY <1>1 DEF NetWrite
<1> HIDE DEF m, b, r
<1>4. CASE BodyAllowed(m.sent.status)
  <2>1. r = [m EXCEPT !.body = b]
    BY <1>3, <1>4
  <2>2. r \in Net /\ r.header = m.header /\ r.sent = m.sent /\ r.body = b
    BY <1>1, <1>2, <2>1 DEF Net
  <2> QED
    BY <1>1, <1>4, <2>2 DEF b, r
<1>5. CASE ~BodyAllowed(m.sent.status)
  BY <1>1, <1>3, <1>5 DEF r
<1> QED
  BY <1>4, <1>5

LEMMA NetWriteOn ==
  ASSUME NEW n \in Net, n.sent # None, NEW chunk \in Chunk \cup {None}, NEW by \in {None} \cup Type,
         NEW x, x = NetWrite(n, chunk, by)
  PROVE  /\ x \in Net /\ x.header = n.header /\ x.sent = n.sent
         /\ BodyAllowed(x.sent.status) => x.body = Append(n.body, [chunk |-> chunk, by |-> by])
         /\ ~BodyAllowed(x.sent.status) => x.body = n.body
<1>1. LET r == NetWrite(n, chunk, by)
      IN  /\ r \in Net /\ r.header = n.header /\ r.sent # None
          /\ n.sent # None => r.sent = n.sent
          /\ n.sent = None => r.sent = [status |-> 200, header |-> n.header]
          /\ BodyAllowed(r.sent.status) => r.body = Append(n.body, [chunk |-> chunk, by |-> by])
          /\ ~BodyAllowed(r.sent.status) => r.body = n.body
  BY NetWriteFacts, Zenon
<1> QED
  BY <1>1, Zenon

(* What a change below, and only there, does to a response.                   *)
LEMMA NetFacts ==
  ASSUME NEW o \in Out, NEW n \in Net, NEW r, r = [o EXCEPT !.net = n]
  PROVE  /\ r \in Out /\ r.net = n /\ r.writer = o.writer
         /\ r.status = o.status /\ r.contentType = o.contentType
  BY DEF Out

LEMMA WriterFacts ==
  ASSUME NEW o \in Out, NEW w \in Writer, NEW r, r = [o EXCEPT !.writer = w]
  PROVE  /\ r \in Out /\ r.net = o.net /\ r.writer = w /\ w # None
         /\ r.status = o.status /\ r.contentType = o.contentType
  BY NoneFacts DEF Out

LEMMA SetCookieFacts ==
  ASSUME NEW o \in Out, NEW c \in Nat
  PROVE  LET r == SetCookie(o, c) IN
           /\ r \in Out /\ r.status = o.status /\ r.contentType = o.contentType
           /\ r.net.sent = o.net.sent /\ r.net.body = o.net.body
           /\ \A k \in Header \ {"Set-Cookie"} : r.net.header[k] = o.net.header[k]
           /\ IF Buffers(o)
              THEN /\ r.net.header = o.net.header
                   /\ r.writer # None /\ r.writer.cookieList = Append(o.writer.cookieList, c)
                   /\ r.writer.compressionType = o.writer.compressionType
                   /\ r.writer.headersWritten = o.writer.headersWritten
                   /\ r.writer.closed = o.writer.closed /\ r.writer.released = o.writer.released
                   /\ r.writer.headerMap = o.writer.headerMap /\ r.writer.status = o.writer.status
              ELSE /\ r.net.header["Set-Cookie"] = Append(o.net.header["Set-Cookie"], c)
                   /\ r.writer = o.writer
<1> DEFINE r == SetCookie(o, c)
<1>1. CASE Buffers(o)
  <2> DEFINE l == Append(o.writer.cookieList, c)
             w == [o.writer EXCEPT !.cookieList = l]
  <2>1. o.writer \in Writer /\ o.writer.cookieList \in Seq(Nat)
    BY <1>1, OutFacts DEF Buffers
  <2>2. l \in Seq(Nat)
    BY <2>1, AppendProperties
  <2>3. r = [o EXCEPT !.writer = w]
    BY <1>1 DEF SetCookie
  <2> HIDE DEF l, r
  <2>4. /\ w \in Writer /\ w.cookieList = l /\ w.compressionType = o.writer.compressionType
        /\ w.headersWritten = o.writer.headersWritten
        /\ w.closed = o.writer.closed /\ w.released = o.writer.released
        /\ w.headerMap = o.writer.headerMap /\ w.status = o.writer.status
    BY <2>1, <2>2 DEF Writer
  <2> HIDE DEF w
  <2>5. /\ r \in Out /\ r.net = o.net /\ r.writer = w /\ w # None
        /\ r.status = o.status /\ r.contentType = o.contentType
    BY <2>3, <2>4, WriterFacts
  <2> QED
    BY <1>1, <2>4, <2>5 DEF l, r
<1>2. CASE ~Buffers(o)
  <2> DEFINE v == Append(o.net.header["Set-Cookie"], c)
  <2>1. "Set-Cookie" \in Header
    BY DEF Header
  <2>2. o.net.header \in Headers
    BY OutFacts
  <2>3. v \in Seq(Atom)
    <3>1. o.net.header["Set-Cookie"] \in Seq(Atom) /\ c \in Atom
      BY <2>1, <2>2 DEF Headers, Atom
    <3> QED
      BY <3>1, AppendProperties
  <2>4. r = IF Buffers(o) THEN [o EXCEPT !.writer.headerMap["Set-Cookie"] = v]
            ELSE [o EXCEPT !.net.header["Set-Cookie"] = v]
    BY <1>2 DEF SetCookie
  <2> HIDE DEF v, r
  <2>5. Changed(o, r, "Set-Cookie", v)
    BY <2>1, <2>3, <2>4, HeaderFacts
  <2>6. r.net.header = [o.net.header EXCEPT !["Set-Cookie"] = v]
    BY <1>2, <2>5 DEF Changed
  <2>7. r.net.header["Set-Cookie"] = v /\ \A k \in Header \ {"Set-Cookie"} : r.net.header[k] = o.net.header[k]
    BY <2>1, <2>2, <2>6 DEF Headers
  <2> QED
    BY <1>2, <2>5, <2>7 DEF Changed, v, r
<1> QED
  BY <1>1, <1>2

LEMMA SetStatusFacts ==
  ASSUME NEW o \in Out, NEW s \in Nat, NEW r, r = SetStatus(o, s)
  PROVE  /\ r \in Out /\ r.status = o.status /\ r.contentType = o.contentType
         /\ r.net.header = o.net.header /\ r.net.body = o.net.body
         /\ IF Buffers(o)
            THEN /\ r.net = o.net /\ r.writer # None /\ r.writer.status = s
                 /\ r.writer.compressionType = o.writer.compressionType
                 /\ r.writer.headersWritten = o.writer.headersWritten
                 /\ r.writer.closed = o.writer.closed /\ r.writer.released = o.writer.released
                 /\ r.writer.headerMap = o.writer.headerMap /\ r.writer.cookieList = o.writer.cookieList
            ELSE r.net = NetWriteHeader(o.net, s) /\ r.writer = o.writer
<1>1. CASE Buffers(o)
  <2> DEFINE w == [o.writer EXCEPT !.status = s]
  <2>1. o.writer \in Writer
    BY <1>1, OutFacts DEF Buffers
  <2>2. r = [o EXCEPT !.writer = w]
    BY <1>1 DEF SetStatus
  <2>3. /\ w \in Writer /\ w.cookieList = o.writer.cookieList /\ w.compressionType = o.writer.compressionType
        /\ w.headersWritten = o.writer.headersWritten
        /\ w.closed = o.writer.closed /\ w.released = o.writer.released
        /\ w.headerMap = o.writer.headerMap /\ w.status = s
    BY <2>1 DEF Writer
  <2> HIDE DEF w
  <2>4. /\ r \in Out /\ r.net = o.net /\ r.writer = w /\ w # None
        /\ r.status = o.status /\ r.contentType = o.contentType
    BY <2>2, <2>3, WriterFacts
  <2> QED
    BY <1>1, <2>3, <2>4
<1>2. CASE ~Buffers(o)
  <2> DEFINE n == NetWriteHeader(o.net, s)
  <2>1. n \in Net /\ n.header = o.net.header /\ n.body = o.net.body
    <3>1. o.net \in Net
      BY OutFacts
    <3> QED
      BY <3>1, NetWriteHeaderFacts
  <2>2. r = [o EXCEPT !.net = n]
    BY <1>2 DEF SetStatus
  <2> HIDE DEF n
  <2>3. /\ r \in Out /\ r.net = n /\ r.writer = o.writer
        /\ r.status = o.status /\ r.contentType = o.contentType
    BY <2>1, <2>2, NetFacts
  <2> QED
    BY <1>2, <2>1, <2>3 DEF n
<1> QED
  BY <1>1, <1>2

(* The value of a header when the buffer is released.                         *)
Eff(o, k) == IF o.writer.headerMap[k] = << >> THEN o.net.header[k] ELSE <<Last(o.writer.headerMap[k])>>

LEMMA EffType ==
  ASSUME NEW o \in Out, o.writer # None, NEW k \in Header
  PROVE  Eff(o, k) \in Seq(Atom)
<1>1. o.net.header[k] \in Seq(Atom) /\ o.writer.headerMap[k] \in Seq(Atom)
  BY OutFacts DEF Headers, Atom
<1>2. CASE o.writer.headerMap[k] = << >>
  BY <1>1, <1>2 DEF Eff
<1>3. CASE o.writer.headerMap[k] # << >>
  <2>1. Last(o.writer.headerMap[k]) \in Atom
    BY <1>1, <1>3 DEF Last
  <2> QED
    BY <1>3, <2>1 DEF Eff
<1> QED
  BY <1>2, <1>3

LEMMA ReleaseFacts ==
  ASSUME NEW o \in Out, o.writer # None, NEW r, r = Release(o)
  PROVE  /\ r \in Out /\ r.status = o.status /\ r.contentType = o.contentType
         /\ r.writer # None /\ r.writer.released
         /\ r.writer.compressionType = o.writer.compressionType
         /\ r.writer.headersWritten = o.writer.headersWritten
         /\ r.writer.closed = o.writer.closed
         /\ \A k \in Header \ {"Set-Cookie"} : r.net.header[k] = Eff(o, k)
         /\ r.net.header["Set-Cookie"] = Eff(o, "Set-Cookie") \o o.writer.cookieList
         /\ r.net.body = o.net.body
         /\ o.net.sent # None => r.net.sent = o.net.sent
         /\ o.net.sent = None => r.net.sent = IF o.writer.status > 0
                                              THEN [status |-> o.writer.status, header |-> r.net.header]
                                              ELSE None
<1> DEFINE set == [k \in Header |-> IF o.writer.headerMap[k] = << >> THEN o.net.header[k]
                                    ELSE <<Last(o.writer.headerMap[k])>>]
           h   == [set EXCEPT !["Set-Cookie"] = set["Set-Cookie"] \o o.writer.cookieList]
           net == [o.net EXCEPT !.header = h]
           w   == [o.writer EXCEPT !.released = TRUE]
           m   == IF o.writer.status > 0 THEN NetWriteHeader(net, o.writer.status) ELSE net
<1>1. /\ o.writer \in Writer /\ o.writer.cookieList \in Seq(Nat) /\ o.writer.status \in Nat
      /\ o.net \in Net
  BY OutFacts
<1>2. set = [k \in Header |-> Eff(o, k)]
  BY DEF Eff
<1>3. r = [[o EXCEPT !.writer = w] EXCEPT !.net = m]
  BY DEF Release
<1> HIDE DEF set
<1>4. /\ h \in Headers
      /\ \A k \in Header \ {"Set-Cookie"} : h[k] = Eff(o, k)
      /\ h["Set-Cookie"] = Eff(o, "Set-Cookie") \o o.writer.cookieList
  <2>1. set \in [Header -> Seq(Atom)] /\ "Set-Cookie" \in Header /\ set["Set-Cookie"] = Eff(o, "Set-Cookie")
    BY <1>2, EffType DEF Header
  <2>2. set["Set-Cookie"] \o o.writer.cookieList \in Seq(Atom)
    <3>1. o.writer.cookieList \in Seq(Atom)
      BY <1>1 DEF Atom
    <3> QED
      BY <2>1, <3>1, ConcatProperties
  <2> QED
    BY <1>2, <2>1, <2>2 DEF Headers, Atom
<1> HIDE DEF h
<1>5. net \in Net /\ net.header = h /\ net.sent = o.net.sent /\ net.body = o.net.body
  BY <1>1, <1>4 DEF Net
<1>6. /\ w \in Writer /\ w.released /\ w.compressionType = o.writer.compressionType
      /\ w.headersWritten = o.writer.headersWritten /\ w.closed = o.writer.closed
  BY <1>1 DEF Writer
<1> HIDE DEF net, w
<1>7. /\ m \in Net /\ m.header = h /\ m.body = o.net.body
      /\ o.net.sent # None => m.sent = o.net.sent
      /\ o.net.sent = None => m.sent = IF o.writer.status > 0
                                       THEN [status |-> o.writer.status, header |-> h] ELSE None
  <2>1. CASE o.writer.status > 0
    <3>1. /\ m \in Net /\ m.header = net.header /\ m.body = net.body
          /\ net.sent # None => m = net
          /\ net.sent = None => m.sent = [status |-> o.writer.status, header |-> net.header]
      BY <1>1, <1>5, <2>1, NetWriteHeaderFacts
    <3> QED
      BY <1>5, <2>1, <3>1
  <2>2. CASE ~(o.writer.status > 0)
    BY <1>5, <2>2
  <2> QED
    BY <2>1, <2>2
<1> HIDE DEF m
<1> DEFINE q == [o EXCEPT !.writer = w]
<1>8. q \in Out /\ q.net = o.net /\ q.writer = w /\ w # None /\ q.status = o.status /\ q.contentType = o.contentType
  BY <1>6, WriterFacts
<1>9. r = [q EXCEPT !.net = m]
  BY <1>3
<1> HIDE DEF q
<1>10. r \in Out /\ r.net = m /\ r.writer = q.writer /\ r.status = q.status /\ r.contentType = q.contentType
  BY <1>7, <1>8, <1>9, NetFacts
<1> QED
  BY <1>4, <1>6, <1>7, <1>8, <1>10

-----------------------------------------------------------------------------
(* A response is written to directly; or waits in the buffer, with nothing    *)
(* sent; or flows through the writer since the buffer was released.           *)
Foreign == {<< >>, <<"br">>}

Bare(o) ==
  /\ o.writer = None
  /\ o.net.header["Content-Encoding"] \in Foreign
  /\ \A i \in DOMAIN o.net.body : o.net.body[i].chunk # None /\ o.net.body[i].by = None
  /\ IF o.net.sent = None THEN o.net.body = << >> ELSE o.net.sent.header["Content-Encoding"] \in Foreign

Waiting(o) ==
  /\ o.writer # None /\ ~o.writer.released /\ ~o.writer.headersWritten /\ ~o.writer.closed
  /\ o.writer.compressionType \in Type
  /\ o.net.sent = None /\ o.net.body = << >>
  /\ o.net.header["Content-Encoding"] \in Foreign /\ o.writer.headerMap["Content-Encoding"] \in Foreign
  /\ o.net.header["Content-Length"] = << >> /\ o.writer.headerMap["Set-Cookie"] = << >>

Flowing(o) ==
  /\ o.writer # None /\ o.writer.released /\ o.writer.headersWritten /\ ~o.writer.closed
  /\ o.net.sent # None
  /\ \A i \in DOMAIN o.net.body : o.net.body[i].chunk # None /\ o.net.body[i].by = o.writer.compressionType
  /\ IF o.writer.compressionType = None THEN o.net.sent.header["Content-Encoding"] \in Foreign
     ELSE /\ o.net.sent.header["Content-Encoding"] = <<o.writer.compressionType>>
          /\ o.net.sent.header["Content-Length"] = << >>

Fit(o) == o \in Out /\ (Bare(o) \/ Waiting(o) \/ Flowing(o))

(* The Content-Length is one of S; when it is not missing, w chunks have been  *)
(* written.                                                                   *)
Sized(o, S, w) ==
  IF o.net.sent = None
  THEN /\ o.net.header["Content-Length"] \in S
       /\ o.writer # None => o.writer.headerMap["Content-Length"] \in S
       /\ S # {<< >>} => w = 0
  ELSE /\ o.net.sent.header["Content-Length"] \in S
       /\ o.net.sent.header["Content-Length"] # << >> /\ BodyAllowed(o.net.sent.status) => Len(o.net.body) = w

LEMMA EffForeign ==
  ASSUME NEW o \in Out, Waiting(o)
  PROVE  /\ Eff(o, "Content-Encoding") \in Foreign
         /\ Eff(o, "Set-Cookie") = o.net.header["Set-Cookie"]
         /\ Eff(o, "Content-Encoding") # << >> => ~Compressable(o)
  BY DEF Eff, Waiting, Foreign, Last, Compressable, HeaderGet, Buffers

(* prepareHeaders releases the buffer, for a stream that is compressed or not. *)
LEMMA PrepareFacts ==
  ASSUME NEW o \in Out, Waiting(o), NEW r, r = prepareHeaders(o)
  PROVE  /\ r \in Out /\ r.status = o.status /\ r.contentType = o.contentType
         /\ r.writer # None /\ r.writer.released /\ ~r.writer.headersWritten /\ ~r.writer.closed
         /\ r.writer.compressionType = IF Compressable(o) THEN o.writer.compressionType ELSE None
         /\ \A k \in Header \ {"Content-Encoding", "Content-Length", "Set-Cookie"} :
              r.net.header[k] = Eff(o, k)
         /\ r.net.header["Set-Cookie"] = o.net.header["Set-Cookie"] \o o.writer.cookieList
         /\ r.net.header["Content-Encoding"] =
              IF Compressable(o) THEN <<o.writer.compressionType>> ELSE Eff(o, "Content-Encoding")
         /\ r.net.header["Content-Length"] = IF Compressable(o) THEN << >> ELSE Eff(o, "Content-Length")
         /\ r.net.body = << >>
         /\ r.net.sent = IF o.writer.status > 0
                         THEN [status |-> o.writer.status, header |-> r.net.header] ELSE None
<1>1. Buffers(o) /\ o.writer \in Writer /\ o.writer.headerMap \in Headers
  BY OutFacts DEF Waiting, Buffers
<1>2. {"Content-Encoding", "Content-Length", "Set-Cookie"} \subseteq Header
  BY DEF Header
<1>3. CASE Compressable(o)
  <2> DEFINE type == o.writer.compressionType
             x == HeaderSet(o, "Content-Encoding", type)
             y == HeaderDel(x, "Content-Length")
  <2>1. type \in Atom
    BY TypeFacts DEF Waiting, Atom, Text
  <2>2. Changed(o, x, "Content-Encoding", <<type>>)
    BY <1>2, <2>1, HeaderSetFacts
  <2>3. r = Release(y)
    BY <1>3 DEF prepareHeaders
  <2> HIDE DEF x, type
  <2>4. x \in Out /\ Buffers(x)
    BY <1>1, <2>2 DEF Changed, Buffers, SameWriter
  <2>5. Changed(x, y, "Content-Length", << >>)
    BY <1>2, <2>4, HeaderDelFacts
  <2> HIDE DEF y
  <2>6. y \in Out /\ y.writer # None
    BY <2>4, <2>5 DEF Changed
  <2> DEFINE h == [o.writer.headerMap EXCEPT !["Content-Encoding"] = <<type>>]
             g == [h EXCEPT !["Content-Length"] = << >>]
  <2>7. /\ y.writer.headerMap = g /\ y.net.header = o.net.header
        /\ y.net.sent = o.net.sent /\ y.net.body = o.net.body
        /\ SameWriter(o.writer, y.writer) /\ y.status = o.status /\ y.contentType = o.contentType
    BY <1>1, <2>2, <2>4, <2>5 DEF Changed, SameWriter
  <2>8. /\ g["Content-Encoding"] = <<type>> /\ g["Content-Length"] = << >>
        /\ \A k \in Header \ {"Content-Encoding", "Content-Length"} : g[k] = o.writer.headerMap[k]
    BY <1>1, <1>2 DEF Headers
  <2> HIDE DEF g
  <2>9. /\ \A k \in Header \ {"Content-Encoding", "Content-Length"} : Eff(y, k) = Eff(o, k)
        /\ Eff(y, "Content-Encoding") = <<type>>
        /\ Eff(y, "Content-Length") = << >>
    <3>1. \A k \in Header \ {"Content-Encoding", "Content-Length"} : Eff(y, k) = Eff(o, k)
      BY <2>7, <2>8 DEF Eff
    <3>2. Eff(y, "Content-Encoding") = <<type>>
      BY <2>7, <2>8 DEF Eff, Last
    <3>3. Eff(y, "Content-Length") = << >>
      BY <2>7, <2>8 DEF Eff, Waiting
    <3> QED
      BY <3>1, <3>2, <3>3
  <2>10. Eff(o, "Set-Cookie") = o.net.header["Set-Cookie"]
    BY EffForeign
  <2>11. /\ r \in Out /\ r.status = y.status /\ r.contentType = y.contentType
         /\ r.writer # None /\ r.writer.released
         /\ r.writer.compressionType = y.writer.compressionType
         /\ r.writer.headersWritten = y.writer.headersWritten
         /\ r.writer.closed = y.writer.closed
         /\ \A k \in Header \ {"Set-Cookie"} : r.net.header[k] = Eff(y, k)
         /\ r.net.header["Set-Cookie"] = Eff(y, "Set-Cookie") \o y.writer.cookieList
         /\ r.net.body = y.net.body
         /\ y.net.sent = None => r.net.sent = IF y.writer.status > 0
                                              THEN [status |-> y.writer.status, header |-> r.net.header]
                                              ELSE None
    BY <2>3, <2>6, ReleaseFacts
  <2>12. /\ r \in Out /\ r.status = o.status /\ r.contentType = o.contentType
         /\ r.writer # None /\ r.writer.released /\ ~r.writer.headersWritten /\ ~r.writer.closed
         /\ r.writer.compressionType = type
    BY <2>7, <2>11 DEF Waiting, SameWriter, type
  <2>13. /\ \A k \in Header \ {"Content-Encoding", "Content-Length", "Set-Cookie"} :
              r.net.header[k] = Eff(o, k)
         /\ r.net.header["Content-Encoding"] = <<type>> /\ r.net.header["Content-Length"] = << >>
    BY <1>2, <2>9, <2>11
  <2>14. r.net.header["Set-Cookie"] = o.net.header["Set-Cookie"] \o o.writer.cookieList
    <3>1. Eff(y, "Set-Cookie") = o.net.header["Set-Cookie"]
      BY <1>2, <2>9, <2>10
    <3> QED
      BY <2>7, <2>11, <3>1 DEF SameWriter
  <2>15. /\ r.net.body = << >>
         /\ r.net.sent = IF o.writer.status > 0
                         THEN [status |-> o.writer.status, header |-> r.net.header] ELSE None
    BY <2>7, <2>11 DEF Waiting, SameWriter
  <2> QED
    BY <1>3, <2>12, <2>13, <2>14, <2>15 DEF type
<1>4. CASE ~Compressable(o)
  <2> DEFINE w == [o.writer EXCEPT !.compressionType = None]
             y == [o EXCEPT !.writer = w]
  <2>1. r = Release(y)
    BY <1>4 DEF prepareHeaders
  <2>2. /\ w \in Writer /\ w.compressionType = None /\ w.headersWritten = o.writer.headersWritten
        /\ w.closed = o.writer.closed /\ w.headerMap = o.writer.headerMap
        /\ w.cookieList = o.writer.cookieList /\ w.status = o.writer.status
    BY <1>1 DEF Writer
  <2> HIDE DEF w
  <2>3. /\ y \in Out /\ y.net = o.net /\ y.writer = w /\ w # None
        /\ y.status = o.status /\ y.contentType = o.contentType
    BY <2>2, WriterFacts
  <2> HIDE DEF y
  <2>4. \A k \in Header : Eff(y, k) = Eff(o, k)
    BY <2>2, <2>3 DEF Eff
  <2>5. Eff(o, "Set-Cookie") = o.net.header["Set-Cookie"]
    BY EffForeign
  <2>6. /\ r \in Out /\ r.status = y.status /\ r.contentType = y.contentType
        /\ r.writer # None /\ r.writer.released
        /\ r.writer.compressionType = y.writer.compressionType
        /\ r.writer.headersWritten = y.writer.headersWritten
        /\ r.writer.closed = y.writer.closed
        /\ \A k \in Header \ {"Set-Cookie"} : r.net.header[k] = Eff(y, k)
        /\ r.net.header["Set-Cookie"] = Eff(y, "Set-Cookie") \o y.writer.cookieList
        /\ r.net.body = y.net.body
        /\ y.net.sent = None => r.net.sent = IF y.writer.status > 0
                                             THEN [status |-> y.writer.status, header |-> r.net.header]
                                             ELSE None
    <3>1. y \in Out /\ y.writer # None
      BY <2>3
    <3> QED
      BY <2>1, <3>1, ReleaseFacts
  <2> QED
    BY <1>2, <1>4, <2>2, <2>3, <2>4, <2>5, <2>6 DEF Waiting
<1> QED
  BY <1>3, <1>4

-----------------------------------------------------------------------------
(* What every operation keeps, for the response with compression and without. *)
Keeps(o, r) ==
  /\ Fit(r) /\ (Bare(o) => Bare(r))
  /\ \A S, w : Sized(o, S, w) => Sized(r, S, w)

LEMMA KeepsOn ==
  ASSUME NEW o, NEW q, NEW r, Keeps(o, q), Keeps(q, r)
  PROVE  Keeps(o, r)
  BY DEF Keeps

LEMMA ModeFacts ==
  ASSUME NEW o
  PROVE  /\ Waiting(o) => Buffers(o) /\ ~Bare(o) /\ ~Flowing(o)
         /\ Flowing(o) => ~Buffers(o) /\ ~Bare(o) /\ ~Waiting(o)
         /\ Bare(o) => ~Buffers(o) /\ ~Waiting(o) /\ ~Flowing(o)
  BY DEF Waiting, Flowing, Bare, Buffers

(* Where the header is written, and read first.                               *)
At(o, x) == IF Buffers(o) THEN o.writer.headerMap[x] ELSE o.net.header[x]

LEMMA ChangedAt ==
  ASSUME NEW o \in Out, NEW r, NEW k \in Header, NEW v, Changed(o, r, k, v)
  PROVE  \A x \in Header : At(r, x) = IF x = k THEN v ELSE At(o, x)
<1>0. Buffers(r) = Buffers(o)
  BY DEF Changed, Buffers, SameWriter
<1>1. CASE Buffers(o)
  <2>1. o.writer.headerMap \in Headers
    BY <1>1, OutFacts DEF Buffers
  <2>2. r.writer.headerMap = [o.writer.headerMap EXCEPT ![k] = v]
    BY <1>1 DEF Changed
  <2> QED
    BY <1>0, <1>1, <2>1, <2>2 DEF Headers, At
<1>2. CASE ~Buffers(o)
  <2>1. o.net.header \in Headers
    BY OutFacts
  <2>2. r.net.header = [o.net.header EXCEPT ![k] = v]
    BY <1>2 DEF Changed
  <2> QED
    BY <1>0, <1>2, <2>1, <2>2 DEF Headers, At
<1> QED
  BY <1>1, <1>2

LEMMA HeaderNames ==
  /\ "Content-Type" \in Header /\ "Content-Encoding" \in Header /\ "Content-Length" \in Header
  /\ "Set-Cookie" \in Header /\ "X" \in Header
  /\ "Last-Modified" \in Header /\ "Accept-Ranges" \in Header
  BY DEF Header

(* The headers that may differ.                                               *)
Dates == {"Last-Modified", "Accept-Ranges"}
Loose == {"X"} \cup Dates

LEMMA LooseFacts ==
  /\ "Content-Encoding" \notin Loose /\ "Content-Type" \notin Loose /\ "Set-Cookie" \notin Loose
  /\ \A T : T \subseteq {"X"} => T \subseteq Loose /\ T \cup Dates \subseteq Loose
  BY DEF Loose, Dates

LEMMA ChangedModes ==
  ASSUME NEW o \in Out, NEW r, NEW k \in Header \ {"Set-Cookie"}, NEW v, Changed(o, r, k, v),
         k = "Content-Encoding" => v \in Foreign
  PROVE  /\ Bare(o) => Bare(r)
         /\ Waiting(o) => Waiting(r)
         /\ Flowing(o) => Flowing(r)
<1>0. /\ \A x \in Header : At(r, x) = IF x = k THEN v ELSE At(o, x)
      /\ Buffers(r) = Buffers(o)
  BY ChangedAt DEF Changed, Buffers, SameWriter
<1>1. CASE Bare(o)
  <2>1. ~Buffers(o) /\ ~Waiting(o) /\ ~Flowing(o)
    BY <1>1, ModeFacts
  <2>2. r.net.header["Content-Encoding"] \in Foreign
    <3>1. r.net.header["Content-Encoding"] =
            IF k = "Content-Encoding" THEN v ELSE o.net.header["Content-Encoding"]
      BY <1>0, <2>1, HeaderNames DEF At
    <3> QED
      BY <1>1, <3>1 DEF Bare
  <2>3. r.writer = o.writer /\ r.net.sent = o.net.sent /\ r.net.body = o.net.body
    BY <2>1 DEF Changed
  <2>4. Bare(r)
    BY <1>1, <2>2, <2>3 DEF Bare
  <2> QED
    BY <2>1, <2>4
<1>2. CASE Waiting(o)
  <2>1. Buffers(o) /\ ~Bare(o) /\ ~Flowing(o)
    BY <1>2, ModeFacts
  <2>2. r.writer.headerMap["Content-Encoding"] \in Foreign /\ r.writer.headerMap["Set-Cookie"] = << >>
    <3>1. /\ r.writer.headerMap["Content-Encoding"] =
               IF k = "Content-Encoding" THEN v ELSE o.writer.headerMap["Content-Encoding"]
          /\ r.writer.headerMap["Set-Cookie"] = o.writer.headerMap["Set-Cookie"]
      BY <1>0, <2>1, HeaderNames DEF At
    <3> QED
      BY <1>2, <3>1 DEF Waiting
  <2>3. /\ r.net.sent = o.net.sent /\ r.net.body = o.net.body /\ r.net.header = o.net.header
        /\ r.writer # None /\ SameWriter(o.writer, r.writer)
    BY <2>1 DEF Changed
  <2>4. Waiting(r)
    BY <1>2, <2>2, <2>3 DEF Waiting, SameWriter
  <2> QED
    BY <2>1, <2>4
<1>3. CASE Flowing(o)
  <2>1. ~Buffers(o) /\ ~Waiting(o) /\ ~Bare(o)
    BY <1>3, ModeFacts
  <2>2. r.writer = o.writer /\ r.net.sent = o.net.sent /\ r.net.body = o.net.body
    BY <2>1 DEF Changed
  <2>3. Flowing(r)
    BY <1>3, <2>2 DEF Flowing
  <2> QED
    BY <2>1, <2>3
<1> QED
  BY <1>1, <1>2, <1>3

LEMMA ChangedKeeps ==
  ASSUME NEW o, Fit(o), NEW r, NEW k \in Header \ {"Set-Cookie", "Content-Length"}, NEW v, Changed(o, r, k, v),
         k = "Content-Encoding" => v \in Foreign
  PROVE  Keeps(o, r)
<1>1. Bare(o) => Bare(r)
  BY ChangedModes DEF Fit, Changed
<1>2. Fit(r)
  BY ChangedModes DEF Fit, Changed
<1>3. ASSUME NEW S, NEW w, Sized(o, S, w) PROVE Sized(r, S, w)
  <2>1. /\ r.net.sent = o.net.sent /\ r.net.body = o.net.body
        /\ (r.writer = None) = (o.writer = None)
    BY DEF Changed, Buffers
  <2>2. /\ r.net.header["Content-Length"] = o.net.header["Content-Length"]
        /\ o.writer # None => r.writer.headerMap["Content-Length"] = o.writer.headerMap["Content-Length"]
    <3>1. At(r, "Content-Length") = At(o, "Content-Length")
      BY ChangedAt, HeaderNames DEF Fit
    <3>2. /\ Buffers(r) = Buffers(o)
          /\ Buffers(o) => r.net.header = o.net.header
          /\ ~Buffers(o) => r.writer = o.writer
      BY DEF Changed, Buffers, SameWriter
    <3> QED
      BY <2>1, <3>1, <3>2 DEF At
  <2> QED
    BY <1>3, <2>1, <2>2 DEF Sized
<1> QED
  BY <1>1, <1>2, <1>3 DEF Keeps

LEMMA LengthSized ==
  ASSUME NEW o, Fit(o), NEW n \in Nat, Sized(o, {<< >>}, 0),
         NEW r, r = HeaderSet(o, "Content-Length", n)
  PROVE  Fit(r) /\ Sized(r, {<< >>, <<n>>}, 0) /\ (Bare(o) => Bare(r))
<1>1. Changed(o, r, "Content-Length", <<n>>)
  BY HeaderSetFacts, HeaderNames DEF Fit, Atom
<1>2. Fit(r) /\ (Bare(o) => Bare(r))
  <2>1. "Content-Length" \in Header \ {"Set-Cookie"} /\ "Content-Length" # "Content-Encoding"
    BY HeaderNames
  <2>2. r \in Out /\ o \in Out
    BY <1>1 DEF Fit, Changed
  <2>3. (Bare(o) => Bare(r)) /\ (Waiting(o) => Waiting(r)) /\ (Flowing(o) => Flowing(r))
    BY ONLY <1>1, <2>1, <2>2, ChangedModes
  <2> QED
    BY <2>2, <2>3 DEF Fit
<1>3. /\ r.net.sent = o.net.sent /\ r.net.body = o.net.body
      /\ (r.writer = None) = (o.writer = None)
  BY <1>1 DEF Changed, Buffers
<1>4. /\ r.net.header["Content-Length"] \in {o.net.header["Content-Length"], <<n>>}
      /\ o.writer # None => r.writer.headerMap["Content-Length"] \in {o.writer.headerMap["Content-Length"], <<n>>}
  <2>1. \A x \in Header : At(r, x) = IF x = "Content-Length" THEN <<n>> ELSE At(o, x)
    BY <1>1, ChangedAt, HeaderNames DEF Fit
  <2>2. /\ Buffers(r) = Buffers(o)
        /\ Buffers(o) => r.net.header = o.net.header
        /\ ~Buffers(o) => r.writer = o.writer
    BY <1>1 DEF Changed, Buffers, SameWriter
  <2> QED
    BY <1>3, <2>1, <2>2, HeaderNames DEF At
<1>5. Sized(r, {<< >>, <<n>>}, 0)
  BY <1>3, <1>4 DEF Sized
<1> QED
  BY <1>2, <1>5

LEMMA CookieKeeps ==
  ASSUME NEW o, Fit(o), NEW c \in Nat, NEW r, r = SetCookie(o, c)
  PROVE  Keeps(o, r)
<1>1. /\ r \in Out /\ r.status = o.status /\ r.contentType = o.contentType
      /\ r.net.sent = o.net.sent /\ r.net.body = o.net.body
      /\ \A k \in Header \ {"Set-Cookie"} : r.net.header[k] = o.net.header[k]
      /\ IF Buffers(o)
         THEN /\ r.net.header = o.net.header
              /\ r.writer # None /\ r.writer.cookieList = Append(o.writer.cookieList, c)
              /\ r.writer.compressionType = o.writer.compressionType
              /\ r.writer.headersWritten = o.writer.headersWritten
              /\ r.writer.closed = o.writer.closed /\ r.writer.released = o.writer.released
              /\ r.writer.headerMap = o.writer.headerMap /\ r.writer.status = o.writer.status
         ELSE /\ r.net.header["Set-Cookie"] = Append(o.net.header["Set-Cookie"], c)
              /\ r.writer = o.writer
  <2>1. o \in Out
    BY DEF Fit
  <2> QED
    BY <2>1, SetCookieFacts
<1>2. /\ r.net.header["Content-Encoding"] = o.net.header["Content-Encoding"]
      /\ r.net.header["Content-Length"] = o.net.header["Content-Length"]
  BY <1>1, HeaderNames
<1>3. Bare(o) => Bare(r)
  BY <1>1, <1>2 DEF Bare, Buffers
<1>4. Waiting(o) => Waiting(r)
  BY <1>1, <1>2 DEF Waiting, Buffers
<1>5. Flowing(o) => Flowing(r)
  BY <1>1, <1>2 DEF Flowing, Buffers
<1>6. ASSUME NEW S, NEW w, Sized(o, S, w) PROVE Sized(r, S, w)
  BY <1>1, <1>2, <1>6 DEF Sized, Buffers
<1> QED
  BY <1>1, <1>3, <1>4, <1>5, <1>6 DEF Keeps, Fit

(* A field of Response itself.                                                *)
Same(o, r) == r \in Out /\ r.net = o.net /\ r.writer = o.writer

LEMMA FieldFacts ==
  ASSUME NEW o \in Out, NEW s \in Nat, NEW t \in Text
  PROVE  /\ LET r == [o EXCEPT !.status = s]
            IN Same(o, r) /\ r.status = s /\ r.contentType = o.contentType
         /\ LET r == [o EXCEPT !.contentType = t]
            IN Same(o, r) /\ r.status = o.status /\ r.contentType = t
  BY DEF Out, Same

LEMMA SameModes ==
  ASSUME NEW o, NEW r, Same(o, r)
  PROVE  (Bare(o) => Bare(r)) /\ (Waiting(o) => Waiting(r)) /\ (Flowing(o) => Flowing(r))
  BY DEF Same, Bare, Waiting, Flowing

LEMMA SameKeeps ==
  ASSUME NEW o, Fit(o), NEW r, Same(o, r)
  PROVE  Keeps(o, r)
<1>1. \A S, w : Sized(o, S, w) => Sized(r, S, w)
  BY DEF Same, Sized
<1> QED
  BY <1>1, SameModes DEF Keeps, Fit, Same

LEMMA NetModes ==
  ASSUME NEW o, Fit(o), ~Buffers(o), NEW s \in Nat, NEW r, r \in Out,
         r.writer = o.writer, r.net = NetWriteHeader(o.net, s)
  PROVE  Keeps(o, r) /\ ~Waiting(o)
<1>1. o.net \in Net /\ ~Waiting(o)
  BY OutFacts, ModeFacts DEF Fit
<1>2. /\ r.net.header = o.net.header /\ r.net.body = o.net.body /\ r.net.sent # None
      /\ o.net.sent # None => r.net = o.net
      /\ o.net.sent = None => r.net.sent = [status |-> s, header |-> o.net.header]
  BY <1>1, NetWriteHeaderFacts
<1>3. Bare(o) => Bare(r)
  BY <1>2 DEF Bare
<1>4. Flowing(o) => Flowing(r)
  BY <1>2 DEF Flowing
<1>5. ASSUME NEW S, NEW w, Sized(o, S, w) PROVE Sized(r, S, w)
  <2>1. CASE o.net.sent # None
    BY <1>2, <1>5, <2>1 DEF Sized
  <2>2. CASE o.net.sent = None
    <3>1. o.net.body = << >> /\ Len(r.net.body) = 0
      BY <1>1, <1>2, <2>2 DEF Fit, Bare, Flowing
    <3>2. r.net.sent.header["Content-Length"] = o.net.header["Content-Length"]
      BY <1>2, <2>2
    <3> QED
      BY <1>2, <1>5, <2>2, <3>1, <3>2 DEF Sized
  <2> QED
    BY <2>1, <2>2
<1> QED
  BY <1>1, <1>3, <1>4, <1>5 DEF Fit, Keeps

LEMMA StatusKeeps ==
  ASSUME NEW o, Fit(o), NEW s \in Nat, NEW r, r = SetStatus(o, s)
  PROVE  Keeps(o, r)
<1>1. o \in Out
  BY DEF Fit
<1>2. /\ r \in Out /\ r.status = o.status /\ r.contentType = o.contentType
      /\ r.net.header = o.net.header /\ r.net.body = o.net.body
      /\ IF Buffers(o)
         THEN /\ r.net = o.net /\ r.writer # None /\ r.writer.status = s
              /\ r.writer.compressionType = o.writer.compressionType
              /\ r.writer.headersWritten = o.writer.headersWritten
              /\ r.writer.closed = o.writer.closed /\ r.writer.released = o.writer.released
              /\ r.writer.headerMap = o.writer.headerMap /\ r.writer.cookieList = o.writer.cookieList
         ELSE r.net = NetWriteHeader(o.net, s) /\ r.writer = o.writer
  BY <1>1, SetStatusFacts
<1>3. CASE Buffers(o)
  <2>1. Waiting(o) /\ ~Bare(o)
    BY <1>3, ModeFacts DEF Fit
  <2>2. Waiting(r)
    BY <1>2, <1>3, <2>1 DEF Waiting
  <2>3. ASSUME NEW S, NEW w, Sized(o, S, w) PROVE Sized(r, S, w)
    BY <1>2, <1>3, <2>3 DEF Sized, Buffers
  <2> QED
    BY <1>2, <2>1, <2>2, <2>3 DEF Keeps, Fit
<1>4. CASE ~Buffers(o)
  BY <1>2, <1>4, NetModes
<1> QED
  BY <1>3, <1>4

(* A chunk is written.                                                        *)
LEMMA AppendAt ==
  ASSUME NEW s \in Seq(Piece), NEW e
  PROVE  \A i \in DOMAIN Append(s, e) : Append(s, e)[i] = e \/ (i \in DOMAIN s /\ Append(s, e)[i] = s[i])
  OBVIOUS

LEMMA WriteBareFacts ==
  ASSUME NEW o \in Out, o.writer = None, NEW chunk \in Chunk, NEW r, r = Write(o, chunk)
  PROVE  /\ r \in Out /\ r.writer = None /\ r.status = o.status /\ r.contentType = o.contentType
         /\ r.net = NetWrite(o.net, chunk, None)
<1> DEFINE n == NetWrite(o.net, chunk, None)
<1>1. n \in Net
  BY OutFacts, NetWriteFacts
<1>2. r = [o EXCEPT !.net = n]
  BY DEF Write
<1> HIDE DEF n
<1>3. /\ r \in Out /\ r.net = n /\ r.writer = o.writer
      /\ r.status = o.status /\ r.contentType = o.contentType
  BY <1>1, <1>2, NetFacts
<1> QED
  BY <1>3 DEF n

LEMMA WriteOnFacts ==
  ASSUME NEW o \in Out, o.writer # None, ~o.writer.closed, NEW chunk \in Chunk,
         NEW p \in Out, p = Prepared(o), p.writer # None, NEW r, r = Write(o, chunk)
  PROVE  /\ r \in Out /\ r.status = p.status /\ r.contentType = p.contentType
         /\ r.writer # None /\ r.writer.headersWritten
         /\ r.writer.compressionType = p.writer.compressionType
         /\ r.writer.closed = p.writer.closed /\ r.writer.released = p.writer.released
         /\ r.net = NetWrite(p.net, chunk, p.writer.compressionType)
<1> DEFINE w == [p.writer EXCEPT !.headersWritten = TRUE]
           q == [p EXCEPT !.writer = w]
           n == NetWrite(p.net, chunk, p.writer.compressionType)
<1>1. p.writer \in Writer /\ p.writer.compressionType \in {None} \cup Type /\ p.net \in Net
  BY OutFacts
<1>2. n \in Net
  BY <1>1, NetWriteFacts
<1>3. /\ w \in Writer /\ w.headersWritten /\ w.compressionType = p.writer.compressionType
      /\ w.closed = p.writer.closed /\ w.released = p.writer.released
  BY <1>1 DEF Writer
<1>4. p = IF o.writer.headersWritten THEN o ELSE prepareHeaders(o)
  BY DEF Prepared
<1>5. r = [q EXCEPT !.net = NetWrite(q.net, chunk, q.writer.compressionType)]
  BY DEF Write
<1> HIDE DEF w
<1>6. /\ q \in Out /\ q.net = p.net /\ q.writer = w /\ w # None
      /\ q.status = p.status /\ q.contentType = p.contentType
  BY <1>3, WriterFacts
<1>7. r = [q EXCEPT !.net = n]
  BY <1>3, <1>5, <1>6
<1> HIDE DEF q, n
<1>8. /\ r \in Out /\ r.net = n /\ r.writer = q.writer
      /\ r.status = q.status /\ r.contentType = q.contentType
  BY <1>2, <1>6, <1>7, NetFacts
<1> QED
  BY <1>3, <1>6, <1>8 DEF n

LEMMA WriteFlowingFacts ==
  ASSUME NEW o \in Out, Flowing(o), NEW chunk \in Chunk, NEW r, r = Write(o, chunk)
  PROVE  /\ r \in Out /\ r.status = o.status /\ r.contentType = o.contentType
         /\ Flowing(r) /\ r.net.sent = o.net.sent
         /\ r.net.body = IF BodyAllowed(o.net.sent.status)
                         THEN Append(o.net.body, [chunk |-> chunk, by |-> o.writer.compressionType])
                         ELSE o.net.body
<1>1. o = Prepared(o) /\ o.writer # None /\ ~o.writer.closed
  BY DEF Flowing, Prepared
<1>2. /\ r \in Out /\ r.status = o.status /\ r.contentType = o.contentType
      /\ r.writer # None /\ r.writer.headersWritten
      /\ r.writer.compressionType = o.writer.compressionType
      /\ r.writer.closed = o.writer.closed /\ r.writer.released = o.writer.released
      /\ r.net = NetWrite(o.net, chunk, o.writer.compressionType)
  BY <1>1, WriteOnFacts
<1>3. o.net \in Net /\ o.net.body \in Seq(Piece) /\ o.writer.compressionType \in {None} \cup Type /\ o.net.sent # None
  BY <1>1, OutFacts DEF Flowing
<1> DEFINE by == o.writer.compressionType
           piece == [chunk |-> chunk, by |-> by]
<1>4. /\ r.net \in Net /\ r.net.header = o.net.header /\ r.net.sent = o.net.sent
      /\ BodyAllowed(r.net.sent.status) => r.net.body = Append(o.net.body, piece)
      /\ ~BodyAllowed(r.net.sent.status) => r.net.body = o.net.body
  <2>1. chunk \in Chunk \cup {None}
    OBVIOUS
  <2>2. PICK m, c : m = o.net /\ c = by
    OBVIOUS
  <2>3. m \in Net /\ c \in {None} \cup Type /\ r.net = NetWrite(m, chunk, c) /\ m.sent # None
    BY <1>2, <1>3, <2>2
  <2>4. PICK x : x = NetWrite(m, chunk, c)
    OBVIOUS
  <2>5. /\ x \in Net /\ x.header = m.header /\ x.sent = m.sent
        /\ BodyAllowed(x.sent.status) => x.body = Append(m.body, [chunk |-> chunk, by |-> c])
        /\ ~BodyAllowed(x.sent.status) => x.body = m.body
    BY ONLY <2>1, <2>3, <2>4, NetWriteOn
  <2> QED
    BY <2>2, <2>3, <2>4, <2>5
<1>5. piece.chunk # None /\ piece.by = by
  BY BodyAssumption
<1>6. \A i \in DOMAIN o.net.body : o.net.body[i].chunk # None /\ o.net.body[i].by = by
  BY DEF Flowing
<1> HIDE DEF piece, by
<1>7. \A i \in DOMAIN r.net.body : r.net.body[i].chunk # None /\ r.net.body[i].by = by
  <2>1. CASE BodyAllowed(r.net.sent.status)
    <3>1. r.net.body = Append(o.net.body, piece)
      BY <1>4, <2>1
    <3>2. \A i \in DOMAIN r.net.body :
            r.net.body[i] = piece \/ (i \in DOMAIN o.net.body /\ r.net.body[i] = o.net.body[i])
      BY <1>3, <3>1, AppendAt
    <3> QED
      BY <1>5, <1>6, <3>2
  <2>2. CASE ~BodyAllowed(r.net.sent.status)
    BY <1>4, <1>6, <2>2
  <2> QED
    BY <2>1, <2>2
<1>8. Flowing(r)
  BY <1>2, <1>4, <1>7 DEF Flowing, by
<1> QED
  BY <1>2, <1>4, <1>8 DEF piece, by

(* The first write of a response that waits releases the buffer.              *)
Opened(o, r) ==
  /\ r \in Out /\ r.status = o.status /\ r.contentType = o.contentType
  /\ r.net.sent.status = IF o.writer.status > 0 THEN o.writer.status ELSE 200
  /\ \A k \in Header \ {"Content-Encoding", "Content-Length", "Set-Cookie"} :
       r.net.sent.header[k] = Eff(o, k)
  /\ r.net.sent.header["Set-Cookie"] = o.net.header["Set-Cookie"] \o o.writer.cookieList
  /\ r.net.sent.header["Content-Encoding"] =
       IF Compressable(o) THEN <<o.writer.compressionType>> ELSE Eff(o, "Content-Encoding")
  /\ r.net.sent.header["Content-Length"] = IF Compressable(o) THEN << >> ELSE Eff(o, "Content-Length")

OneChunk(r, chunk) ==
  /\ BodyAllowed(r.net.sent.status) => Len(r.net.body) = 1 /\ r.net.body[1].chunk = chunk
  /\ ~BodyAllowed(r.net.sent.status) => r.net.body = << >>

LEMMA WriteWaitingFacts ==
  ASSUME NEW o \in Out, Waiting(o), NEW chunk \in Chunk, NEW r, r = Write(o, chunk)
  PROVE  Opened(o, r) /\ Flowing(r) /\ OneChunk(r, chunk)
<1>1. PICK p : p = prepareHeaders(o)
  OBVIOUS
<1>2. /\ p \in Out /\ p.status = o.status /\ p.contentType = o.contentType
      /\ p.writer # None /\ p.writer.released /\ ~p.writer.headersWritten /\ ~p.writer.closed
      /\ p.writer.compressionType = IF Compressable(o) THEN o.writer.compressionType ELSE None
      /\ \A k \in Header \ {"Content-Encoding", "Content-Length", "Set-Cookie"} :
           p.net.header[k] = Eff(o, k)
      /\ p.net.header["Set-Cookie"] = o.net.header["Set-Cookie"] \o o.writer.cookieList
      /\ p.net.header["Content-Encoding"] =
           IF Compressable(o) THEN <<o.writer.compressionType>> ELSE Eff(o, "Content-Encoding")
      /\ p.net.header["Content-Length"] = IF Compressable(o) THEN << >> ELSE Eff(o, "Content-Length")
      /\ p.net.body = << >>
      /\ p.net.sent = IF o.writer.status > 0
                      THEN [status |-> o.writer.status, header |-> p.net.header] ELSE None
  BY <1>1, PrepareFacts
<1>3. p = Prepared(o) /\ o.writer # None /\ ~o.writer.closed /\ o.writer.status \in Nat
      /\ o.writer.compressionType \in Type
  BY <1>1, OutFacts DEF Waiting, Prepared
<1>4. /\ r \in Out /\ r.status = p.status /\ r.contentType = p.contentType
      /\ r.writer # None /\ r.writer.headersWritten
      /\ r.writer.compressionType = p.writer.compressionType
      /\ r.writer.closed = p.writer.closed /\ r.writer.released = p.writer.released
      /\ r.net = NetWrite(p.net, chunk, p.writer.compressionType)
  <2>1. p \in Out /\ p.writer # None
    BY <1>2
  <2>2. /\ o \in Out /\ o.writer # None /\ ~o.writer.closed
        /\ p \in Out /\ p = Prepared(o) /\ p.writer # None
    BY <1>3, <2>1
  <2> HIDE <1>1, <1>2, <1>3
  <2> QED
    BY <2>2, WriteOnFacts
<1>5. PICK m, by : m = p.net /\ by = p.writer.compressionType
  OBVIOUS
<1>6. /\ r.net.sent # None
      /\ m.sent # None => r.net.sent = m.sent
      /\ m.sent = None => r.net.sent = [status |-> 200, header |-> m.header]
      /\ BodyAllowed(r.net.sent.status) => r.net.body = Append(m.body, [chunk |-> chunk, by |-> by])
      /\ ~BodyAllowed(r.net.sent.status) => r.net.body = m.body
  <2>1. m \in Net /\ by \in {None} \cup Type /\ chunk \in Chunk \cup {None}
    BY <1>2, <1>5, OutFacts
  <2>2. LET x == NetWrite(m, chunk, by)
        IN  /\ x.sent # None
            /\ m.sent # None => x.sent = m.sent
            /\ m.sent = None => x.sent = [status |-> 200, header |-> m.header]
            /\ BodyAllowed(x.sent.status) => x.body = Append(m.body, [chunk |-> chunk, by |-> by])
            /\ ~BodyAllowed(x.sent.status) => x.body = m.body
    BY <2>1, NetWriteFacts
  <2> QED
    BY <1>4, <1>5, <2>2
<1>7. /\ r.net.sent.status = IF o.writer.status > 0 THEN o.writer.status ELSE 200
      /\ r.net.sent.header = p.net.header
  <2>1. CASE o.writer.status > 0
    <3>1. p.net.sent = [status |-> o.writer.status, header |-> p.net.header]
      BY <1>2, <2>1
    <3>2. p.net.sent # None
      <4>1. p.net.sent \in Started
        BY <1>2, <1>3, <3>1, OutFacts DEF Started
      <4> QED
        BY <4>1, NoneFacts
    <3> QED
      BY <1>5, <1>6, <2>1, <3>1, <3>2
  <2>2. CASE ~(o.writer.status > 0)
    BY <1>2, <1>5, <1>6, <2>2
  <2> QED
    BY <2>1, <2>2
<1> DEFINE piece == [chunk |-> chunk, by |-> by]
<1>8. piece.chunk # None /\ piece.by = by /\ piece.chunk = chunk
  BY BodyAssumption
<1> HIDE DEF piece
<1>9. r.net.body = IF BodyAllowed(r.net.sent.status) THEN <<piece>> ELSE << >>
  BY <1>2, <1>5, <1>6 DEF piece
<1>10. \A i \in DOMAIN r.net.body : r.net.body[i].chunk # None /\ r.net.body[i].by = by
  BY <1>8, <1>9
<1>11. Flowing(r)
  <2>1. IF r.writer.compressionType = None THEN r.net.sent.header["Content-Encoding"] \in Foreign
        ELSE /\ r.net.sent.header["Content-Encoding"] = <<r.writer.compressionType>>
             /\ r.net.sent.header["Content-Length"] = << >>
    <3>1. Eff(o, "Content-Encoding") \in Foreign
      BY EffForeign
    <3>2. CASE Compressable(o)
      <4>1. r.writer.compressionType = o.writer.compressionType /\ r.writer.compressionType # None
        BY <1>2, <1>3, <1>4, <3>2, NoneFacts
      <4> QED
        BY <1>2, <1>7, <3>2, <4>1
    <3>3. CASE ~Compressable(o)
      BY <1>2, <1>4, <1>7, <3>1, <3>3
    <3> QED
      BY <3>2, <3>3
  <2> QED
    BY <1>2, <1>4, <1>5, <1>6, <1>10, <2>1 DEF Flowing
<1> QED
  <2>1. OneChunk(r, chunk)
    BY <1>8, <1>9 DEF OneChunk
  <2> DEFINE sent == r.net.sent
  <2>2. sent.status = (IF o.writer.status > 0 THEN o.writer.status ELSE 200) /\ sent.header = p.net.header
    BY <1>7
  <2> HIDE DEF sent
  <2>3. /\ \A k \in Header \ {"Content-Encoding", "Content-Length", "Set-Cookie"} : sent.header[k] = Eff(o, k)
        /\ sent.header["Set-Cookie"] = o.net.header["Set-Cookie"] \o o.writer.cookieList
        /\ sent.header["Content-Encoding"] =
             IF Compressable(o) THEN <<o.writer.compressionType>> ELSE Eff(o, "Content-Encoding")
        /\ sent.header["Content-Length"] = IF Compressable(o) THEN << >> ELSE Eff(o, "Content-Length")
    BY <1>2, <2>2
  <2>4. r \in Out /\ r.status = o.status /\ r.contentType = o.contentType
    BY <1>2, <1>4
  <2>5. Opened(o, r)
    BY <2>2, <2>3, <2>4 DEF Opened, sent
  <2> QED
    BY <1>11, <2>1, <2>5

(* The Content-Length is the number of chunks, or missing.                    *)
Sizes == {{<< >>}} \cup {{<< >>, <<n>>} : n \in Nat}

Writes(o, r) ==
  /\ Fit(r) /\ ~Waiting(r) /\ (Bare(o) => Bare(r))
  /\ r.status = o.status /\ r.contentType = o.contentType
  /\ \A S \in Sizes, w \in Nat : Sized(o, S, w) => Sized(r, S, w + 1)

LEMMA WriteWrites ==
  ASSUME NEW o, Fit(o), NEW chunk \in Chunk, NEW r, r = Write(o, chunk)
  PROVE  Writes(o, r)
<1>1. o \in Out /\ o.net \in Net /\ o.net.body \in Seq(Piece) /\ chunk \in Chunk \cup {None}
  BY OutFacts DEF Fit
<1>2. CASE Bare(o)
  <2>1. o.writer = None
    BY <1>2 DEF Bare
  <2>2. /\ r \in Out /\ r.writer = None /\ r.status = o.status /\ r.contentType = o.contentType
        /\ r.net = NetWrite(o.net, chunk, None)
    BY <1>1, <2>1, WriteBareFacts
  <2>3. PICK m, by : m = o.net /\ by = None
    OBVIOUS
  <2>4. LET x == NetWrite(m, chunk, by)
        IN  /\ x.sent # None /\ x.header = m.header
            /\ m.sent # None => x.sent = m.sent
            /\ m.sent = None => x.sent = [status |-> 200, header |-> m.header]
            /\ BodyAllowed(x.sent.status) => x.body = Append(m.body, [chunk |-> chunk, by |-> by])
            /\ ~BodyAllowed(x.sent.status) => x.body = m.body
    <3>1. m \in Net /\ by \in {None} \cup Type
      BY <1>1, <2>3
    <3> QED
      BY <1>1, <3>1, NetWriteFacts
  <2> DEFINE piece == [chunk |-> chunk, by |-> None]
  <2>5. piece.chunk # None /\ piece.by = None
    BY BodyAssumption
  <2>6. /\ r.net.sent # None /\ r.net.header = o.net.header
        /\ o.net.sent # None => r.net.sent = o.net.sent
        /\ o.net.sent = None => r.net.sent.header = o.net.header
        /\ BodyAllowed(r.net.sent.status) => r.net.body = Append(o.net.body, piece)
        /\ ~BodyAllowed(r.net.sent.status) => r.net.body = o.net.body
    BY <2>2, <2>3, <2>4
  <2> HIDE DEF piece
  <2>7. \A i \in DOMAIN r.net.body : r.net.body[i].chunk # None /\ r.net.body[i].by = None
    <3>1. \A i \in DOMAIN o.net.body : o.net.body[i].chunk # None /\ o.net.body[i].by = None
      BY <1>2 DEF Bare
    <3>2. CASE BodyAllowed(r.net.sent.status)
      <4>1. \A i \in DOMAIN r.net.body :
              r.net.body[i] = piece \/ (i \in DOMAIN o.net.body /\ r.net.body[i] = o.net.body[i])
        <5>1. r.net.body = Append(o.net.body, piece)
          BY <2>6, <3>2
        <5>2. \A i \in DOMAIN Append(o.net.body, piece) :
                \/ Append(o.net.body, piece)[i] = piece
                \/ i \in DOMAIN o.net.body /\ Append(o.net.body, piece)[i] = o.net.body[i]
          BY <1>1, AppendAt
        <5> QED
          BY <5>1, <5>2
      <4> QED
        BY <2>5, <3>1, <4>1
    <3>3. CASE ~BodyAllowed(r.net.sent.status)
      BY <2>6, <3>1, <3>3
    <3> QED
      BY <3>2, <3>3
  <2>8. Bare(r)
    BY <1>2, <2>2, <2>6, <2>7 DEF Bare
  <2>9. ASSUME NEW S \in Sizes, NEW w \in Nat, Sized(o, S, w) PROVE Sized(r, S, w + 1)
    <3>1. BodyAllowed(r.net.sent.status) => Len(r.net.body) = Len(o.net.body) + 1
      BY <1>1, <2>6
    <3>2. CASE o.net.sent # None
      BY <2>6, <2>9, <3>1, <3>2 DEF Sized
    <3>3. CASE o.net.sent = None
      <4>1. /\ r.net.sent.header["Content-Length"] \in S
            /\ S # {<< >>} => w = 0
            /\ Len(o.net.body) = 0
        BY <1>2, <2>6, <2>9, <3>3 DEF Sized, Bare
      <4> QED
        BY <2>6, <3>1, <4>1 DEF Sized
    <3> QED
      BY <3>2, <3>3
  <2> QED
    BY <1>2, <2>2, <2>8, <2>9, ModeFacts DEF Writes, Fit
<1>3. CASE Waiting(o)
  <2>1. /\ r \in Out /\ r.status = o.status /\ r.contentType = o.contentType
        /\ Flowing(r)
        /\ r.net.sent.header["Content-Length"] = IF Compressable(o) THEN << >> ELSE Eff(o, "Content-Length")
        /\ BodyAllowed(r.net.sent.status) => Len(r.net.body) = 1
    <3>1. Opened(o, r) /\ Flowing(r) /\ OneChunk(r, chunk)
      BY <1>1, <1>3, WriteWaitingFacts
    <3> QED
      BY <3>1 DEF Opened, OneChunk
  <2>3. ASSUME NEW S \in Sizes, NEW w \in Nat, Sized(o, S, w) PROVE Sized(r, S, w + 1)
    <3>1. << >> \in S /\ \A v \in S : v = << >> \/ \E n \in Nat : v = <<n>>
      BY DEF Sizes
    <3>2. o.writer # None /\ o.net.sent = None /\ o.net.header["Content-Length"] = << >>
      BY <1>3 DEF Waiting
    <3>3. o.writer.headerMap["Content-Length"] \in S /\ (S # {<< >>} => w = 0)
      BY <2>3, <3>2 DEF Sized
    <3>4. Eff(o, "Content-Length") \in S
      <4>1. CASE o.writer.headerMap["Content-Length"] = << >>
        BY <3>1, <3>2, <4>1 DEF Eff
      <4>2. CASE o.writer.headerMap["Content-Length"] # << >>
        <5>1. PICK n \in Nat : o.writer.headerMap["Content-Length"] = <<n>>
          BY <3>1, <3>3, <4>2
        <5>2. Last(<<n>>) = n
          BY DEF Last
        <5> QED
          BY <3>3, <4>2, <5>1, <5>2 DEF Eff
      <4> QED
        BY <4>1, <4>2
    <3>5. r.net.sent.header["Content-Length"] \in S
      BY <2>1, <3>1, <3>4
    <3>6. r.net.sent # None
      BY <2>1 DEF Flowing
    <3>7. r.net.sent.header["Content-Length"] # << >> => w = 0
      BY <3>3, <3>5
    <3> QED
      <4>1. r.net.sent.header["Content-Length"] # << >> /\ BodyAllowed(r.net.sent.status)
              => Len(r.net.body) = w + 1
        <5> SUFFICES ASSUME r.net.sent.header["Content-Length"] # << >>, BodyAllowed(r.net.sent.status)
                     PROVE  Len(r.net.body) = w + 1
          OBVIOUS
        <5>1. w = 0 /\ Len(r.net.body) = 1
          BY <2>1, <3>7
        <5> QED
          BY <5>1
      <4> QED
        BY <3>5, <3>6, <4>1 DEF Sized
  <2> QED
    BY <1>3, <2>1, <2>3, ModeFacts DEF Writes, Fit
<1>4. CASE Flowing(o)
  <2>1. /\ r \in Out /\ r.status = o.status /\ r.contentType = o.contentType
        /\ Flowing(r) /\ r.net.sent = o.net.sent
        /\ r.net.body = IF BodyAllowed(o.net.sent.status)
                        THEN Append(o.net.body, [chunk |-> chunk, by |-> o.writer.compressionType])
                        ELSE o.net.body
    BY <1>1, <1>4, WriteFlowingFacts
  <2>2. o.net.sent # None
    BY <1>4 DEF Flowing
  <2>3. BodyAllowed(r.net.sent.status) => Len(r.net.body) = Len(o.net.body) + 1
    BY <1>1, <2>1
  <2>4. ASSUME NEW S \in Sizes, NEW w \in Nat, Sized(o, S, w) PROVE Sized(r, S, w + 1)
    BY <2>1, <2>2, <2>3, <2>4 DEF Sized
  <2> QED
    BY <1>4, <2>1, <2>4, ModeFacts DEF Writes, Fit
<1> QED
  BY <1>2, <1>3, <1>4 DEF Fit

(* Several chunks, one by one.                                                *)
WrittenBy(o, chunks, a) ==
  /\ a[0] = o
  /\ \A n \in 1 .. Len(chunks) : a[n] = Write(a[n - 1], chunks[n])
  /\ WriteAll(o, chunks) = a[Len(chunks)]

LEMMA WriteAllFacts ==
  ASSUME NEW o, NEW chunks, Len(chunks) \in Nat
  PROVE  \E a : WrittenBy(o, chunks, a)
<1> DEFINE L == Len(chunks)
           Is(f, m) == f = [n \in 0 .. m |-> IF n = 0 THEN o ELSE Write(f[n - 1], chunks[n])]
           S == {m \in 0 .. L : ~ \E f : Is(f, m)}
<1>1. S = {}
  <2> SUFFICES ASSUME S # {} PROVE FALSE
    OBVIOUS
  <2>1. S \in SUBSET Nat
    OBVIOUS
  <2>2. PICK x \in S : \A y \in S : x <= y
    <3> HIDE DEF S
    <3> QED
      BY <2>1, Least
  <2>3. x \in 0 .. L /\ ~ \E f : Is(f, x)
    BY <2>2
  <2>4. CASE x = 0
    <3>1. Is([n \in 0 .. 0 |-> o], 0)
      OBVIOUS
    <3> QED
      BY <2>3, <2>4, <3>1
  <2>5. CASE x # 0
    <3>1. x - 1 \in 0 .. L /\ x - 1 \notin S
      <4>1. x - 1 \in 0 .. L /\ ~(x <= x - 1)
        BY <2>3, <2>5
      <4> QED
        BY <2>2, <4>1
    <3>2. PICK f : Is(f, x - 1)
      BY <3>1
    <3> DEFINE g == [n \in 0 .. x |-> IF n = x THEN Write(f[x - 1], chunks[x]) ELSE f[n]]
    <3>3. ASSUME NEW n \in 0 .. x
          PROVE  g[n] = IF n = 0 THEN o ELSE Write(g[n - 1], chunks[n])
      <4>1. CASE n = x
        <5>1. n - 1 \in 0 .. x /\ n - 1 # x /\ n # 0
          BY <2>3, <2>5, <4>1
        <5>2. g[n - 1] = f[x - 1]
          BY <4>1, <5>1
        <5> QED
          BY <4>1, <5>1, <5>2
      <4>2. CASE n # x /\ n = 0
        <5>1. 0 \in 0 .. x - 1
          BY <2>3, <2>5
        <5> QED
          BY <3>2, <4>2, <5>1
      <4>3. CASE n # x /\ n # 0
        <5>1. n \in 0 .. x - 1 /\ n - 1 \in 0 .. x /\ n - 1 # x
          BY <2>3, <2>5, <4>3
        <5>2. g[n] = f[n] /\ g[n - 1] = f[n - 1]
          BY <4>3, <5>1
        <5>3. f[n] = Write(f[n - 1], chunks[n])
          BY <3>2, <4>3, <5>1
        <5> QED
          BY <4>3, <5>2, <5>3
      <4> QED
        BY <4>1, <4>2, <4>3
    <3>4. DOMAIN g = 0 .. x
      OBVIOUS
    <3> HIDE DEF g
    <3>5. g = [n \in 0 .. x |-> g[n]]
      BY <3>4 DEF g
    <3>6. Is(g, x)
      BY <3>3, <3>5
    <3> QED
      BY <2>3, <3>6
  <2> QED
    BY <2>4, <2>5
<1>2. \E f : Is(f, L)
  BY <1>1
<1> DEFINE a == CHOOSE f : Is(f, L)
<1>3. WriteAll(o, chunks) = a[L]
  BY DEF WriteAll
<1>4. Is(a, L)
  <2> HIDE DEF Is
  <2> QED
    BY <1>2
<1> HIDE DEF L
<1>5. L \in Nat
  BY DEF L
<1>6. a = [n \in 0 .. L |-> IF n = 0 THEN o ELSE Write(a[n - 1], chunks[n])]
  BY <1>4
<1> HIDE DEF a
<1>7. a[0] = o
  <2>1. 0 \in 0 .. L
    BY <1>5
  <2> QED
    BY <1>6, <2>1
<1>8. ASSUME NEW n \in 1 .. L PROVE a[n] = Write(a[n - 1], chunks[n])
  <2>1. n \in 0 .. L /\ n # 0
    BY <1>5
  <2> QED
    BY <1>6, <2>1
<1>9. WrittenBy(o, chunks, a)
  BY <1>3, <1>7, <1>8 DEF WrittenBy, L
<1> QED
  BY <1>9

AllWritten(o, r, n) ==
  /\ Fit(r) /\ (Bare(o) => Bare(r))
  /\ r.status = o.status /\ r.contentType = o.contentType
  /\ \A S \in Sizes : Sized(o, S, 0) => Sized(r, S, n)

LEMMA WriteAllWrites ==
  ASSUME NEW o, Fit(o), NEW chunks \in Seq(Chunk), NEW r, r = WriteAll(o, chunks)
  PROVE  AllWritten(o, r, Len(chunks))
<1> DEFINE L == Len(chunks)
<1>1. L \in Nat /\ \A n \in 1 .. L : chunks[n] \in Chunk
  OBVIOUS
<1>2. PICK a : WrittenBy(o, chunks, a)
  BY <1>1, WriteAllFacts
<1>3. /\ a[0] = o /\ r = a[L]
      /\ \A n \in 1 .. L : a[n] = Write(a[n - 1], chunks[n])
  BY <1>2 DEF WrittenBy
<1> HIDE DEF L
<1> DEFINE S == {n \in 0 .. L : ~AllWritten(o, a[n], n)}
<1>4. S = {}
  <2> SUFFICES ASSUME S # {} PROVE FALSE
    OBVIOUS
  <2>1. PICK x \in S : \A y \in S : x <= y
    <3>1. S \in SUBSET Nat
      OBVIOUS
    <3> HIDE DEF S
    <3> QED
      BY <3>1, Least
  <2>2. x \in 0 .. L /\ ~AllWritten(o, a[x], x)
    BY <2>1
  <2>3. AllWritten(o, a[0], 0)
    BY <1>3 DEF AllWritten
  <2>4. x \in 1 .. L /\ x - 1 \in 0 .. L /\ x - 1 \in Nat /\ ~(x <= x - 1) /\ (x - 1) + 1 = x
    <3>1. x # 0
      BY <2>2, <2>3
    <3> QED
      BY <1>1, <2>2, <3>1
  <2>5. AllWritten(o, a[x - 1], x - 1)
    BY <2>1, <2>4
  <2>6. Writes(a[x - 1], a[x])
    <3>1. Fit(a[x - 1]) /\ a[x] = Write(a[x - 1], chunks[x]) /\ chunks[x] \in Chunk
      BY <1>1, <1>3, <2>4, <2>5 DEF AllWritten
    <3> QED
      BY <3>1, WriteWrites
  <2>7. \A T \in Sizes : Sized(o, T, 0) => Sized(a[x], T, x)
    <3>1. \A T \in Sizes : Sized(a[x - 1], T, x - 1) => Sized(a[x], T, x)
      BY <2>4, <2>6 DEF Writes
    <3> QED
      BY <2>5, <3>1 DEF AllWritten
  <2> QED
    BY <2>2, <2>5, <2>6, <2>7 DEF AllWritten, Writes
<1>5. L \in 0 .. L
  BY <1>1
<1> QED
  BY <1>3, <1>4, <1>5 DEF L

-----------------------------------------------------------------------------
(* Two responses to one request, p without compression and c with.  T are the  *)
(* headers that were added to or deleted; F are the statuses of a failure.  *)
Shown(p, k) == IF p.net.sent = None THEN p.net.header[k] ELSE p.net.sent.header[k]

\* c waits: what the release will send is what p has, or will have, sent.
HeadersWait(p, c, T) ==
  \A k \in Header \ (T \cup {"Content-Length", "Set-Cookie"}) : Eff(c, k) = Shown(p, k)
CookiesWait(p, c) == c.net.header["Set-Cookie"] \o c.writer.cookieList = Shown(p, "Set-Cookie")
StatusWaits(p, c, F) ==
  IF p.net.sent = None THEN c.writer.status = 0
  ELSE /\ p.net.sent.status > 0
       /\ \/ c.writer.status = p.net.sent.status
          \/ c.writer.status = 0 /\ p.net.sent.status = 200
          \/ c.writer.status \in F \ {0}

\* c flows: what was sent is the same.
HeadersSent(p, c, T) ==
  /\ \A k \in Header \ (T \cup {"Content-Length", "Content-Encoding"}) :
       c.net.sent.header[k] = p.net.sent.header[k]
  /\ p.net.sent.header["Content-Encoding"] # << >> =>
       c.net.sent.header["Content-Encoding"] = p.net.sent.header["Content-Encoding"]
SamePage(p, c, verb) ==
  verb = "GET" => /\ Len(p.net.body) = Len(c.net.body)
                  /\ \A i \in DOMAIN p.net.body : p.net.body[i].chunk = c.net.body[i].chunk
StatusSent(p, c, F, verb) ==
  \/ c.net.sent.status = p.net.sent.status /\ SamePage(p, c, verb)
  \/ c.net.sent.status \in F

Before(p, c, T, F) ==
  p.net.body = << >> /\ HeadersWait(p, c, T) /\ CookiesWait(p, c) /\ StatusWaits(p, c, F)
Behind(p, c, T, F, verb) ==
  p.net.sent # None /\ HeadersSent(p, c, T) /\ StatusSent(p, c, F, verb)

Alike(p, c, T, F, verb) ==
  /\ p \in Out /\ c \in Out /\ Bare(p)
  /\ p.status = c.status /\ p.contentType = c.contentType
  /\ \/ c = p
     \/ Waiting(c) /\ Before(p, c, T, F)
     \/ Flowing(c) /\ Behind(p, c, T, F, verb)

LEMMA AlikeFit ==
  ASSUME NEW p, NEW c, NEW T, NEW F, NEW verb, Alike(p, c, T, F, verb)
  PROVE  Fit(p) /\ Fit(c) /\ p \in Out /\ c \in Out
  BY DEF Alike, Fit

LEMMA AlikeSame ==
  ASSUME NEW p, NEW c, NEW T, NEW F, NEW verb, Alike(p, c, T, F, verb),
         NEW q, NEW d, Same(p, q), Same(c, d), q.status = d.status, q.contentType = d.contentType
  PROVE  Alike(q, d, T, F, verb)
<1>1. q \in Out /\ d \in Out /\ Bare(q)
  BY SameModes DEF Alike, Same
<1>2. CASE c = p
  <2>1. d = q
    BY <1>1, <1>2 DEF Same, Out
  <2> QED
    BY <1>1, <2>1 DEF Alike
<1>3. CASE Waiting(c) /\ Before(p, c, T, F)
  <2>1. Waiting(d)
    BY <1>3, SameModes
  <2>2. Before(q, d, T, F)
    <3>1. q.net = p.net /\ d.net = c.net /\ d.writer = c.writer
      BY DEF Same
    <3>2. (\A k : Shown(q, k) = Shown(p, k)) /\ (\A k : Eff(d, k) = Eff(c, k))
      BY <3>1 DEF Shown, Eff
    <3>3. HeadersWait(q, d, T) /\ CookiesWait(q, d)
      BY <1>3, <3>1, <3>2 DEF Before, HeadersWait, CookiesWait
    <3>4. StatusWaits(q, d, F)
      BY <1>3, <3>1 DEF Before, StatusWaits
    <3> QED
      BY <1>3, <3>1, <3>3, <3>4 DEF Before
  <2> QED
    BY <1>1, <2>1, <2>2 DEF Alike
<1>4. CASE Flowing(c) /\ Behind(p, c, T, F, verb)
  <2>1. Flowing(d)
    BY <1>4, SameModes
  <2>2. Behind(q, d, T, F, verb)
    BY <1>4 DEF Behind, HeadersSent, StatusSent, SamePage, Same
  <2> QED
    BY <1>1, <2>1, <2>2 DEF Alike
<1> QED
  BY <1>2, <1>3, <1>4 DEF Alike

(* A header is written on both sides.                                         *)
LEMMA AlikeFlows ==
  ASSUME NEW p, NEW c, NEW T, NEW F, NEW verb,
         NEW q \in Out, NEW d \in Out, Bare(q), Flowing(d), Behind(p, c, T, F, verb),
         q.net.sent = p.net.sent, q.net.body = p.net.body, d.net.sent = c.net.sent, d.net.body = c.net.body,
         q.status = d.status, q.contentType = d.contentType, NEW U, T \subseteq U
  PROVE  Alike(q, d, U, F, verb)
<1>1. HeadersSent(q, d, U)
  BY DEF Behind, HeadersSent
<1>2. StatusSent(q, d, F, verb)
  BY DEF Behind, StatusSent, SamePage
<1> QED
  BY <1>1, <1>2 DEF Behind, Alike

LEMMA AlikeChanged ==
  ASSUME NEW p, NEW c, NEW T, NEW F, NEW verb, Alike(p, c, T, F, verb), NEW U, T \subseteq U,
         NEW k \in Header \ {"Set-Cookie", "Content-Length"}, NEW v, NEW u, NEW q, NEW d,
         Changed(p, q, k, v), Changed(c, d, k, u),
         k = "Content-Encoding" => v \in Foreign /\ u \in Foreign,
         k \in U \/ (u = v /\ \E e : v = <<e>>),
         Waiting(c) => p.net.sent = None \/ Shown(p, k) = v,
         c = p => d = q
  PROVE  Alike(q, d, U, F, verb)
<1>1. /\ q \in Out /\ d \in Out /\ p \in Out /\ c \in Out
      /\ q.status = d.status /\ q.contentType = d.contentType
      /\ q.net.sent = p.net.sent /\ q.net.body = p.net.body
      /\ d.net.sent = c.net.sent /\ d.net.body = c.net.body
  BY DEF Changed, Alike
<1>2. Bare(q) /\ (Waiting(c) => Waiting(d)) /\ (Flowing(c) => Flowing(d))
  BY <1>1, ChangedModes DEF Alike
<1>3. CASE c = p
  BY <1>1, <1>2, <1>3 DEF Alike
<1>4. CASE Waiting(c) /\ Before(p, c, T, F)
  <2>1. /\ \A x \in Header : At(q, x) = IF x = k THEN v ELSE At(p, x)
        /\ \A x \in Header : At(d, x) = IF x = k THEN u ELSE At(c, x)
    BY <1>1, ChangedAt
  <2>2. Buffers(c) /\ Buffers(d) /\ ~Buffers(p) /\ ~Buffers(q)
    BY <1>2, <1>4, ModeFacts DEF Alike
  <2>3. /\ \A x \in Header : q.net.header[x] = IF x = k THEN v ELSE p.net.header[x]
        /\ \A x \in Header : d.writer.headerMap[x] = IF x = k THEN u ELSE c.writer.headerMap[x]
    BY <2>1, <2>2 DEF At
  <2>4. d.net.header = c.net.header /\ SameWriter(c.writer, d.writer)
    BY <2>2 DEF Changed
  <2>5. ASSUME NEW x \in Header \ (U \cup {"Content-Length", "Set-Cookie"}) PROVE Eff(d, x) = Shown(q, x)
    <3>1. Eff(c, x) = Shown(p, x)
      BY <1>4 DEF Before, HeadersWait
    <3>2. CASE x # k
      <4>1. Eff(d, x) = Eff(c, x)
        BY <2>3, <2>4, <3>2 DEF Eff
      <4>2. Shown(q, x) = Shown(p, x)
        BY <1>1, <2>3, <3>2 DEF Shown
      <4> QED
        BY <3>1, <4>1, <4>2
    <3>3. CASE x = k
      <4>1. PICK e : u = <<e>> /\ v = <<e>>
        BY <3>3
      <4>2. Eff(d, x) = <<e>>
        BY <2>3, <3>3, <4>1 DEF Eff, Last
      <4>3. Shown(q, x) = v
        <5>1. CASE p.net.sent = None
          BY <1>1, <2>3, <3>3, <5>1 DEF Shown
        <5>2. CASE p.net.sent # None
          <6>1. Shown(p, k) = v
            BY <1>4, <5>2
          <6> QED
            BY <1>1, <3>3, <5>2, <6>1 DEF Shown
        <5> QED
          BY <5>1, <5>2
      <4> QED
        BY <4>1, <4>2, <4>3
    <3> QED
      BY <3>2, <3>3
  <2>6. HeadersWait(q, d, U)
    BY <2>5 DEF HeadersWait
  <2>7. CookiesWait(q, d)
    <3>1. Shown(q, "Set-Cookie") = Shown(p, "Set-Cookie")
      BY <1>1, <2>3, HeaderNames DEF Shown
    <3> QED
      BY <1>4, <2>4, <3>1 DEF Before, CookiesWait, SameWriter
  <2>8. StatusWaits(q, d, F)
    BY <1>1, <1>4, <2>4 DEF Before, StatusWaits, SameWriter
  <2> QED
    BY <1>1, <1>2, <1>4, <2>6, <2>7, <2>8 DEF Alike, Before
<1>5. CASE Flowing(c) /\ Behind(p, c, T, F, verb)
  BY <1>1, <1>2, <1>5, AlikeFlows
<1> QED
  BY <1>3, <1>4, <1>5 DEF Alike

LEMMA AlikeLength ==
  ASSUME NEW p, NEW c, NEW T, NEW F, NEW verb, Alike(p, c, T, F, verb),
         NEW q, NEW d, NEW v, NEW u,
         q = p \/ Changed(p, q, "Content-Length", v), d = c \/ Changed(c, d, "Content-Length", u),
         c = p => d = q
  PROVE  Alike(q, d, T, F, verb)
<1>1. /\ q \in Out /\ d \in Out /\ p \in Out /\ c \in Out
      /\ q.status = d.status /\ q.contentType = d.contentType
      /\ q.net.sent = p.net.sent /\ q.net.body = p.net.body
      /\ d.net.sent = c.net.sent /\ d.net.body = c.net.body
  BY DEF Changed, Alike
<1>2. Bare(q) /\ (Waiting(c) => Waiting(d)) /\ (Flowing(c) => Flowing(d))
  <2>1. PICK k : k = "Content-Length"
    OBVIOUS
  <2>2. k \in Header \ {"Set-Cookie"} /\ k # "Content-Encoding"
    BY <2>1, HeaderNames
  <2>3. q = p \/ Bare(q)
    BY <1>1, <2>1, <2>2, ChangedModes DEF Alike
  <2>4. d = c \/ ((Waiting(c) => Waiting(d)) /\ (Flowing(c) => Flowing(d)))
    BY <1>1, <2>1, <2>2, ChangedModes
  <2> QED
    BY <2>3, <2>4 DEF Alike
<1>3. CASE c = p
  BY <1>1, <1>2, <1>3 DEF Alike
<1>4. CASE Waiting(c) /\ Before(p, c, T, F)
  <2>1. /\ \A x \in Header \ {"Content-Length"} : At(q, x) = At(p, x)
        /\ \A x \in Header \ {"Content-Length"} : At(d, x) = At(c, x)
    <3>1. q = p \/ \A x \in Header : At(q, x) = IF x = "Content-Length" THEN v ELSE At(p, x)
      BY <1>1, HeaderNames, ChangedAt
    <3>2. d = c \/ \A x \in Header : At(d, x) = IF x = "Content-Length" THEN u ELSE At(c, x)
      BY <1>1, HeaderNames, ChangedAt
    <3> QED
      BY <3>1, <3>2
  <2>2. Buffers(c) /\ Buffers(d) /\ ~Buffers(p) /\ ~Buffers(q)
    BY <1>2, <1>4, ModeFacts DEF Alike
  <2>3. /\ \A x \in Header \ {"Content-Length"} : q.net.header[x] = p.net.header[x]
        /\ \A x \in Header \ {"Content-Length"} : d.writer.headerMap[x] = c.writer.headerMap[x]
    BY <2>1, <2>2 DEF At
  <2>4. d.net.header = c.net.header /\ SameWriter(c.writer, d.writer)
    BY <2>2 DEF Changed, SameWriter
  <2>5. ASSUME NEW x \in Header \ (T \cup {"Content-Length", "Set-Cookie"}) PROVE Eff(d, x) = Shown(q, x)
    <3>1. Eff(c, x) = Shown(p, x)
      BY <1>4 DEF Before, HeadersWait
    <3>2. Eff(d, x) = Eff(c, x)
      BY <2>3, <2>4 DEF Eff
    <3>3. Shown(q, x) = Shown(p, x)
      BY <1>1, <2>3 DEF Shown
    <3> QED
      BY <3>1, <3>2, <3>3
  <2>6. HeadersWait(q, d, T)
    BY <2>5 DEF HeadersWait
  <2>7. CookiesWait(q, d)
    <3>1. Shown(q, "Set-Cookie") = Shown(p, "Set-Cookie")
      BY <1>1, <2>3, HeaderNames DEF Shown
    <3> QED
      BY <1>4, <2>4, <3>1 DEF Before, CookiesWait, SameWriter
  <2>8. StatusWaits(q, d, F)
    BY <1>1, <1>4, <2>4 DEF Before, StatusWaits, SameWriter
  <2> QED
    BY <1>1, <1>2, <1>4, <2>6, <2>7, <2>8 DEF Alike, Before
<1>5. CASE Flowing(c) /\ Behind(p, c, T, F, verb)
  BY <1>1, <1>2, <1>5, AlikeFlows
<1> QED
  BY <1>3, <1>4, <1>5 DEF Alike

LEMMA AlikeCookie ==
  ASSUME NEW p, NEW c, NEW T, NEW F, NEW verb, Alike(p, c, T, F, verb), NEW e \in Nat,
         Waiting(c) => p.net.sent = None,
         NEW q, NEW d, q = SetCookie(p, e), d = SetCookie(c, e)
  PROVE  Alike(q, d, T, F, verb)
<1>1. p \in Out /\ c \in Out /\ Fit(p) /\ Fit(c) /\ ~Buffers(p) /\ Bare(p)
  BY AlikeFit, ModeFacts DEF Alike
<1>2. /\ q \in Out /\ q.status = p.status /\ q.contentType = p.contentType
      /\ q.net.sent = p.net.sent /\ q.net.body = p.net.body
      /\ \A k \in Header \ {"Set-Cookie"} : q.net.header[k] = p.net.header[k]
      /\ q.net.header["Set-Cookie"] = Append(p.net.header["Set-Cookie"], e)
  BY <1>1, SetCookieFacts
<1>3. /\ d \in Out /\ d.status = c.status /\ d.contentType = c.contentType
      /\ d.net.sent = c.net.sent /\ d.net.body = c.net.body
      /\ IF Buffers(c)
         THEN /\ d.net.header = c.net.header
              /\ d.writer # None /\ d.writer.cookieList = Append(c.writer.cookieList, e)
              /\ d.writer.compressionType = c.writer.compressionType
              /\ d.writer.headersWritten = c.writer.headersWritten
              /\ d.writer.closed = c.writer.closed /\ d.writer.released = c.writer.released
              /\ d.writer.headerMap = c.writer.headerMap /\ d.writer.status = c.writer.status
         ELSE d.writer = c.writer
  BY <1>1, SetCookieFacts
<1>4. Keeps(p, q)
  BY <1>1, CookieKeeps
<1>5. Bare(q)
  BY <1>1, <1>4 DEF Keeps
<1>6. q.status = d.status /\ q.contentType = d.contentType
  BY <1>2, <1>3 DEF Alike
<1>7. CASE c = p
  BY <1>2, <1>5, <1>6, <1>7 DEF Alike
<1>8. CASE Waiting(c) /\ Before(p, c, T, F)
  <2>1. Buffers(c) /\ p.net.sent = None
    BY <1>8, ModeFacts
  <2>2. Waiting(d)
    BY <1>3, <1>8, <2>1 DEF Waiting
  <2>3. HeadersWait(q, d, T)
    <3>1. \A x \in Header : Eff(d, x) = Eff(c, x)
      BY <1>3, <2>1 DEF Eff
    <3>2. \A x \in Header \ {"Set-Cookie"} : Shown(q, x) = Shown(p, x)
      BY <1>2, <2>1 DEF Shown
    <3> QED
      BY <1>8, <3>1, <3>2 DEF Before, HeadersWait
  <2>4. CookiesWait(q, d)
    <3> DEFINE h == c.net.header["Set-Cookie"]
               l == c.writer.cookieList
    <3>1. h \in Seq(Atom) /\ l \in Seq(Atom) /\ e \in Atom
      <4>1. c.net.header \in Headers /\ l \in Seq(Nat)
        BY <1>1, <1>8, OutFacts DEF Waiting
      <4>2. h \in Seq(Atom)
        BY <4>1, HeaderNames DEF Headers, Atom
      <4> HIDE DEF l, h
      <4>3. l \in Seq(Atom) /\ e \in Atom
        BY <4>1 DEF Atom
      <4> QED
        BY <4>2, <4>3
    <3>2. h \o l = p.net.header["Set-Cookie"]
      BY <1>8, <2>1 DEF Before, CookiesWait, Shown
    <3>3. d.net.header["Set-Cookie"] = h /\ d.writer.cookieList = Append(l, e)
      BY <1>3, <2>1
    <3>4. Shown(q, "Set-Cookie") = Append(p.net.header["Set-Cookie"], e)
      BY <1>2, <2>1 DEF Shown
    <3> HIDE DEF h, l
    <3>5. h \o Append(l, e) = Append(h \o l, e)
      BY <3>1
    <3> QED
      BY <3>2, <3>3, <3>4, <3>5 DEF CookiesWait
  <2>5. StatusWaits(q, d, F)
    BY <1>2, <1>3, <1>8, <2>1 DEF Before, StatusWaits
  <2> QED
    BY <1>2, <1>3, <1>5, <1>6, <1>8, <2>2, <2>3, <2>4, <2>5 DEF Alike, Before
<1>9. CASE Flowing(c) /\ Behind(p, c, T, F, verb)
  <2>1. ~Buffers(c)
    BY <1>9, ModeFacts
  <2>2. Flowing(d)
    BY <1>3, <1>9, <2>1 DEF Flowing
  <2> QED
    BY <1>2, <1>3, <1>5, <1>6, <1>9, <2>2, AlikeFlows
<1> QED
  BY <1>7, <1>8, <1>9 DEF Alike

LEMMA AlikeStatus ==
  ASSUME NEW p, NEW c, NEW T, NEW F, NEW verb, Alike(p, c, T, F, verb), NEW s \in Nat, s > 0,
         Waiting(c) => p.net.sent = None \/ s \in F,
         NEW q, NEW d, q = SetStatus(p, s), d = SetStatus(c, s)
  PROVE  Alike(q, d, T, F, verb)
<1>1. p \in Out /\ c \in Out /\ Fit(p) /\ Fit(c) /\ ~Buffers(p) /\ Bare(p) /\ p.net \in Net
  BY AlikeFit, ModeFacts, OutFacts DEF Alike
<1>2. /\ q \in Out /\ q.status = p.status /\ q.contentType = p.contentType
      /\ q.net = NetWriteHeader(p.net, s) /\ q.writer = p.writer
  BY <1>1, SetStatusFacts
<1>3. /\ q.net.header = p.net.header /\ q.net.body = p.net.body /\ q.net.sent # None
      /\ p.net.sent # None => q.net.sent = p.net.sent
      /\ p.net.sent = None => q.net.sent.status = s /\ q.net.sent.header = p.net.header
  <2>1. LET r == NetWriteHeader(p.net, s)
        IN  /\ r.header = p.net.header /\ r.body = p.net.body /\ r.sent # None
            /\ p.net.sent # None => r = p.net
            /\ p.net.sent = None => r.sent = [status |-> s, header |-> p.net.header]
    BY <1>1, NetWriteHeaderFacts
  <2> QED
    BY <1>2, <2>1
<1>4. /\ d \in Out /\ d.status = c.status /\ d.contentType = c.contentType
      /\ IF Buffers(c)
         THEN /\ d.net = c.net /\ d.writer # None /\ d.writer.status = s
              /\ d.writer.compressionType = c.writer.compressionType
              /\ d.writer.headersWritten = c.writer.headersWritten
              /\ d.writer.closed = c.writer.closed /\ d.writer.released = c.writer.released
              /\ d.writer.headerMap = c.writer.headerMap /\ d.writer.cookieList = c.writer.cookieList
         ELSE d.net = NetWriteHeader(c.net, s) /\ d.writer = c.writer
  BY <1>1, SetStatusFacts
<1>5. Bare(q)
  <2>1. Keeps(p, q)
    BY <1>1, StatusKeeps
  <2> QED
    BY <1>1, <2>1 DEF Keeps
<1>6. q.status = d.status /\ q.contentType = d.contentType
  BY <1>2, <1>4 DEF Alike
<1>7. CASE c = p
  BY <1>2, <1>5, <1>6, <1>7 DEF Alike
<1>8. CASE Waiting(c) /\ Before(p, c, T, F)
  <2>1. Buffers(c)
    BY <1>8, ModeFacts
  <2>2. Waiting(d)
    BY <1>4, <1>8, <2>1 DEF Waiting
  <2>3. \A x \in Header : Shown(q, x) = Shown(p, x) /\ Eff(d, x) = Eff(c, x)
    BY <1>3, <1>4, <2>1 DEF Shown, Eff
  <2>4. HeadersWait(q, d, T) /\ CookiesWait(q, d)
    BY <1>4, <1>8, <2>1, <2>3, HeaderNames DEF Before, HeadersWait, CookiesWait
  <2>5. StatusWaits(q, d, F)
    <3>1. q.net.sent # None /\ q.net.sent.status > 0 /\ d.writer.status = s
      BY <1>3, <1>4, <1>8, <2>1 DEF Before, StatusWaits
    <3>2. s = q.net.sent.status \/ s \in F
      BY <1>3, <1>8
    <3> QED
      BY <3>1, <3>2 DEF StatusWaits
  <2> QED
    BY <1>2, <1>3, <1>4, <1>5, <1>6, <1>8, <2>2, <2>4, <2>5 DEF Alike, Before
<1>9. CASE Flowing(c) /\ Behind(p, c, T, F, verb)
  <2>1. ~Buffers(c) /\ c.net.sent # None /\ p.net.sent # None
    BY <1>9, ModeFacts DEF Flowing, Behind
  <2>2. d.net = c.net /\ d.writer = c.writer
    <3>1. c.net \in Net
      BY <1>1, OutFacts
    <3> QED
      BY <1>4, <2>1, <3>1, NetWriteHeaderFacts
  <2>3. Flowing(d)
    BY <1>9, <2>2 DEF Flowing
  <2> QED
    BY <1>2, <1>3, <1>4, <1>5, <1>6, <1>9, <2>1, <2>2, <2>3, AlikeFlows
<1> QED
  BY <1>7, <1>8, <1>9 DEF Alike

(* The plain response is sent with the status that is the default.            *)
LEMMA AlikeSent ==
  ASSUME NEW p, NEW c, NEW T, NEW F, NEW verb, Alike(p, c, T, F, verb), c # p,
         NEW q \in Out, q.writer = p.writer, q.status = p.status, q.contentType = p.contentType,
         q.net = NetWriteHeader(p.net, 200)
  PROVE  Alike(q, c, T, F, verb) /\ q.net.sent # None
<1>1. p \in Out /\ c \in Out /\ Fit(p) /\ Fit(c) /\ ~Buffers(p) /\ Bare(p) /\ p.net \in Net
  BY AlikeFit, ModeFacts, OutFacts DEF Alike
<1>2. /\ q.net.header = p.net.header /\ q.net.body = p.net.body /\ q.net.sent # None
      /\ p.net.sent # None => q.net.sent = p.net.sent
      /\ p.net.sent = None => q.net.sent.status = 200 /\ q.net.sent.header = p.net.header
  <2>1. LET r == NetWriteHeader(p.net, 200)
        IN  /\ r.header = p.net.header /\ r.body = p.net.body /\ r.sent # None
            /\ p.net.sent # None => r = p.net
            /\ p.net.sent = None => r.sent = [status |-> 200, header |-> p.net.header]
    BY <1>1, NetWriteHeaderFacts
  <2> QED
    BY <2>1
<1>3. Bare(q)
  <2>1. Keeps(p, q)
    BY <1>1, NetModes
  <2> QED
    BY <1>1, <2>1 DEF Keeps
<1>4. CASE Waiting(c) /\ Before(p, c, T, F)
  <2>1. \A x \in Header : Shown(q, x) = Shown(p, x)
    BY <1>2 DEF Shown
  <2>2. HeadersWait(q, c, T) /\ CookiesWait(q, c)
    BY <1>4, <2>1, HeaderNames DEF Before, HeadersWait, CookiesWait
  <2>3. StatusWaits(q, c, F)
    BY <1>2, <1>4 DEF Before, StatusWaits
  <2> QED
    BY <1>1, <1>2, <1>3, <1>4, <2>2, <2>3 DEF Alike, Before
<1>5. CASE Flowing(c) /\ Behind(p, c, T, F, verb)
  <2>1. p.net.sent # None
    BY <1>5 DEF Behind
  <2>2. q.status = c.status /\ q.contentType = c.contentType
    BY DEF Alike
  <2> QED
    BY <1>1, <1>2, <1>3, <1>5, <2>1, <2>2, AlikeFlows
<1> QED
  BY <1>4, <1>5 DEF Alike

(* c is released by its first write.                                          *)
Follows(p, q) ==
  /\ q.net.sent.header = IF p.net.sent = None THEN p.net.header ELSE p.net.sent.header
  /\ q.net.sent.status = IF p.net.sent = None THEN 200 ELSE p.net.sent.status

LEMMA AlikeOpened ==
  ASSUME NEW p, NEW c \in Out, NEW T, T \subseteq Loose, NEW F, Waiting(c), Before(p, c, T, F),
         NEW d, Opened(c, d), NEW q, Follows(p, q)
  PROVE  HeadersSent(q, d, T) /\ (d.net.sent.status = q.net.sent.status \/ d.net.sent.status \in F)
<1>1. \A k : Shown(p, k) = q.net.sent.header[k]
  BY DEF Shown, Follows
<1>2. ASSUME NEW k \in Header \ (T \cup {"Content-Length", "Content-Encoding"})
      PROVE  d.net.sent.header[k] = q.net.sent.header[k]
  <2>1. CASE k = "Set-Cookie"
    BY <1>1, <2>1 DEF Opened, Before, CookiesWait
  <2>2. CASE k # "Set-Cookie"
    <3>1. d.net.sent.header[k] = Eff(c, k)
      BY <2>2 DEF Opened
    <3>2. Eff(c, k) = Shown(p, k)
      BY <2>2 DEF Before, HeadersWait
    <3> QED
      BY <1>1, <3>1, <3>2
  <2> QED
    BY <2>1, <2>2
<1>3. ASSUME q.net.sent.header["Content-Encoding"] # << >>
      PROVE  d.net.sent.header["Content-Encoding"] = q.net.sent.header["Content-Encoding"]
  <2>1. Eff(c, "Content-Encoding") = Shown(p, "Content-Encoding")
    BY HeaderNames, LooseFacts DEF Before, HeadersWait
  <2>2. Eff(c, "Content-Encoding") # << >>
    BY <1>1, <1>3, <2>1
  <2>3. ~Compressable(c)
    BY <2>2, EffForeign
  <2>4. d.net.sent.header["Content-Encoding"] = Eff(c, "Content-Encoding")
    BY <2>3 DEF Opened
  <2> QED
    BY <1>1, <2>1, <2>4
<1>4. d.net.sent.status = q.net.sent.status \/ d.net.sent.status \in F
  <2>1. d.net.sent.status = IF c.writer.status > 0 THEN c.writer.status ELSE 200
    BY DEF Opened
  <2>2. StatusWaits(p, c, F)
    BY DEF Before
  <2>3. CASE p.net.sent = None
    BY <2>1, <2>2, <2>3 DEF StatusWaits, Follows
  <2>4. CASE p.net.sent # None
    <3>1. c.writer.status \in Nat
      BY OutFacts DEF Waiting
    <3> QED
      BY <2>1, <2>2, <2>4, <3>1 DEF StatusWaits, Follows
  <2> QED
    BY <2>3, <2>4
<1> QED
  BY <1>2, <1>3, <1>4 DEF HeadersSent

LEMMA WriteBareNet ==
  ASSUME NEW p \in Out, Bare(p), NEW chunk \in Chunk, NEW q, q = Write(p, chunk)
  PROVE  /\ q \in Out /\ q.status = p.status /\ q.contentType = p.contentType /\ Bare(q)
         /\ q.net.sent # None
         /\ q.net.sent.header = IF p.net.sent = None THEN p.net.header ELSE p.net.sent.header
         /\ q.net.sent.status = IF p.net.sent = None THEN 200 ELSE p.net.sent.status
         /\ \E e : e.chunk = chunk /\ q.net.body = IF BodyAllowed(q.net.sent.status)
                                                   THEN Append(p.net.body, e) ELSE p.net.body
<1>1. /\ q.writer = None /\ q \in Out /\ q.status = p.status /\ q.contentType = p.contentType
      /\ q.net = NetWrite(p.net, chunk, None)
  <2>1. p.writer = None
    BY DEF Bare
  <2> QED
    BY <2>1, WriteBareFacts
<1>2. Bare(q)
  <2>1. Fit(p)
    BY DEF Fit
  <2>2. Writes(p, q)
    BY <2>1, WriteWrites
  <2> QED
    BY <2>2 DEF Writes
<1>3. PICK m, by : m = p.net /\ by = None
  OBVIOUS
<1> DEFINE e == [chunk |-> chunk, by |-> by]
<1>4. /\ q.net.sent # None
      /\ m.sent # None => q.net.sent = m.sent
      /\ m.sent = None => q.net.sent = [status |-> 200, header |-> m.header]
      /\ BodyAllowed(q.net.sent.status) => q.net.body = Append(m.body, e)
      /\ ~BodyAllowed(q.net.sent.status) => q.net.body = m.body
  <2>1. m \in Net /\ by \in {None} \cup Type /\ chunk \in Chunk \cup {None}
    BY <1>3, OutFacts
  <2>2. LET x == NetWrite(m, chunk, by)
        IN  /\ x.sent # None
            /\ m.sent # None => x.sent = m.sent
            /\ m.sent = None => x.sent = [status |-> 200, header |-> m.header]
            /\ BodyAllowed(x.sent.status) => x.body = Append(m.body, [chunk |-> chunk, by |-> by])
            /\ ~BodyAllowed(x.sent.status) => x.body = m.body
    BY <2>1, NetWriteFacts
  <2> QED
    BY <1>1, <1>3, <2>2
<1>5. e.chunk = chunk
  OBVIOUS
<1> HIDE DEF e
<1>6. q.net.body = IF BodyAllowed(q.net.sent.status) THEN Append(p.net.body, e) ELSE p.net.body
  BY <1>3, <1>4
<1> QED
  BY <1>1, <1>2, <1>3, <1>4, <1>5, <1>6

LEMMA SameAppend ==
  ASSUME NEW s \in Seq(Piece), NEW t \in Seq(Piece), NEW e, NEW f, e.chunk = f.chunk,
         Len(s) = Len(t), \A i \in DOMAIN s : s[i].chunk = t[i].chunk
  PROVE  /\ Len(Append(s, e)) = Len(Append(t, f))
         /\ \A i \in DOMAIN Append(s, e) : Append(s, e)[i].chunk = Append(t, f)[i].chunk
<1>1. Len(Append(s, e)) = Len(s) + 1 /\ Len(Append(t, f)) = Len(t) + 1
  OBVIOUS
<1>2. ASSUME NEW i \in DOMAIN Append(s, e) PROVE Append(s, e)[i].chunk = Append(t, f)[i].chunk
  <2>1. CASE i = Len(s) + 1
    BY <2>1
  <2>2. CASE i # Len(s) + 1
    <3>1. i \in DOMAIN s /\ i \in DOMAIN t /\ Append(s, e)[i] = s[i] /\ Append(t, f)[i] = t[i]
      BY <2>2
    <3> QED
      BY <3>1
  <2> QED
    BY <2>1, <2>2
<1> QED
  BY <1>1, <1>2

LEMMA AlikeWrite ==
  ASSUME NEW p, NEW c, NEW T, T \subseteq Loose, NEW F, NEW verb, Alike(p, c, T, F, verb),
         NEW chunk \in Chunk, NEW q, NEW d, q = Write(p, chunk), d = Write(c, chunk)
  PROVE  Alike(q, d, T, F, verb)
<1>1. p \in Out /\ c \in Out /\ Bare(p)
  BY DEF Alike
<1>2. PICK e :
      /\ q \in Out /\ q.status = p.status /\ q.contentType = p.contentType /\ Bare(q)
      /\ q.net.sent # None
      /\ q.net.sent.header = IF p.net.sent = None THEN p.net.header ELSE p.net.sent.header
      /\ q.net.sent.status = IF p.net.sent = None THEN 200 ELSE p.net.sent.status
      /\ e.chunk = chunk /\ q.net.body = IF BodyAllowed(q.net.sent.status)
                                         THEN Append(p.net.body, e) ELSE p.net.body
  BY <1>1, WriteBareNet
<1>3. CASE c = p
  BY <1>2, <1>3 DEF Alike
<1>4. CASE Waiting(c) /\ Before(p, c, T, F)
  <2>1. Opened(c, d) /\ Flowing(d) /\ OneChunk(d, chunk)
    BY <1>1, <1>4, WriteWaitingFacts
  <2>2. Follows(p, q)
    BY <1>2 DEF Follows
  <2>3. HeadersSent(q, d, T) /\ (d.net.sent.status = q.net.sent.status \/ d.net.sent.status \in F)
    <3>1. c \in Out
      BY <1>1
    <3>2. Waiting(c)
      BY <1>4
    <3>3. Before(p, c, T, F)
      BY <1>4
    <3>4. Opened(c, d)
      BY <2>1
    <3> QED
      BY <2>2, <3>1, <3>2, <3>3, <3>4, AlikeOpened
  <2>5. p.net.body = << >>
    BY <1>4 DEF Before
  <2>6. d.net.sent.status = q.net.sent.status => SamePage(q, d, verb)
    <3> SUFFICES ASSUME d.net.sent.status = q.net.sent.status PROVE SamePage(q, d, verb)
      OBVIOUS
    <3>1. CASE BodyAllowed(q.net.sent.status)
      <4>1. q.net.body = <<e>>
        BY <1>2, <2>5, <3>1
      <4>2. Len(d.net.body) = 1 /\ d.net.body[1].chunk = chunk
        BY <2>1, <3>1 DEF OneChunk
      <4>3. Len(q.net.body) = 1 /\ DOMAIN q.net.body = {1} /\ q.net.body[1] = e
        BY <4>1
      <4> QED
        BY <1>2, <4>2, <4>3 DEF SamePage
    <3>2. CASE ~BodyAllowed(q.net.sent.status)
      <4>1. q.net.body = << >> /\ d.net.body = << >>
        BY <1>2, <2>1, <2>5, <3>2 DEF OneChunk
      <4> QED
        BY <4>1 DEF SamePage
    <3> QED
      BY <3>1, <3>2
  <2>7. StatusSent(q, d, F, verb)
    BY <2>3, <2>6 DEF StatusSent
  <2>8. d \in Out /\ d.status = c.status /\ d.contentType = c.contentType
    BY <2>1 DEF Opened
  <2> QED
    BY <1>2, <2>1, <2>3, <2>7, <2>8 DEF Alike, Behind
<1>5. CASE Flowing(c) /\ Behind(p, c, T, F, verb)
  <2>1. PICK f :
        /\ d \in Out /\ d.status = c.status /\ d.contentType = c.contentType
        /\ Flowing(d) /\ d.net.sent = c.net.sent
        /\ f.chunk = chunk
        /\ d.net.body = IF BodyAllowed(c.net.sent.status) THEN Append(c.net.body, f) ELSE c.net.body
    <3> DEFINE f == [chunk |-> chunk, by |-> c.writer.compressionType]
    <3>1. f.chunk = chunk
      OBVIOUS
    <3>2. /\ d \in Out /\ d.status = c.status /\ d.contentType = c.contentType
          /\ Flowing(d) /\ d.net.sent = c.net.sent
          /\ d.net.body = IF BodyAllowed(c.net.sent.status) THEN Append(c.net.body, f) ELSE c.net.body
      BY <1>1, <1>5, WriteFlowingFacts
    <3> QED
      BY <3>1, <3>2
  <2>2. p.net.sent # None
    BY <1>5 DEF Behind
  <2>3. q.net.sent.header = p.net.sent.header /\ q.net.sent.status = p.net.sent.status
    BY <1>2, <2>2
  <2>4. HeadersSent(q, d, T)
    BY <1>5, <2>1, <2>3 DEF Behind, HeadersSent
  <2>5. c.net.sent.status = p.net.sent.status /\ SamePage(p, c, verb) => SamePage(q, d, verb)
    <3> SUFFICES ASSUME c.net.sent.status = p.net.sent.status, SamePage(p, c, verb), verb = "GET"
                 PROVE  /\ Len(q.net.body) = Len(d.net.body)
                        /\ \A i \in DOMAIN q.net.body : q.net.body[i].chunk = d.net.body[i].chunk
      BY DEF SamePage
    <3>1. /\ p.net.body \in Seq(Piece) /\ c.net.body \in Seq(Piece)
          /\ Len(p.net.body) = Len(c.net.body)
          /\ \A i \in DOMAIN p.net.body : p.net.body[i].chunk = c.net.body[i].chunk
      BY <1>1, OutFacts DEF SamePage
    <3>2. CASE BodyAllowed(c.net.sent.status)
      <4>1. q.net.body = Append(p.net.body, e) /\ d.net.body = Append(c.net.body, f)
        BY <1>2, <2>1, <2>3, <3>2
      <4>2. PICK s, t : s = p.net.body /\ t = c.net.body
        OBVIOUS
      <4>3. /\ s \in Seq(Piece) /\ t \in Seq(Piece) /\ Len(s) = Len(t)
            /\ \A i \in DOMAIN s : s[i].chunk = t[i].chunk
            /\ e.chunk = f.chunk
        BY <1>2, <2>1, <3>1, <4>2
      <4>4. /\ Len(Append(s, e)) = Len(Append(t, f))
            /\ \A i \in DOMAIN Append(s, e) : Append(s, e)[i].chunk = Append(t, f)[i].chunk
        BY <4>3, SameAppend
      <4> QED
        BY <4>1, <4>2, <4>4
    <3>3. CASE ~BodyAllowed(c.net.sent.status)
      <4>1. q.net.body = p.net.body /\ d.net.body = c.net.body
        BY <1>2, <2>1, <2>3, <3>3
      <4> QED
        BY <3>1, <4>1
    <3> QED
      BY <3>2, <3>3
  <2>6. StatusSent(q, d, F, verb)
    BY <1>5, <2>1, <2>3, <2>5 DEF Behind, StatusSent
  <2>7. q.status = d.status /\ q.contentType = d.contentType
    BY <1>2, <2>1 DEF Alike
  <2> QED
    BY <1>2, <2>1, <2>4, <2>6, <2>7 DEF Alike, Behind
<1> QED
  BY <1>3, <1>4, <1>5 DEF Alike

\* HEAD: the page is written to c alone.
LEMMA AlikeWriteAlone ==
  ASSUME NEW p, NEW c, NEW T, T \subseteq Loose, NEW F, NEW verb, verb # "GET", Alike(p, c, T, F, verb),
         p.net.sent # None, c # p, NEW chunk \in Chunk, NEW d, d = Write(c, chunk)
  PROVE  Alike(p, d, T, F, verb) /\ d # p
<1>1. p \in Out /\ c \in Out /\ Bare(p)
  BY DEF Alike
<1>2. CASE Waiting(c) /\ Before(p, c, T, F)
  <2>1. Opened(c, d) /\ Flowing(d)
    BY <1>1, <1>2, WriteWaitingFacts
  <2>2. Follows(p, p)
    BY DEF Follows
  <2>3. HeadersSent(p, d, T) /\ (d.net.sent.status = p.net.sent.status \/ d.net.sent.status \in F)
    <3>1. c \in Out
      BY <1>1
    <3>2. Waiting(c)
      BY <1>2
    <3>3. Before(p, c, T, F)
      BY <1>2
    <3>4. Opened(c, d)
      BY <2>1
    <3> QED
      BY <2>2, <3>1, <3>2, <3>3, <3>4, AlikeOpened
  <2>4. StatusSent(p, d, F, verb)
    BY <2>3 DEF StatusSent, SamePage
  <2>5. d \in Out /\ d.status = c.status /\ d.contentType = c.contentType
    BY <2>1 DEF Opened
  <2>6. d # p
    BY <1>1, <2>1, ModeFacts
  <2> QED
    BY <2>1, <2>3, <2>4, <2>5, <2>6 DEF Alike, Behind
<1>3. CASE Flowing(c) /\ Behind(p, c, T, F, verb)
  <2>1. /\ d \in Out /\ d.status = c.status /\ d.contentType = c.contentType
        /\ Flowing(d) /\ d.net.sent = c.net.sent
    BY <1>1, <1>3, WriteFlowingFacts
  <2>2. HeadersSent(p, d, T) /\ StatusSent(p, d, F, verb)
    BY <1>3, <2>1 DEF Behind, HeadersSent, StatusSent, SamePage
  <2>3. d # p
    BY <1>1, <2>1, ModeFacts
  <2> QED
    BY <2>1, <2>2, <2>3 DEF Alike, Behind
<1> QED
  BY <1>2, <1>3 DEF Alike

\* What still waits has not been written to.
AllAlike(p, c, q, d, T, F, verb) == Alike(q, d, T, F, verb) /\ (Waiting(d) => c = d /\ p = q)

LEMMA AlikeWriteAll ==
  ASSUME NEW p, NEW c, NEW T, T \subseteq Loose, NEW F, NEW verb, Alike(p, c, T, F, verb),
         NEW chunks \in Seq(Chunk), NEW q, NEW d, q = WriteAll(p, chunks), d = WriteAll(c, chunks)
  PROVE  AllAlike(p, c, q, d, T, F, verb)
<1> DEFINE L == Len(chunks)
           R(x, y) == Alike(x, y, T, F, verb) /\ (Waiting(y) => c = y /\ p = x)
<1>1. L \in Nat /\ \A n \in 1 .. L : chunks[n] \in Chunk
  OBVIOUS
<1>2. PICK a : WrittenBy(p, chunks, a)
  BY <1>1, WriteAllFacts
<1>3. PICK b : WrittenBy(c, chunks, b)
  BY <1>1, WriteAllFacts
<1>4. /\ a[0] = p /\ q = a[L] /\ b[0] = c /\ d = b[L]
      /\ \A n \in 1 .. L : a[n] = Write(a[n - 1], chunks[n]) /\ b[n] = Write(b[n - 1], chunks[n])
  BY <1>2, <1>3 DEF WrittenBy
<1> HIDE DEF L
<1> DEFINE S == {n \in 0 .. L : ~R(a[n], b[n])}
<1>5. S = {}
  <2> SUFFICES ASSUME S # {} PROVE FALSE
    OBVIOUS
  <2>1. PICK x \in S : \A y \in S : x <= y
    <3>1. S \in SUBSET Nat
      OBVIOUS
    <3> HIDE DEF S
    <3> QED
      BY <3>1, Least
  <2>2. x \in 0 .. L /\ ~R(a[x], b[x])
    BY <2>1
  <2>3. R(a[0], b[0])
    BY <1>4
  <2>4. x \in 1 .. L /\ x - 1 \in 0 .. L /\ ~(x <= x - 1)
    <3>1. x # 0
      <4> HIDE DEF R
      <4> QED
        BY <2>2, <2>3
    <3> QED
      BY <1>1, <2>2, <3>1
  <2>5. R(a[x - 1], b[x - 1])
    BY <2>1, <2>4
  <2>6. a[x] = Write(a[x - 1], chunks[x]) /\ b[x] = Write(b[x - 1], chunks[x]) /\ chunks[x] \in Chunk
    BY <1>1, <1>4, <2>4
  <2>7. Alike(a[x], b[x], T, F, verb)
    BY <2>5, <2>6, AlikeWrite
  <2>8. ~Waiting(b[x])
    <3>1. Fit(b[x - 1])
      BY <2>5, AlikeFit
    <3>2. Writes(b[x - 1], b[x])
      BY <2>6, <3>1, WriteWrites
    <3> QED
      BY <3>2 DEF Writes
  <2> QED
    BY <2>2, <2>7, <2>8
<1>6. L \in 0 .. L
  BY <1>1
<1>7. R(q, d)
  BY <1>4, <1>5, <1>6
<1> QED
  BY <1>7 DEF AllAlike

LEMMA AlikeWriteAllAlone ==
  ASSUME NEW p, NEW c, NEW T, T \subseteq Loose, NEW F, NEW verb, verb # "GET", Alike(p, c, T, F, verb),
         p.net.sent # None, c # p, NEW chunks \in Seq(Chunk), NEW d, d = WriteAll(c, chunks)
  PROVE  Alike(p, d, T, F, verb)
<1> DEFINE L == Len(chunks)
           R(y) == Alike(p, y, T, F, verb) /\ y # p
<1>1. L \in Nat /\ \A n \in 1 .. L : chunks[n] \in Chunk
  OBVIOUS
<1>3. PICK b : WrittenBy(c, chunks, b)
  BY <1>1, WriteAllFacts
<1>4. /\ b[0] = c /\ d = b[L]
      /\ \A n \in 1 .. L : b[n] = Write(b[n - 1], chunks[n])
  BY <1>3 DEF WrittenBy
<1> HIDE DEF L
<1> DEFINE S == {n \in 0 .. L : ~R(b[n])}
<1>5. S = {}
  <2> SUFFICES ASSUME S # {} PROVE FALSE
    OBVIOUS
  <2>1. PICK x \in S : \A y \in S : x <= y
    <3>1. S \in SUBSET Nat
      OBVIOUS
    <3> HIDE DEF S
    <3> QED
      BY <3>1, Least
  <2>2. x \in 0 .. L /\ ~R(b[x])
    BY <2>1
  <2>3. R(b[0])
    BY <1>4
  <2>4. x \in 1 .. L /\ x - 1 \in 0 .. L /\ ~(x <= x - 1)
    <3>1. x # 0
      <4> HIDE DEF R
      <4> QED
        BY <2>2, <2>3
    <3> QED
      BY <1>1, <2>2, <3>1
  <2>5. R(b[x - 1])
    BY <2>1, <2>4
  <2>6. b[x] = Write(b[x - 1], chunks[x]) /\ chunks[x] \in Chunk
    BY <1>1, <1>4, <2>4
  <2>7. R(b[x])
    <3>1. Alike(p, b[x - 1], T, F, verb) /\ b[x - 1] # p
      BY <2>5
    <3>2. PICK y, z : y = b[x - 1] /\ z = b[x]
      OBVIOUS
    <3>3. Alike(p, z, T, F, verb) /\ z # p
      BY <2>6, <3>1, <3>2, AlikeWriteAlone
    <3> QED
      BY <3>2, <3>3
  <2> QED
    BY <2>2, <2>7
<1>6. L \in 0 .. L
  BY <1>1
<1>7. R(d)
  BY <1>4, <1>5, <1>6
<1> QED
  BY <1>7

-----------------------------------------------------------------------------
(* The results.                                                               *)
HeadStatus(o, status) == IF o.status = 0 THEN status ELSE o.status
HeadType(o, type)     == IF o.contentType = "" THEN type ELSE o.contentType

\* What ResponseWriteHeader makes of o: y has the Content-Type, x the fields too.
HeadSteps(o, y, x, r, s, t) ==
  /\ Changed(o, y, "Content-Type", <<t>>)
  /\ y = HeaderSet(o, "Content-Type", t)
  /\ Same(y, x) /\ x.status = s /\ x.contentType = t
  /\ x = [y EXCEPT !.status = s, !.contentType = t]
  /\ r = SetStatus(x, s)

LEMMA HeadFacts ==
  ASSUME NEW o \in Out, NEW status \in Nat, NEW type \in Text,
         NEW r, r = ResponseWriteHeader(o, status, type)
  PROVE  \E y, x : HeadSteps(o, y, x, r, HeadStatus(o, status), HeadType(o, type))
<1> DEFINE s == HeadStatus(o, status)
           t == HeadType(o, type)
           y == HeaderSet(o, "Content-Type", t)
           x == [y EXCEPT !.status = s, !.contentType = t]
<1>1. s \in Nat /\ t \in Text /\ t \in Atom
  BY OutFacts DEF HeadStatus, HeadType, Atom
<1>2. r = SetStatus(x, s)
  BY DEF ResponseWriteHeader, HeadStatus, HeadType
<1> HIDE DEF s, t
<1>3. Changed(o, y, "Content-Type", <<t>>)
  BY <1>1, HeaderSetFacts, HeaderNames
<1>4. y = HeaderSet(o, "Content-Type", t)
  OBVIOUS
<1> HIDE DEF y
<1>5. y \in Out
  BY <1>3 DEF Changed
<1>6. Same(y, x) /\ x.status = s /\ x.contentType = t
  BY <1>1, <1>5 DEF Out, Same
<1>7. x = [y EXCEPT !.status = s, !.contentType = t]
  OBVIOUS
<1> HIDE DEF x
<1>8. HeadSteps(o, y, x, r, s, t)
  BY <1>2, <1>3, <1>4, <1>6, <1>7 DEF HeadSteps
<1> QED
  BY <1>8 DEF s, t

LEMMA HeadKeeps ==
  ASSUME NEW o, Fit(o), NEW status \in Nat, NEW type \in Text,
         NEW r, r = ResponseWriteHeader(o, status, type)
  PROVE  Keeps(o, r) /\ r.status = HeadStatus(o, status) /\ r.contentType = HeadType(o, type)
<1> DEFINE s == HeadStatus(o, status)
           t == HeadType(o, type)
<1>1. o \in Out
  BY DEF Fit
<1>2. s \in Nat
  BY <1>1, OutFacts DEF HeadStatus
<1> HIDE DEF s, t
<1>3. PICK y, x : HeadSteps(o, y, x, r, s, t)
  BY <1>1, HeadFacts DEF s, t
<1>4. Keeps(o, y)
  <2>1. "Content-Type" \in Header \ {"Set-Cookie", "Content-Length"} /\ "Content-Type" # "Content-Encoding"
    BY HeaderNames
  <2>2. PICK v : v = <<t>>
    OBVIOUS
  <2>3. Changed(o, y, "Content-Type", v)
    BY <1>3, <2>2 DEF HeadSteps
  <2> QED
    BY <2>1, <2>3, ChangedKeeps
<1>5. Keeps(y, x)
  BY <1>3, <1>4, SameKeeps DEF Keeps, HeadSteps
<1>6. Fit(x)
  BY <1>5 DEF Keeps
<1>7. Keeps(x, r)
  BY <1>2, <1>3, <1>6, StatusKeeps DEF HeadSteps
<1>8. r.status = s /\ r.contentType = t
  <2>1. x \in Out /\ r = SetStatus(x, s) /\ x.status = s /\ x.contentType = t
    BY <1>3, <1>6 DEF HeadSteps, Fit
  <2>2. r.status = x.status /\ r.contentType = x.contentType
    BY <1>2, <2>1, SetStatusFacts
  <2> QED
    BY <2>1, <2>2
<1>9. Keeps(o, r)
  BY <1>4, <1>5, <1>7, KeepsOn
<1> QED
  BY <1>8, <1>9 DEF s, t

PageWritten(o, r, n) ==
  /\ Fit(r) /\ (Bare(o) => Bare(r))
  /\ \A S \in Sizes : Sized(o, S, 0) => Sized(r, S, n)

LEMMA PageKeeps ==
  ASSUME NEW o, Fit(o), NEW status \in Nat, NEW type \in Text, NEW chunks \in Seq(Chunk),
         NEW r, r = Page(o, status, type, chunks)
  PROVE  /\ PageWritten(o, r, Len(chunks))
         /\ r.status = HeadStatus(o, status) /\ r.contentType = HeadType(o, type)
<1>1. PICK h : h = ResponseWriteHeader(o, status, type)
  OBVIOUS
<1>2. Keeps(o, h) /\ h.status = HeadStatus(o, status) /\ h.contentType = HeadType(o, type)
  BY <1>1, HeadKeeps
<1>3. Fit(h) /\ r = WriteAll(h, chunks)
  BY <1>1, <1>2 DEF Keeps, Page
<1>4. AllWritten(h, r, Len(chunks))
  BY <1>3, WriteAllWrites
<1> QED
  BY <1>2, <1>4 DEF PageWritten, AllWritten, Keeps

NoLength(o) == Sized(o, {<< >>}, 0)
Ended(o)    == NoLength(o) \/ \E n \in Nat : Sized(o, {<< >>, <<n>>}, n)

LEMMA NoLengthFacts ==
  /\ {<< >>} \in Sizes /\ \A n \in Nat : {<< >>, <<n>>} \in Sizes
  /\ \A o, w : Sized(o, {<< >>}, w) => NoLength(o)
<1>1. {<< >>} \in Sizes /\ \A n \in Nat : {<< >>, <<n>>} \in Sizes
  BY DEF Sizes
<1>2. ASSUME NEW o, NEW w, Sized(o, {<< >>}, w) PROVE NoLength(o)
  BY <1>2 DEF Sized, NoLength
<1> QED
  BY <1>1, <1>2

\* What a result without a Content-Length does.
Serves(o, r) == Fit(r) /\ (Bare(o) => Bare(r)) /\ (NoLength(o) => NoLength(r))

LEMMA PageServes ==
  ASSUME NEW o, NEW r, NEW n, PageWritten(o, r, n)
  PROVE  Serves(o, r)
  BY NoLengthFacts DEF PageWritten, Serves, NoLength

LEMMA ErrorChunks == <<"error">> \in Seq(Chunk) /\ "text/html" \in Text /\ "text/plain" \in Text /\ "" \in Text
  BY DEF Chunk, Text, compressableMimes

LEMMA ErrorServes ==
  ASSUME NEW o, Fit(o), NEW found, NEW r, r = ErrorResult(o, found)
  PROVE  Serves(o, r)
<1> DEFINE s == IF o.status = 0 THEN 500 ELSE o.status
<1>1. s \in Nat /\ 500 \in Nat
  BY OutFacts DEF Fit
<1>2. r = Page(o, s, "text/html", <<"error">>) \/ r = Page(o, 500, "text/plain", <<"error">>)
  BY DEF ErrorResult
<1> HIDE DEF s
<1>3. CASE r = Page(o, s, "text/html", <<"error">>)
  <2>1. PICK chunks, b : chunks = <<"error">> /\ b = "text/html"
    OBVIOUS
  <2>2. s \in Nat /\ b \in Text /\ chunks \in Seq(Chunk) /\ r = Page(o, s, b, chunks)
    BY <1>1, <1>3, <2>1, ErrorChunks
  <2>3. PageWritten(o, r, Len(chunks))
    BY ONLY <2>2, Fit(o), PageKeeps
  <2> QED
    BY <2>3, PageServes
<1>4. CASE r = Page(o, 500, "text/plain", <<"error">>)
  <2>1. PICK chunks, a, b : chunks = <<"error">> /\ a = 500 /\ b = "text/plain"
    OBVIOUS
  <2>3. a \in Nat /\ b \in Text /\ chunks \in Seq(Chunk) /\ r = Page(o, a, b, chunks)
    BY <1>1, <1>4, <2>1, ErrorChunks
  <2>2. PageWritten(o, r, Len(chunks))
    BY ONLY <2>3, Fit(o), PageKeeps
  <2> QED
    BY <2>2, PageServes
<1> QED
  BY <1>2, <1>3, <1>4

LEMMA ResultFacts ==
  ASSUME NEW r \in Result
  PROVE  /\ r.kind \in {"none", "error", "redirect", "template", "page", "binary"}
         /\ r.kind \in {"template", "page", "binary"} => r.chunks \in Seq(Chunk)
         /\ r.kind \in {"page", "binary"} => r.type \in Text
         /\ r.kind \in {"redirect", "template", "page", "binary"} => r.fails \in BOOLEAN
         /\ r.kind = "binary" /\ r.seeks => r.sized /\ ~r.fails
<1>1. Bodies \subseteq Seq(Chunk)
  BY BodyAssumption
<1>2. {"text/html", "application/json", "text/plain", "image/png"} \subseteq Text
  BY DEF Text, compressableMimes
<1> QED
  BY <1>1, <1>2 DEF Result

LEMMA EndedAfter ==
  ASSUME NEW o, NEW r, NEW n \in Nat, PageWritten(o, r, n), NoLength(o) \/ Sized(o, {<< >>, <<n>>}, 0)
  PROVE  Ended(r)
<1>1. CASE NoLength(o)
  BY <1>1, PageServes DEF Serves, Ended
<1>2. CASE Sized(o, {<< >>, <<n>>}, 0)
  <2>1. Sized(r, {<< >>, <<n>>}, n)
    BY <1>2, NoLengthFacts DEF PageWritten
  <2> QED
    BY <2>1 DEF Ended
<1> QED
  BY <1>1, <1>2

\* What every result does.
Fulfils(o, r) == Fit(r) /\ (Bare(o) => Bare(r)) /\ (method = "GET" => Ended(r))

LEMMA ServesFulfils ==
  ASSUME NEW o, NEW r, Serves(o, r), NoLength(o)
  PROVE  Fulfils(o, r)
  BY DEF Serves, Fulfils, Ended

LEMMA RenderErrorServes ==
  ASSUME NEW o, Fit(o), NEW found, NEW r, r = renderError(o, found)
  PROVE  Serves(o, r)
<1>1. PICK x : x = [o EXCEPT !.status = 500]
  OBVIOUS
<1>2. Same(o, x)
  <2>1. o \in Out
    BY DEF Fit
  <2>2. PICK s : s = 500
    OBVIOUS
  <2>3. s \in Nat /\ x = [o EXCEPT !.status = s]
    BY <1>1, <2>2
  <2> QED
    BY <2>1, <2>3 DEF Out, Same
<1>3. Keeps(o, x)
  BY <1>2, SameKeeps
<1>4. Fit(x) /\ r = ErrorResult(x, found)
  BY <1>1, <1>3 DEF Keeps, renderError
<1>5. Serves(x, r)
  BY <1>4, ErrorServes
<1> QED
  BY <1>3, <1>5 DEF Serves, Keeps, NoLength

LEMMA TemplateFulfils ==
  ASSUME NEW o, Fit(o), NoLength(o), NEW r \in Result, r.kind = "template",
         NEW x, x = Template(o, r)
  PROVE  Fulfils(o, x)
<1> DEFINE page  == IF method = "HEAD" THEN << >> ELSE r.chunks
           n     == Len(r.chunks)
           sized == IF mode = "length" THEN HeaderSet(o, "Content-Length", n) ELSE o
           type  == "text/html"
           ok    == 200
<1>1. r.chunks \in Seq(Chunk) /\ r.fails \in BOOLEAN /\ n \in Nat
  BY ResultFacts
<1>2. page \in Seq(Chunk) /\ (method = "GET" => Len(page) = n)
  BY <1>1
<1>3. type \in Text /\ ok \in Nat
  <2>1. type \in Text
    BY ErrorChunks
  <2>2. ok \in Nat
    OBVIOUS
  <2> QED
    BY <2>1, <2>2
<1>4. /\ mode = "stream" /\ r.fails => x = renderError(Page(o, ok, type, page), r.found)
      /\ mode = "stream" /\ ~r.fails => x = Page(o, ok, type, page)
      /\ mode # "stream" /\ r.fails => x = renderError(o, r.found)
      /\ mode # "stream" /\ ~r.fails => x = Page(sized, ok, type, page)
  BY DEF Template
<1>5. Fit(sized) /\ (Bare(o) => Bare(sized)) /\ (NoLength(sized) \/ Sized(sized, {<< >>, <<n>>}, 0))
  <2>1. CASE mode = "length"
    <3>1. sized = HeaderSet(o, "Content-Length", n)
      BY <2>1
    <3> HIDE DEF sized, n
    <3> QED
      BY <1>1, <3>1, LengthSized DEF NoLength
  <2>2. CASE mode # "length"
    BY <2>2
  <2> QED
    BY <2>1, <2>2
<1> HIDE DEF page, sized, type, ok, n
<1>6. PICK y, found : y = Page(o, ok, type, page) /\ found = r.found
  OBVIOUS
<1>7. PageWritten(o, y, Len(page))
  BY <1>2, <1>3, <1>6, PageKeeps
<1>8. Serves(o, y)
  BY <1>7, PageServes
<1>9. CASE mode = "stream" /\ r.fails
  <2>1. Fit(y) /\ x = renderError(y, found)
    BY <1>4, <1>6, <1>8, <1>9 DEF Serves
  <2>2. Serves(y, x)
    BY <2>1, RenderErrorServes
  <2>3. Serves(o, x)
    BY <1>8, <2>2 DEF Serves
  <2> QED
    BY <2>3, ServesFulfils
<1>10. CASE mode = "stream" /\ ~r.fails
  BY <1>4, <1>6, <1>8, <1>10, ServesFulfils
<1>11. CASE mode # "stream" /\ r.fails
  <2>1. x = renderError(o, found)
    BY <1>4, <1>6, <1>11
  <2> QED
    BY <2>1, RenderErrorServes, ServesFulfils
<1>12. CASE mode # "stream" /\ ~r.fails
  <2>1. x = Page(sized, ok, type, page)
    BY <1>4, <1>12
  <2>2. PageWritten(sized, x, Len(page))
    BY <1>2, <1>3, <1>5, <2>1, PageKeeps
  <2>3. method = "GET" => Ended(x)
    <3> SUFFICES ASSUME method = "GET" PROVE Ended(x)
      OBVIOUS
    <3>1. PageWritten(sized, x, n)
      BY <1>2, <2>2
    <3> QED
      BY <1>1, <1>5, <3>1, EndedAfter
  <2> QED
    BY <1>5, <2>2, <2>3 DEF Fulfils, PageWritten
<1> QED
  BY <1>1, <1>9, <1>10, <1>11, <1>12

LEMMA RenderedFulfils ==
  ASSUME NEW o, Fit(o), NoLength(o), NEW r \in Result, r.kind = "page",
         NEW x, x = Rendered(o, r)
  PROVE  Fulfils(o, x)
<1>1. PICK ok, type, chunks, found : ok = 200 /\ type = r.type /\ chunks = r.chunks /\ found = r.found
  OBVIOUS
<1>2. type \in Text /\ ok \in Nat /\ chunks \in Seq(Chunk)
  BY <1>1, ResultFacts
<1>3. x = ErrorResult(o, found) \/ x = Page(o, ok, type, chunks)
  BY <1>1 DEF Rendered
<1>4. CASE x = ErrorResult(o, found)
  BY <1>4, ErrorServes, ServesFulfils
<1>5. CASE x = Page(o, ok, type, chunks)
  BY <1>2, <1>5, PageKeeps, PageServes, ServesFulfils
<1> QED
  BY <1>3, <1>4, <1>5

LEMMA RedirectFulfils ==
  ASSUME NEW o, Fit(o), NoLength(o), NEW r \in Result, NEW x, x = Redirect(o, r)
  PROVE  Fulfils(o, x)
<1>0. PICK status \in Nat : status = 302
  OBVIOUS
<1>1. PICK type, k, v, found : type = "" /\ k = "X" /\ v = "url" /\ found = r.found
  OBVIOUS
<1> DEFINE y == HeaderSet(o, k, v)
<1>2. x = ErrorResult(o, found) \/ x = ResponseWriteHeader(y, status, type)
  BY <1>0, <1>1 DEF Redirect
<1>3. CASE x = ErrorResult(o, found)
  BY <1>3, ErrorServes, ServesFulfils
<1>4. CASE x = ResponseWriteHeader(y, status, type)
  <2>1. type \in Text /\ v \in Atom /\ k \in Header \ {"Set-Cookie", "Content-Length"}
        /\ k # "Content-Encoding"
    <3>2. type \in Text
      BY <1>1, ErrorChunks
    <3>3. v \in Atom
      BY <1>1 DEF Atom, Text
    <3>4. k \in Header \ {"Set-Cookie", "Content-Length"} /\ k # "Content-Encoding"
      BY <1>1, HeaderNames
    <3> QED
      BY <3>2, <3>3, <3>4
  <2>2. PICK u : u = <<v>>
    OBVIOUS
  <2>3. Changed(o, y, k, u)
    BY <2>1, <2>2, HeaderSetFacts DEF Fit
  <2> HIDE DEF y
  <2>4. Keeps(o, y)
    BY <2>1, <2>3, ChangedKeeps
  <2>5. Keeps(y, x)
    BY <1>4, <2>1, <2>4, HeadKeeps DEF Keeps
  <2>6. Keeps(o, x)
    BY <2>4, <2>5, KeepsOn
  <2> QED
    BY <2>6 DEF Keeps, Fulfils, Ended, NoLength
<1> QED
  BY <1>2, <1>3, <1>4

LEMMA WriteAllEnded ==
  ASSUME NEW o, Fit(o), NEW chunks \in Seq(Chunk), NoLength(o) \/ Sized(o, {<< >>, <<Len(chunks)>>}, 0),
         NEW x, x = WriteAll(o, chunks)
  PROVE  Fit(x) /\ (Bare(o) => Bare(x)) /\ Ended(x)
<1>1. AllWritten(o, x, Len(chunks))
  BY WriteAllWrites
<1>2. PageWritten(o, x, Len(chunks))
  BY <1>1 DEF AllWritten, PageWritten
<1>3. Ended(x)
  <2>1. PICK n \in Nat : n = Len(chunks)
    OBVIOUS
  <2>2. PageWritten(o, x, n) /\ (NoLength(o) \/ Sized(o, {<< >>, <<n>>}, 0))
    BY <1>2, <2>1
  <2> QED
    BY <2>2, EndedAfter
<1> QED
  BY <1>2, <1>3 DEF PageWritten

\* http.ServeContent: the header goes out before the page.
SentNow(o, z) ==
  z \in Out /\ z.writer = o.writer /\ z.status = o.status /\ z.contentType = o.contentType
  /\ z.net = NetWriteHeader(o.net, 200)

LEMMA SentNowFacts ==
  ASSUME NEW o \in Out, NEW z, z = [o EXCEPT !.net = NetWriteHeader(o.net, 200)]
  PROVE  SentNow(o, z)
<1>1. PICK n : n = NetWriteHeader(o.net, 200)
  OBVIOUS
<1>2. n \in Net
  <2>1. o.net \in Net
    BY OutFacts
  <2>2. PICK m, s : m = o.net /\ s = 200
    OBVIOUS
  <2>3. m \in Net /\ s \in Nat /\ n = NetWriteHeader(m, s)
    BY <1>1, <2>1, <2>2
  <2> QED
    BY ONLY <2>3, NetWriteHeaderFacts
<1>3. z = [o EXCEPT !.net = n]
  BY <1>1
<1>4. /\ z \in Out /\ z.net = n /\ z.writer = o.writer
      /\ z.status = o.status /\ z.contentType = o.contentType
  BY ONLY <1>2, <1>3, o \in Out DEF Out
<1> QED
  BY <1>1, <1>4 DEF SentNow

\* The length of the page, if it is set: v is its header.
Measured(o, y, n) == y = o \/ (y = HeaderSet(o, "Content-Length", n) /\ Changed(o, y, "Content-Length", <<n>>))

LEMMA MeasuredFacts ==
  ASSUME NEW o, Fit(o), NoLength(o), NEW n \in Nat, NEW y, y = o \/ y = HeaderSet(o, "Content-Length", n)
  PROVE  /\ Measured(o, y, n) /\ Fit(y) /\ (Bare(o) => Bare(y)) /\ (y.writer = None) = (o.writer = None)
         /\ NoLength(y) \/ Sized(y, {<< >>, <<n>>}, 0)
<1>1. CASE y = o
  BY <1>1 DEF Measured
<1>2. CASE y = HeaderSet(o, "Content-Length", n)
  <2>1. n \in Atom /\ "Content-Length" \in Header /\ o \in Out
    BY HeaderNames DEF Atom, Fit
  <2>2. Changed(o, y, "Content-Length", <<n>>)
    BY <1>2, <2>1, HeaderSetFacts
  <2>3. Fit(y) /\ Sized(y, {<< >>, <<n>>}, 0) /\ (Bare(o) => Bare(y))
    BY <1>2, LengthSized DEF NoLength
  <2>4. (y.writer = None) = (o.writer = None)
    BY <2>2 DEF Changed, Buffers
  <2> QED
    BY <1>2, <2>2, <2>3, <2>4 DEF Measured
<1> QED
  BY <1>1, <1>2

\* The two headers of http.ServeContent are set.
OffersMade(o, a) ==
  \E m, v, u : (m = o \/ Changed(o, m, "Last-Modified", v)) /\ Changed(m, a, "Accept-Ranges", u)

LEMMA OffersFacts ==
  ASSUME NEW o \in Out, NEW r, NEW m, NEW a,
         m = IF r.dated THEN HeaderSet(o, "Last-Modified", "date") ELSE o,
         a = HeaderSet(m, "Accept-Ranges", "bytes")
  PROVE  OffersMade(o, a)
<1>1. PICK x, y, j, k : x = "date" /\ y = "bytes" /\ j = "Last-Modified" /\ k = "Accept-Ranges"
  OBVIOUS
<1>2. x \in Atom /\ y \in Atom /\ j \in Header /\ k \in Header
  BY <1>1, HeaderNames DEF Atom, Text
<1>3. PICK v, u : v = <<x>> /\ u = <<y>>
  OBVIOUS
<1>4. m = o \/ m = HeaderSet(o, j, x)
  BY <1>1
<1>5. m = o \/ Changed(o, m, j, v)
  BY <1>2, <1>3, <1>4, HeaderSetFacts
<1>6. m \in Out
  BY <1>5 DEF Changed
<1>7. a = HeaderSet(m, k, y)
  BY <1>1
<1>8. Changed(m, a, k, u)
  BY <1>2, <1>3, <1>6, <1>7, HeaderSetFacts
<1> QED
  BY <1>1, <1>5, <1>8 DEF OffersMade

LEMMA OffersKeep ==
  ASSUME NEW o, Fit(o), o.writer = None, NEW a, OffersMade(o, a)
  PROVE  Keeps(o, a) /\ a.writer = None
<1>1. PICK m, v, u : (m = o \/ Changed(o, m, "Last-Modified", v)) /\ Changed(m, a, "Accept-Ranges", u)
  BY DEF OffersMade
<1>2. PICK j, k : j = "Last-Modified" /\ k = "Accept-Ranges"
  OBVIOUS
<1>3. /\ j \in Header \ {"Set-Cookie", "Content-Length"} /\ j # "Content-Encoding"
      /\ k \in Header \ {"Set-Cookie", "Content-Length"} /\ k # "Content-Encoding"
  BY <1>2, HeaderNames
<1>4. (m = o \/ Changed(o, m, j, v)) /\ Changed(m, a, k, u)
  BY <1>1, <1>2
<1>5. m = o \/ Keeps(o, m)
  BY <1>3, <1>4, ChangedKeeps
<1>6. Fit(m)
  BY <1>5 DEF Keeps
<1>7. Keeps(m, a)
  BY <1>3, <1>4, <1>6, ChangedKeeps
<1>8. Keeps(o, a)
  BY <1>5, <1>7, KeepsOn
<1>9. m.writer = None
  BY <1>4 DEF Changed, Buffers
<1>10. a.writer = None
  BY <1>4, <1>9 DEF Changed, Buffers
<1> QED
  BY <1>8, <1>10

ServedFrom(o, r, a, y, z) ==
  /\ OffersMade(o, a)
  /\ y = a \/ y = HeaderSet(a, "Content-Length", Len(r.chunks))
  /\ z = [y EXCEPT !.net = NetWriteHeader(y.net, 200)]

LEMMA ServeContentFacts ==
  ASSUME NEW o \in Out, NEW r
  PROVE  \E a, y, z : /\ ServedFrom(o, r, a, y, z)
                      /\ ServeContent(o, r) = WriteAll(z, IF method = "HEAD" THEN << >> ELSE r.chunks)
<1> DEFINE m == IF r.dated THEN HeaderSet(o, "Last-Modified", "date") ELSE o
           a == HeaderSet(m, "Accept-Ranges", "bytes")
           y == IF a.net.header["Content-Encoding"] = << >>
                THEN HeaderSet(a, "Content-Length", Len(r.chunks)) ELSE a
           z == [y EXCEPT !.net = NetWriteHeader(y.net, 200)]
<1>1. ServeContent(o, r) = WriteAll(z, IF method = "HEAD" THEN << >> ELSE r.chunks)
  BY DEF ServeContent
<1>2. OffersMade(o, a)
  BY OffersFacts
<1> HIDE DEF a
<1>3. y = a \/ y = HeaderSet(a, "Content-Length", Len(r.chunks))
  OBVIOUS
<1> HIDE DEF y
<1>4. ServedFrom(o, r, a, y, z)
  BY <1>2, <1>3 DEF ServedFrom
<1> HIDE DEF z
<1> QED
  BY <1>1, <1>4

LEMMA ServeContentFulfils ==
  ASSUME NEW o, Fit(o), NoLength(o), o.writer = None, NEW r, r.chunks \in Seq(Chunk),
         NEW x, x = ServeContent(o, r)
  PROVE  Fulfils(o, x)
<1> DEFINE page == IF method = "HEAD" THEN << >> ELSE r.chunks
           n    == Len(r.chunks)
<1>1. page \in Seq(Chunk) /\ n \in Nat /\ (method = "GET" => Len(page) = n)
  OBVIOUS
<1>2. PICK a, y, z : ServedFrom(o, r, a, y, z) /\ x = WriteAll(z, page)
  BY ServeContentFacts DEF Fit
<1>3. y = a \/ y = HeaderSet(a, "Content-Length", n)
  BY <1>2 DEF ServedFrom
<1> HIDE DEF page, n
<1>10. Fit(a) /\ NoLength(a) /\ (Bare(o) => Bare(a)) /\ a.writer = None
  BY <1>2, OffersKeep DEF ServedFrom, Keeps, NoLength
<1>4. /\ Fit(y) /\ (Bare(o) => Bare(y)) /\ y.writer = None
      /\ NoLength(y) \/ Sized(y, {<< >>, <<n>>}, 0)
  BY <1>1, <1>3, <1>10, MeasuredFacts
<1>5. SentNow(y, z)
  BY <1>2, <1>4, SentNowFacts DEF ServedFrom, Fit
<1>6. Keeps(y, z)
  <2>1. ~Buffers(y) /\ z \in Out /\ z.writer = y.writer /\ z.net = NetWriteHeader(y.net, 200)
    BY <1>4, <1>5 DEF SentNow, Buffers
  <2>2. PICK s \in Nat : s = 200
    OBVIOUS
  <2>3. z.net = NetWriteHeader(y.net, s)
    BY <2>1, <2>2
  <2> QED
    BY <1>4, <2>1, <2>3, NetModes
<1>7. Fit(z) /\ (Bare(o) => Bare(z)) /\ (NoLength(z) \/ Sized(z, {<< >>, <<n>>}, 0))
  BY <1>4, <1>6 DEF Keeps, NoLength
<1>8. Fit(x) /\ (Bare(z) => Bare(x))
  <2>1. AllWritten(z, x, Len(page))
    BY <1>1, <1>2, <1>7, WriteAllWrites
  <2> QED
    BY <2>1 DEF AllWritten
<1>9. ASSUME method = "GET" PROVE Ended(x)
  <2>1. NoLength(z) \/ Sized(z, {<< >>, <<Len(page)>>}, 0)
    BY <1>1, <1>7, <1>9
  <2> QED
    BY <1>1, <1>2, <1>7, <2>1, WriteAllEnded
<1> QED
  BY <1>7, <1>8, <1>9 DEF Fulfils

LEMMA CopiedFulfils ==
  ASSUME NEW o, Fit(o), NoLength(o), NEW r, r.chunks \in Seq(Chunk), r.fails = FALSE,
         NEW x, x = Copied(o, r)
  PROVE  Fulfils(o, x)
<1> DEFINE n     == Len(r.chunks)
           sized == IF r.sized THEN HeaderSet(o, "Content-Length", n) ELSE o
<1>1. x = WriteAll(sized, r.chunks)
  BY DEF Copied
<1>2. n \in Nat /\ (sized = o \/ sized = HeaderSet(o, "Content-Length", n))
  OBVIOUS
<1> HIDE DEF sized
<1>3. Fit(sized) /\ (Bare(o) => Bare(sized)) /\ (NoLength(sized) \/ Sized(sized, {<< >>, <<n>>}, 0))
  BY <1>2, MeasuredFacts
<1>4. Fit(x) /\ (Bare(sized) => Bare(x)) /\ Ended(x)
  BY <1>1, <1>3, WriteAllEnded
<1> QED
  BY <1>3, <1>4 DEF Fulfils

\* The Content-Type a binary result sets.
BinaryType(o, r) == IF o.contentType = "" THEN r.type ELSE o.contentType
Undisturbed(r)   == r.kind = "binary" => r.fails = FALSE /\ r.unmodified = FALSE

LEMMA BinaryFacts ==
  ASSUME NEW o \in Out, NEW r \in Result, r.kind = "binary", Undisturbed(r)
  PROVE  LET y == HeaderSet(o, "Content-Type", BinaryType(o, r))
         IN  /\ Changed(o, y, "Content-Type", <<BinaryType(o, r)>>)
             /\ Binary(o, r) = IF y.writer = None /\ r.seeks THEN ServeContent(y, r) ELSE Copied(y, r)
<1> DEFINE t == BinaryType(o, r)
           y == HeaderSet(o, "Content-Type", t)
<1>1. t \in Atom
  BY OutFacts, ResultFacts DEF BinaryType, Atom
<1>2. Changed(o, y, "Content-Type", <<t>>)
  <2> HIDE DEF t
  <2> QED
    BY <1>1, HeaderNames, HeaderSetFacts
<1>3. Binary(o, r) = IF y.writer = None /\ r.seeks THEN ServeContent(y, r) ELSE Copied(y, r)
  <2>1. Binary(o, r) = WriteStream(y, r)
    BY DEF Binary, BinaryType
  <2> HIDE DEF y
  <2> QED
    BY <2>1 DEF WriteStream, Undisturbed
<1> QED
  BY <1>2, <1>3

LEMMA BinaryFulfils ==
  ASSUME NEW o, Fit(o), NoLength(o), NEW r \in Result, r.kind = "binary", Undisturbed(r),
         NEW x, x = Binary(o, r)
  PROVE  Fulfils(o, x)
<1> DEFINE t == BinaryType(o, r)
<1>1. PICK y, v : y = HeaderSet(o, "Content-Type", t) /\ v = <<t>>
  OBVIOUS
<1>2. Changed(o, y, "Content-Type", v) /\ x = IF y.writer = None /\ r.seeks THEN ServeContent(y, r) ELSE Copied(y, r)
  BY <1>1, BinaryFacts DEF Fit
<1>3. Keeps(o, y)
  BY <1>2, HeaderNames, ChangedKeeps
<1>4. r.chunks \in Seq(Chunk) /\ r.fails = FALSE
  BY ResultFacts DEF Undisturbed
<1>5. Fulfils(y, x)
  BY <1>2, <1>3, <1>4, ServeContentFulfils, CopiedFulfils DEF Keeps, NoLength
<1> QED
  BY <1>3, <1>5 DEF Keeps, Fulfils

LEMMA MadeSame ==
  ASSUME NEW o \in Out, NEW r \in Result, NEW x, x = Made(o, r)
  PROVE  Same(o, x) /\ x.contentType = o.contentType
         /\ x.status = IF o.status # 0 \/ r.kind = "none" THEN o.status
                       ELSE CASE r.kind = "redirect" -> 302
                              [] r.kind = "error" -> IF r.rendering THEN 200 ELSE 500
                              [] OTHER -> 200
<1>1. r.kind \in {"none", "error", "redirect", "template", "page", "binary"}
  BY ResultFacts
<1> DEFINE s == CASE r.kind \in {"page", "template", "binary"} -> 200
                  [] r.kind = "redirect" -> 302
                  [] r.kind = "error"    -> IF r.rendering THEN 200 ELSE 500
                  [] r.kind = "none"     -> 0
<1>2. s = IF r.kind = "none" THEN 0
          ELSE CASE r.kind = "redirect" -> 302
                 [] r.kind = "error" -> IF r.rendering THEN 200 ELSE 500
                 [] OTHER -> 200
  BY <1>1
<1>3. s \in Nat
  <2>1. s = 0 \/ s = 302 \/ s = 200 \/ s = 500
    <3>1. r.kind = "none" => s = 0
      BY <1>2
    <3>2. r.kind = "redirect" => s = 302
      BY <1>2
    <3>3. r.kind = "error" => s = 200 \/ s = 500
      BY <1>2
    <3>4. r.kind \notin {"none", "redirect", "error"} => s = 200
      BY <1>2
    <3> QED
      BY <3>1, <3>2, <3>3, <3>4
  <2> HIDE DEF s
  <2> QED
    BY <2>1
<1>4. x = IF o.status = 0 THEN [o EXCEPT !.status = s] ELSE o
  BY DEF Made
<1> HIDE DEF s
<1>5. CASE o.status = 0
  <2>1. x = [o EXCEPT !.status = s]
    BY <1>4, <1>5
  <2>2. Same(o, x) /\ x.status = s /\ x.contentType = o.contentType
    BY <1>3, <2>1 DEF Out, Same
  <2> QED
    BY <1>2, <1>5, <2>2
<1>6. CASE o.status # 0
  BY <1>4, <1>6 DEF Same
<1> QED
  BY <1>5, <1>6

LEMMA ApplyFulfils ==
  ASSUME NEW o, Fit(o), NoLength(o), NEW r \in Result, Undisturbed(r),
         NEW x, x = Apply(Made(o, r), r)
  PROVE  Fulfils(o, x)
<1>1. PICK m : m = Made(o, r)
  OBVIOUS
<1>2. Same(o, m)
  BY <1>1, MadeSame DEF Fit
<1>3. Keeps(o, m)
  BY <1>2, SameKeeps
<1>4. Fit(m) /\ NoLength(m) /\ x = Apply(m, r)
  BY <1>1, <1>3 DEF Keeps, NoLength
<1>5. r.kind \in {"none", "error", "redirect", "template", "page", "binary"}
  BY ResultFacts
<1>6. Fulfils(m, x)
  <2>1. CASE r.kind = "none"
    <3>1. x = m \/ x = SetStatus(m, m.status)
      BY <1>4, <2>1 DEF Apply
    <3>2. Keeps(m, x)
      <4>1. m.status \in Nat
        BY <1>4, OutFacts DEF Fit
      <4>2. Keeps(m, m)
        BY <1>4 DEF Keeps
      <4> QED
        BY <1>4, <3>1, <4>1, <4>2, StatusKeeps
    <3> QED
      BY <1>4, <3>2 DEF Keeps, Fulfils, Ended, NoLength
  <2>2. CASE r.kind = "page"
    BY <1>4, <2>2, RenderedFulfils DEF Apply
  <2>3. CASE r.kind = "template"
    BY <1>4, <2>3, TemplateFulfils DEF Apply
  <2>4. CASE r.kind = "redirect"
    BY <1>4, <2>4, RedirectFulfils DEF Apply
  <2>5. CASE r.kind = "error"
    <3>1. PICK found : x = ErrorResult(m, found)
      BY <1>4, <2>5 DEF Apply
    <3> QED
      BY <1>4, <3>1, ErrorServes, ServesFulfils
  <2>6. CASE r.kind = "binary"
    BY <1>4, <2>6, BinaryFulfils DEF Apply
  <2> QED
    BY <1>5, <2>1, <2>2, <2>3, <2>4, <2>5, <2>6
<1> QED
  BY <1>3, <1>6 DEF Keeps, Fulfils

-----------------------------------------------------------------------------
(* The results on both sides.                                                 *)
LEMMA AlikeWeaken ==
  ASSUME NEW p, NEW c, NEW T, NEW F, NEW verb, Alike(p, c, T, F, verb), NEW G, F \subseteq G
  PROVE  Alike(p, c, T, G, verb)
  BY DEF Alike, Before, StatusWaits, Behind, StatusSent

\* A status that is set now is the one that goes out, or that of a failure.
Ready(p, c, F) ==
  Waiting(c) => \/ p.net.sent = None
                \/ /\ p.status \in F \ {0} /\ p.contentType # ""
                   /\ Shown(p, "Content-Type") = <<p.contentType>>

LEMMA BufferFacts ==
  ASSUME NEW o, NEW r
  PROVE  /\ \A k, v : Changed(o, r, k, v) => Buffers(r) = Buffers(o)
         /\ Same(o, r) => Buffers(r) = Buffers(o)
         /\ Fit(o) => (Waiting(o) <=> Buffers(o))
<1>1. ASSUME NEW k, NEW v, Changed(o, r, k, v) PROVE Buffers(r) = Buffers(o)
  BY <1>1 DEF Changed, SameWriter, Buffers
<1>2. Same(o, r) => Buffers(r) = Buffers(o)
  BY DEF Same, Buffers
<1>3. Fit(o) => (Waiting(o) <=> Buffers(o))
  BY ModeFacts DEF Fit
<1> QED
  BY <1>1, <1>2, <1>3

LEMMA StatusBuffers ==
  ASSUME NEW o \in Out, NEW s \in Nat, NEW r, r = SetStatus(o, s)
  PROVE  Buffers(r) = Buffers(o)
  BY SetStatusFacts DEF Buffers

\* The response is sent with the type that is set, and status s.
Typed(q, d) == Waiting(d) => Shown(q, "Content-Type") = <<q.contentType>>

LEMMA AlikeHead ==
  ASSUME NEW p, NEW c, NEW T, NEW F, NEW verb, Alike(p, c, T, F, verb), Ready(p, c, F),
         NEW status \in Nat, status > 0, NEW type \in Text,
         NEW q, NEW d, q = ResponseWriteHeader(p, status, type), d = ResponseWriteHeader(c, status, type)
  PROVE  Alike(q, d, T, F, verb) /\ Typed(q, d)
<1> DEFINE s == HeadStatus(p, status)
           t == HeadType(p, type)
<1>1. p \in Out /\ c \in Out /\ Fit(p) /\ Fit(c) /\ ~Buffers(p) /\ Bare(p)
  BY AlikeFit, ModeFacts DEF Alike
<1>2. s \in Nat /\ s > 0
  BY <1>1, OutFacts DEF HeadStatus
<1>3. s = HeadStatus(c, status) /\ t = HeadType(c, type)
  BY DEF Alike, HeadStatus, HeadType
<1>4. Waiting(c) => p.net.sent = None \/ (s \in F /\ Shown(p, "Content-Type") = <<t>>)
  BY DEF Ready, HeadStatus, HeadType
<1>5. PICK y, x : HeadSteps(p, y, x, q, s, t)
  BY <1>1, HeadFacts
<1>6. PICK z, w : HeadSteps(c, z, w, d, s, t)
  <2>1. \E z, w : HeadSteps(c, z, w, d, HeadStatus(c, status), HeadType(c, type))
    BY <1>1, HeadFacts
  <2> QED
    BY <1>3, <2>1
<1>7. q.contentType = t
  BY <1>1, HeadKeeps
<1> HIDE DEF s, t
<1>8. PICK k, v : k = "Content-Type" /\ v = <<t>>
  OBVIOUS
<1>9. k \in Header \ {"Set-Cookie", "Content-Length"} /\ k # "Content-Encoding"
  BY <1>8, HeaderNames
<1>10. Changed(p, y, k, v) /\ Changed(c, z, k, v)
  BY <1>5, <1>6, <1>8 DEF HeadSteps
<1>11. c = p => z = y
  BY <1>5, <1>6 DEF HeadSteps
<1>12. Alike(y, z, T, F, verb)
  <2>1. Waiting(c) => p.net.sent = None \/ Shown(p, k) = v
    BY <1>4, <1>8
  <2>2. \E e : v = <<e>>
    BY <1>8
  <2>3. T \subseteq T
    OBVIOUS
  <2> QED
    BY <1>9, <1>10, <1>11, <2>1, <2>2, <2>3, AlikeChanged
<1>13. /\ Same(y, x) /\ x.status = s /\ x.contentType = t
       /\ Same(z, w) /\ w.status = s /\ w.contentType = t
       /\ q = SetStatus(x, s) /\ d = SetStatus(w, s)
  BY <1>5, <1>6 DEF HeadSteps
<1>14. Alike(x, w, T, F, verb)
  BY <1>12, <1>13, AlikeSame
<1>15. x \in Out /\ w \in Out /\ Fit(w)
  BY <1>14, AlikeFit
<1>16. x.net.sent = p.net.sent
  BY <1>10, <1>13 DEF Changed, Same
<1>17. Buffers(w) = Buffers(c)
  BY <1>10, <1>13, BufferFacts
<1>18. Waiting(w) => Waiting(c)
  BY <1>1, <1>15, <1>17, BufferFacts
<1>19. Alike(q, d, T, F, verb)
  <2>1. Waiting(w) => x.net.sent = None \/ s \in F
    BY <1>4, <1>16, <1>18
  <2> QED
    BY <1>2, <1>13, <1>14, <2>1, AlikeStatus
<1>20. ASSUME Waiting(d) PROVE Shown(q, k) = v
  <2>1. Waiting(c)
    <3>1. Buffers(d) = Buffers(w)
      BY <1>2, <1>13, <1>15, StatusBuffers
    <3>2. Buffers(d)
      BY <1>20, ModeFacts
    <3> QED
      BY <1>1, <1>17, <3>1, <3>2, BufferFacts
  <2>2. q.net = NetWriteHeader(x.net, s)
    <3>1. ~Buffers(x)
      BY <1>1, <1>10, <1>13, BufferFacts
    <3> QED
      BY <1>2, <1>13, <1>15, <3>1, SetStatusFacts
  <2>3. /\ q.net.sent # None
        /\ x.net.sent # None => q.net.sent = x.net.sent
        /\ x.net.sent = None => q.net.sent.header = x.net.header
    <3>1. x.net \in Net
      BY <1>15, OutFacts
    <3>2. LET r == NetWriteHeader(x.net, s)
          IN  /\ r.sent # None
              /\ x.net.sent # None => r = x.net
              /\ x.net.sent = None => r.sent = [status |-> s, header |-> x.net.header]
      BY <1>2, <3>1, NetWriteHeaderFacts
    <3> QED
      BY <2>2, <3>2
  <2>4. CASE p.net.sent = None
    <3>1. y.net.header[k] = v
      <4>1. \A e \in Header : At(y, e) = IF e = k THEN v ELSE At(p, e)
        BY <1>1, <1>9, <1>10, ChangedAt
      <4>2. ~Buffers(y)
        BY <1>1, <1>10, BufferFacts
      <4> QED
        BY <1>9, <4>1, <4>2 DEF At
    <3> QED
      BY <1>13, <1>16, <2>3, <2>4, <3>1 DEF Shown, Same
  <2>5. CASE p.net.sent # None
    BY <1>4, <1>8, <1>16, <2>1, <2>3, <2>5 DEF Shown
  <2> QED
    BY <2>4, <2>5
<1> QED
  BY <1>7, <1>8, <1>19, <1>20 DEF Typed

LEMMA AlikePage ==
  ASSUME NEW p, NEW c, NEW T, T \subseteq Loose, NEW F, NEW verb, Alike(p, c, T, F, verb), Ready(p, c, F),
         NEW status \in Nat, status > 0, NEW type \in Text, NEW chunks \in Seq(Chunk),
         NEW q, NEW d, q = Page(p, status, type, chunks), d = Page(c, status, type, chunks)
  PROVE  Alike(q, d, T, F, verb) /\ Typed(q, d)
<1>1. PICK x, y : x = ResponseWriteHeader(p, status, type) /\ y = ResponseWriteHeader(c, status, type)
  OBVIOUS
<1>2. Alike(x, y, T, F, verb) /\ Typed(x, y)
  BY <1>1, AlikeHead
<1>3. q = WriteAll(x, chunks) /\ d = WriteAll(y, chunks)
  BY <1>1 DEF Page
<1>4. Alike(q, d, T, F, verb) /\ (Waiting(d) => y = d /\ x = q)
  <2>1. Alike(x, y, T, F, verb)
    BY <1>2
  <2>2. T \subseteq Loose
    OBVIOUS
  <2>3. chunks \in Seq(Chunk)
    OBVIOUS
  <2>4. q = WriteAll(x, chunks)
    BY <1>3
  <2>5. d = WriteAll(y, chunks)
    BY <1>3
  <2>6. AllAlike(x, y, q, d, T, F, verb)
    BY ONLY <2>1, <2>2, <2>3, <2>4, <2>5, AlikeWriteAll
  <2> QED
    BY <2>6 DEF AllAlike
<1> QED
  BY <1>2, <1>4 DEF Typed

LEMMA AlikeError ==
  ASSUME NEW p, NEW c, NEW T, T \subseteq Loose, NEW F, NEW verb, Alike(p, c, T, F, verb), Ready(p, c, F),
         NEW found, NEW q, NEW d, q = ErrorResult(p, found), d = ErrorResult(c, found)
  PROVE  Alike(q, d, T, F, verb)
<1> DEFINE s == IF p.status = 0 THEN 500 ELSE p.status
<1>1. PICK failure \in Nat : failure = 500
  OBVIOUS
<1>2. PICK html, text, chunks : html = "text/html" /\ text = "text/plain" /\ chunks = <<"error">>
  OBVIOUS
<1>3. html \in Text /\ text \in Text /\ chunks \in Seq(Chunk)
  BY <1>2, ErrorChunks
<1>4. s \in Nat /\ s > 0 /\ failure > 0
  <2>1. p.status \in Nat
    BY AlikeFit, OutFacts
  <2> QED
    BY <1>1, <2>1
<1>5. s = IF c.status = 0 THEN 500 ELSE c.status
  BY DEF Alike
<1>6. IF found THEN q = Page(p, s, html, chunks) /\ d = Page(c, s, html, chunks)
      ELSE q = Page(p, failure, text, chunks) /\ d = Page(c, failure, text, chunks)
  BY <1>1, <1>2, <1>5 DEF ErrorResult
<1> HIDE DEF s
<1> QED
  BY <1>3, <1>4, <1>6, AlikePage

LEMMA AlikeFailed ==
  ASSUME NEW p, NEW c, NEW T, T \subseteq Loose, NEW F, NEW verb, Alike(p, c, T, F, verb),
         NEW s \in Nat, s > 0,
         Waiting(c) => \/ p.net.sent = None
                       \/ /\ s \in F /\ p.contentType # ""
                          /\ Shown(p, "Content-Type") = <<p.contentType>>,
         NEW found, NEW q, NEW d,
         q = ErrorResult([p EXCEPT !.status = s], found), d = ErrorResult([c EXCEPT !.status = s], found)
  PROVE  Alike(q, d, T, F, verb)
<1>2. PICK x, y : x = [p EXCEPT !.status = s] /\ y = [c EXCEPT !.status = s]
  OBVIOUS
<1>3. p \in Out /\ c \in Out
  BY AlikeFit
<1>4. /\ Same(p, x) /\ x.status = s /\ x.contentType = p.contentType
      /\ Same(c, y) /\ y.status = s /\ y.contentType = c.contentType
  <2>1. Same(p, x) /\ x.status = s /\ x.contentType = p.contentType
    BY <1>2, <1>3 DEF Out, Same
  <2>2. Same(c, y) /\ y.status = s /\ y.contentType = c.contentType
    BY <1>2, <1>3 DEF Out, Same
  <2> QED
    BY <2>1, <2>2
<1>5. Alike(x, y, T, F, verb)
  <2>1. x.status = y.status /\ x.contentType = y.contentType
    BY <1>4 DEF Alike
  <2>2. Same(p, x) /\ Same(c, y)
    BY <1>4
  <2> QED
    BY <2>1, <2>2, AlikeSame
<1>6. Ready(x, y, F)
  <2>1. Waiting(y) => Waiting(c)
    <3>1. Same(y, c)
      BY <1>3, <1>4 DEF Same
    <3> QED
      BY <3>1, SameModes
  <2>2. x.net = p.net /\ Shown(x, "Content-Type") = Shown(p, "Content-Type")
    BY <1>4 DEF Same, Shown
  <2>3. s # 0
    BY ONLY s \in Nat, s > 0
  <2> QED
    BY <1>4, <2>1, <2>2, <2>3 DEF Ready
<1>7. q = ErrorResult(x, found) /\ d = ErrorResult(y, found)
  BY <1>2
<1> QED
  BY <1>5, <1>6, <1>7, AlikeError

\* The statuses of the failure of a result.
Failure     == {500}
Failures(r) == IF r.kind = "template" /\ r.fails /\ mode = "stream" THEN Failure ELSE {}

LEMMA FailureFacts == \E s \in Nat : s = 500 /\ s > 0 /\ s \in Failure
  BY DEF Failure

Unsent(p, c) == Waiting(c) => p.net.sent = None

LEMMA AlikeTemplate ==
  ASSUME NEW p, NEW c, NEW T, T \subseteq Loose, NEW verb, Alike(p, c, T, {}, verb), Unsent(p, c),
         NEW r \in Result, r.kind = "template",
         NEW q, NEW d, q = Template(p, r), d = Template(c, r)
  PROVE  Alike(q, d, T, Failures(r), verb)
<1> DEFINE page == IF method = "HEAD" THEN << >> ELSE r.chunks
           n    == Len(r.chunks)
           sized(o) == IF mode = "length" THEN HeaderSet(o, "Content-Length", n) ELSE o
           type  == "text/html"
           ok    == 200
<1>1. r.chunks \in Seq(Chunk) /\ r.fails \in BOOLEAN /\ n \in Nat
  BY ResultFacts
<1>2. page \in Seq(Chunk)
  BY <1>1
<1>3. type \in Text /\ ok \in Nat /\ ok > 0 /\ type # ""
  <2>1. type \in Text /\ type # ""
    BY ErrorChunks
  <2>2. ok \in Nat /\ ok > 0
    OBVIOUS
  <2> QED
    BY <2>1, <2>2
<1>4. ASSUME NEW o
      PROVE  /\ mode = "stream" /\ r.fails => Template(o, r) = renderError(Page(o, ok, type, page), r.found)
             /\ mode = "stream" /\ ~r.fails => Template(o, r) = Page(o, ok, type, page)
             /\ mode # "stream" /\ r.fails => Template(o, r) = renderError(o, r.found)
             /\ mode # "stream" /\ ~r.fails => Template(o, r) = Page(sized(o), ok, type, page)
  BY DEF Template
<1>5. PICK found : found = r.found
  OBVIOUS
<1>6. PICK x, y : x = sized(p) /\ y = sized(c)
  OBVIOUS
<1>7. Alike(x, y, T, {}, verb) /\ Unsent(x, y)
  <2>1. CASE mode = "length"
    <3>1. x = HeaderSet(p, "Content-Length", n) /\ y = HeaderSet(c, "Content-Length", n)
      BY <1>6, <2>1
    <3> HIDE DEF n
    <3>2. n \in Atom /\ "Content-Length" \in Header /\ p \in Out /\ c \in Out /\ Fit(c)
      BY <1>1, HeaderNames, AlikeFit DEF Atom
    <3>3. Changed(p, x, "Content-Length", <<n>>) /\ Changed(c, y, "Content-Length", <<n>>)
      BY <3>1, <3>2, HeaderSetFacts
    <3>4. c = p => y = x
      BY <3>1
    <3>5. PICK v : v = <<n>>
      OBVIOUS
    <3>6. Changed(p, x, "Content-Length", v) /\ Changed(c, y, "Content-Length", v)
      BY <3>3, <3>5
    <3>7. Alike(x, y, T, {}, verb)
      BY <3>4, <3>6, AlikeLength
    <3>8. x.net.sent = p.net.sent
      BY <3>6 DEF Changed
    <3>9. Waiting(y) => Waiting(c)
      <4>1. Fit(y)
        BY <3>7, AlikeFit
      <4>2. Buffers(y) = Buffers(c)
        BY <3>6, BufferFacts
      <4> QED
        BY <3>2, <4>1, <4>2, BufferFacts
    <3> QED
      BY <3>7, <3>8, <3>9 DEF Unsent
  <2>2. CASE mode # "length"
    BY <1>6, <2>2
  <2> QED
    BY <2>1, <2>2
<1>8. ASSUME NEW o, NEW u, NEW e, NEW f, NEW F, Alike(o, u, T, F, verb), Unsent(o, u),
             e = Page(o, ok, type, page), f = Page(u, ok, type, page)
      PROVE  Alike(e, f, T, F, verb) /\ Typed(e, f) /\ e.contentType # ""
  <2> HIDE DEF page, type, ok
  <2>1. Ready(o, u, F)
    BY <1>8 DEF Ready, Unsent
  <2>2. Alike(e, f, T, F, verb) /\ Typed(e, f)
    BY <1>2, <1>3, <1>8, <2>1, AlikePage
  <2>3. e.contentType # ""
    <3>1. Fit(o)
      BY <1>8, AlikeFit
    <3>2. PICK g : g = page
      OBVIOUS
    <3>3. g \in Seq(Chunk) /\ e = Page(o, ok, type, g) /\ type \in Text /\ ok \in Nat
      BY <1>2, <1>3, <1>8, <3>2
    <3>4. e.contentType = HeadType(o, type)
      BY ONLY <3>1, <3>3, PageKeeps
    <3> QED
      BY <1>3, <3>4 DEF HeadType
  <2> QED
    BY <2>2, <2>3
<1>9. Alike(p, c, T, Failure, verb)
  <2>1. {} \subseteq Failure
    OBVIOUS
  <2> QED
    BY <2>1, AlikeWeaken
<1>10. CASE mode = "stream" /\ r.fails
  <2>1. Failures(r) = Failure
    BY <1>10 DEF Failures
  <2> DEFINE e == Page(p, ok, type, page)
             f == Page(c, ok, type, page)
  <2>2. Alike(e, f, T, Failure, verb) /\ Typed(e, f) /\ e.contentType # ""
    <3> HIDE DEF page, type, ok
    <3> QED
      BY <1>8, <1>9
  <2>3. q = renderError(e, found) /\ d = renderError(f, found)
    BY <1>4, <1>5, <1>10
  <2> HIDE DEF e, f
  <2>7. PICK s \in Nat : s = 500 /\ s > 0 /\ s \in Failure
    BY FailureFacts
  <2>8. q = ErrorResult([e EXCEPT !.status = s], found) /\ d = ErrorResult([f EXCEPT !.status = s], found)
    BY <2>3, <2>7 DEF renderError
  <2>4. Alike(e, f, T, Failure, verb)
    BY <2>2
  <2>5. Waiting(f) => \/ e.net.sent = None
                      \/ /\ s \in Failure /\ e.contentType # ""
                         /\ Shown(e, "Content-Type") = <<e.contentType>>
    BY <2>2, <2>7 DEF Typed
  <2>9. s \in Nat /\ s > 0 /\ T \subseteq Loose
    BY <2>7
  <2>6. Alike(q, d, T, Failure, verb)
    BY ONLY <2>4, <2>5, <2>8, <2>9, AlikeFailed
  <2> QED
    BY <2>1, <2>6
<1>11. CASE mode = "stream" /\ ~r.fails
  <2>1. Failures(r) = {}
    BY <1>11 DEF Failures
  <2>2. q = Page(p, ok, type, page) /\ d = Page(c, ok, type, page)
    BY <1>4, <1>11
  <2> QED
    BY <1>8, <2>1, <2>2
<1>12. CASE mode # "stream" /\ r.fails
  <2>1. Failures(r) = {}
    BY <1>12 DEF Failures
  <2>2. q = renderError(p, found) /\ d = renderError(c, found)
    BY <1>4, <1>5, <1>12
  <2>3. PICK s \in Nat : s = 500
    OBVIOUS
  <2>4. q = ErrorResult([p EXCEPT !.status = s], found) /\ d = ErrorResult([c EXCEPT !.status = s], found)
    BY <2>2, <2>3 DEF renderError
  <2>5. Waiting(c) => p.net.sent = None
    BY DEF Unsent
  <2>6. s > 0
    BY <2>3
  <2>7. T \subseteq Loose /\ Alike(p, c, T, {}, verb)
    OBVIOUS
  <2>8. Alike(q, d, T, {}, verb)
    BY ONLY <2>4, <2>5, <2>6, <2>7, s \in Nat, AlikeFailed
  <2> QED
    BY <2>1, <2>8
<1>13. CASE mode # "stream" /\ ~r.fails
  <2>1. Failures(r) = {}
    BY <1>13 DEF Failures
  <2>2. q = Page(x, ok, type, page) /\ d = Page(y, ok, type, page)
    BY <1>4, <1>6, <1>13
  <2>3. Alike(q, d, T, {}, verb)
    <3> HIDE DEF page, type, ok
    <3> QED
      BY <1>7, <1>8, <2>2
  <2> QED
    BY <2>1, <2>3
<1> QED
  BY <1>1, <1>10, <1>11, <1>12, <1>13

LEMMA UnsentReady ==
  ASSUME NEW p, NEW c, NEW F, Unsent(p, c)
  PROVE  Ready(p, c, F)
  BY DEF Unsent, Ready

LEMMA UnsentAfter ==
  ASSUME NEW p, NEW c, NEW q, NEW d, Unsent(p, c), Fit(c), Fit(d), Buffers(d) = Buffers(c),
         q.net.sent = p.net.sent
  PROVE  Unsent(q, d)
  BY BufferFacts DEF Unsent

LEMMA AlikeRendered ==
  ASSUME NEW p, NEW c, NEW T, T \subseteq Loose, NEW F, NEW verb, Alike(p, c, T, F, verb), Unsent(p, c),
         NEW r \in Result, r.kind = "page",
         NEW q, NEW d, q = Rendered(p, r), d = Rendered(c, r)
  PROVE  Alike(q, d, T, F, verb)
<1>1. PICK type, chunks, found : type = r.type /\ chunks = r.chunks /\ found = r.found
  OBVIOUS
<1>2. PICK ok \in Nat : ok = 200 /\ ok > 0
  OBVIOUS
<1>3. type \in Text /\ chunks \in Seq(Chunk)
  BY <1>1, ResultFacts
<1>4. IF r.fails THEN q = ErrorResult(p, found) /\ d = ErrorResult(c, found)
      ELSE q = Page(p, ok, type, chunks) /\ d = Page(c, ok, type, chunks)
  BY <1>1, <1>2 DEF Rendered
<1>5. Ready(p, c, F)
  BY UnsentReady
<1>6. T \subseteq Loose /\ Alike(p, c, T, F, verb) /\ ok \in Nat /\ ok > 0
  BY <1>2
<1>7. CASE r.fails
  <2>1. q = ErrorResult(p, found) /\ d = ErrorResult(c, found)
    BY <1>4, <1>7
  <2> QED
    BY ONLY <1>5, <1>6, <2>1, AlikeError
<1>8. CASE ~r.fails
  <2>1. q = Page(p, ok, type, chunks) /\ d = Page(c, ok, type, chunks)
    BY <1>4, <1>8
  <2> QED
    BY ONLY <1>3, <1>5, <1>6, <2>1, AlikePage
<1> QED
  BY <1>7, <1>8

LEMMA AlikeRedirect ==
  ASSUME NEW p, NEW c, NEW T, T \subseteq Loose, NEW F, NEW verb, Alike(p, c, T, F, verb), Unsent(p, c),
         NEW r \in Result, NEW q, NEW d, q = Redirect(p, r), d = Redirect(c, r)
  PROVE  Alike(q, d, T, F, verb)
<1>1. PICK type, k, v, found : type = "" /\ k = "X" /\ v = "url" /\ found = r.found
  OBVIOUS
<1>2. PICK status \in Nat : status = 302 /\ status > 0
  OBVIOUS
<1>3. type \in Text /\ v \in Atom /\ k \in Header \ {"Set-Cookie", "Content-Length"} /\ k # "Content-Encoding"
  <2>1. type \in Text
    BY <1>1, ErrorChunks
  <2>2. v \in Atom
    BY <1>1 DEF Atom, Text
  <2>3. k \in Header \ {"Set-Cookie", "Content-Length"} /\ k # "Content-Encoding"
    BY <1>1, HeaderNames
  <2> QED
    BY <2>1, <2>2, <2>3
<1>4. PICK x, y, u : x = HeaderSet(p, k, v) /\ y = HeaderSet(c, k, v) /\ u = <<v>>
  OBVIOUS
<1>5. IF r.fails THEN q = ErrorResult(p, found) /\ d = ErrorResult(c, found)
      ELSE q = ResponseWriteHeader(x, status, type) /\ d = ResponseWriteHeader(y, status, type)
  BY <1>1, <1>2, <1>4 DEF Redirect
<1>6. T \subseteq Loose /\ Alike(p, c, T, F, verb) /\ status \in Nat /\ status > 0
  BY <1>2
<1>7. CASE r.fails
  <2>1. q = ErrorResult(p, found) /\ d = ErrorResult(c, found)
    BY <1>5, <1>7
  <2>2. Ready(p, c, F)
    BY UnsentReady
  <2> QED
    BY ONLY <1>6, <2>1, <2>2, AlikeError
<1>8. CASE ~r.fails
  <2>1. q = ResponseWriteHeader(x, status, type) /\ d = ResponseWriteHeader(y, status, type)
    BY <1>5, <1>8
  <2>2. p \in Out /\ c \in Out /\ Fit(c)
    BY AlikeFit
  <2>3. Changed(p, x, k, u) /\ Changed(c, y, k, u)
    BY <1>3, <1>4, <2>2, HeaderSetFacts
  <2>4. Alike(x, y, T, F, verb)
    <3>1. Waiting(c) => p.net.sent = None \/ Shown(p, k) = u
      BY DEF Unsent
    <3>2. (\E e : u = <<e>>) /\ (c = p => y = x)
      BY <1>4
    <3>3. T \subseteq T
      OBVIOUS
    <3> QED
      BY ONLY <1>3, <1>6, <2>3, <3>1, <3>2, <3>3, AlikeChanged
  <2>5. Unsent(x, y)
    <3>1. Fit(y)
      BY <2>4, AlikeFit
    <3>2. Buffers(y) = Buffers(c)
      BY <2>3, BufferFacts
    <3>3. x.net.sent = p.net.sent
      BY <2>3 DEF Changed
    <3> QED
      BY <2>2, <3>1, <3>2, <3>3, UnsentAfter
  <2>6. Ready(x, y, F)
    BY <2>5, UnsentReady
  <2> QED
    BY ONLY <1>3, <1>6, <2>1, <2>4, <2>6, AlikeHead
<1> QED
  BY <1>7, <1>8

LEMMA NoneWritten ==
  ASSUME NEW o
  PROVE  WriteAll(o, << >>) = o
<1>1. PICK chunks : chunks = << >>
  OBVIOUS
<1>2. Len(chunks) = 0
  BY <1>1
<1>3. PICK a : WrittenBy(o, chunks, a)
  <2>1. Len(chunks) \in Nat
    BY <1>2
  <2> QED
    BY <2>1, WriteAllFacts
<1> QED
  BY <1>1, <1>2, <1>3 DEF WrittenBy

\* c has a writer and p has not: the page of p is served, that of c copied.
(* The two headers of http.ServeContent are set on one side only.              *)
LEMMA AlikeAlone ==
  ASSUME NEW p, NEW c, NEW T, NEW F, NEW verb, Alike(p, c, T, F, verb), c # p, Unsent(p, c),
         NEW k \in Dates, NEW v, NEW q, Changed(p, q, k, v)
  PROVE  Alike(q, c, T \cup Dates, F, verb) /\ c # q /\ Unsent(q, c)
<1>1. PICK U, u : U = T \cup Dates /\ u = At(c, k)
  OBVIOUS
<1>2. T \subseteq U /\ k \in U
  BY <1>1
<1>3. k \in Header \ {"Set-Cookie", "Content-Length"} /\ k # "Content-Encoding"
  BY HeaderNames DEF Dates
<1>4. p \in Out /\ c \in Out /\ Bare(p) /\ Fit(c)
  BY AlikeFit DEF Alike
<1>5. Changed(c, c, k, u)
  <2>1. CASE Buffers(c)
    <3>1. c.writer.headerMap \in Headers /\ c.writer # None
      BY <1>4, <2>1, OutFacts DEF Buffers
    <3>2. c.writer.headerMap = [c.writer.headerMap EXCEPT ![k] = c.writer.headerMap[k]]
      BY <3>1 DEF Headers
    <3> QED
      BY <1>1, <1>4, <2>1, <3>1, <3>2 DEF Changed, SameWriter, At
  <2>2. CASE ~Buffers(c)
    <3>1. c.net.header \in Headers
      BY <1>4, OutFacts
    <3>2. c.net.header = [c.net.header EXCEPT ![k] = c.net.header[k]]
      BY <3>1 DEF Headers
    <3> QED
      BY <1>1, <1>4, <2>2, <3>2 DEF Changed, At
  <2> QED
    BY <2>1, <2>2
<1>6. Waiting(c) => p.net.sent = None \/ Shown(p, k) = v
  BY DEF Unsent
<1>7. Alike(q, c, U, F, verb)
  BY <1>2, <1>3, <1>5, <1>6, AlikeChanged
<1>8. q.writer = None /\ c.writer # None
  <2>1. p.writer = None /\ ~Buffers(p)
    BY <1>4 DEF Bare, Buffers
  <2> QED
    BY <2>1 DEF Changed, Alike, Waiting, Flowing
<1>9. q.net.sent = p.net.sent
  BY DEF Changed
<1> QED
  BY <1>1, <1>7, <1>8, <1>9 DEF Unsent

LEMMA AlikeOffers ==
  ASSUME NEW p, NEW c, NEW T, T \subseteq Loose, NEW F, NEW verb, Alike(p, c, T, F, verb), c # p,
         Unsent(p, c), NEW a, OffersMade(p, a)
  PROVE  Alike(a, c, T \cup Dates, F, verb) /\ c # a
<1>1. PICK m, v, u : (m = p \/ Changed(p, m, "Last-Modified", v)) /\ Changed(m, a, "Accept-Ranges", u)
  BY DEF OffersMade
<1>2. PICK j, k : j = "Last-Modified" /\ k = "Accept-Ranges"
  OBVIOUS
<1>3. j \in Dates /\ k \in Dates
  BY <1>2 DEF Dates
<1>4. (m = p \/ Changed(p, m, j, v)) /\ Changed(m, a, k, u)
  BY <1>1, <1>2
<1>5. PICK U : U = T \cup Dates
  OBVIOUS
<1>6. \E V : Alike(m, c, V, F, verb) /\ V \cup Dates = U /\ c # m /\ Unsent(m, c)
  <2>1. CASE m = p
    BY <1>5, <2>1
  <2>2. CASE Changed(p, m, j, v)
    <3>1. Alike(m, c, U, F, verb) /\ c # m /\ Unsent(m, c)
      BY <1>3, <1>5, <2>2, AlikeAlone
    <3> QED
      BY <1>5, <3>1
  <2> QED
    BY <1>4, <2>1, <2>2
<1>7. PICK V : Alike(m, c, V, F, verb) /\ V \cup Dates = U /\ c # m /\ Unsent(m, c)
  BY <1>6
<1>8. Alike(a, c, V \cup Dates, F, verb) /\ c # a
  BY ONLY <1>3, <1>4, <1>7, AlikeAlone
<1> QED
  BY <1>5, <1>7, <1>8

LEMMA AlikeServed ==
  ASSUME NEW p, NEW c, NEW T, T \subseteq Loose, NEW F, Alike(p, c, T, F, method), c # p,
         Unsent(p, c), method \in {"GET", "HEAD"},
         NEW r, r.chunks \in Seq(Chunk), r.fails = FALSE, r.sized,
         NEW q, NEW d, q = ServeContent(p, r), d = Copied(c, r)
  PROVE  Alike(q, d, T \cup Dates, F, method)
<1>1. PICK n, chunks, page, k, U :
        /\ n = Len(r.chunks) /\ chunks = r.chunks
        /\ page = IF method = "HEAD" THEN << >> ELSE chunks
        /\ k = "Content-Length" /\ U = T \cup Dates
  OBVIOUS
<1>2. chunks \in Seq(Chunk) /\ n \in Nat /\ page \in Seq(Chunk) /\ n \in Atom /\ k \in Header
  BY <1>1, HeaderNames DEF Atom
<1>20. p \in Out
  BY DEF Alike
<1>3. PICK a, y, z : ServedFrom(p, r, a, y, z) /\ q = WriteAll(z, page)
  BY <1>1, <1>20, ServeContentFacts
<1>21. Alike(a, c, U, F, method) /\ c # a /\ U \subseteq Loose
  <2>1. OffersMade(p, a)
    BY <1>3 DEF ServedFrom
  <2>2. Alike(a, c, T \cup Dates, F, method) /\ c # a
    BY <2>1, AlikeOffers
  <2> QED
    BY <1>1, <2>2 DEF Loose
<1>4. PICK w : w = HeaderSet(c, k, n)
  OBVIOUS
<1>5. d = WriteAll(w, chunks)
  BY <1>1, <1>4 DEF Copied
<1>6. a \in Out /\ c \in Out /\ Bare(a) /\ Fit(a)
  BY <1>21, AlikeFit DEF Alike
<1>7. PICK v : v = <<n>>
  OBVIOUS
<1>8. y = a \/ Changed(a, y, k, v)
  <2>1. y = a \/ y = HeaderSet(a, k, n)
    BY <1>1, <1>3 DEF ServedFrom
  <2> QED
    BY <1>2, <1>6, <1>7, <2>1, HeaderSetFacts
<1>9. Changed(c, w, k, v)
  BY <1>2, <1>4, <1>6, <1>7, HeaderSetFacts
<1>10. Alike(y, w, U, F, method)
  <2>1. /\ y = a \/ Changed(a, y, "Content-Length", v)
        /\ w = c \/ Changed(c, w, "Content-Length", v)
    BY <1>1, <1>8, <1>9
  <2>2. Alike(a, c, U, F, method) /\ (c = a => w = y)
    BY <1>21
  <2> QED
    BY ONLY <2>1, <2>2, AlikeLength
<1>11. (y.writer = None) /\ w.writer # None
  <2>1. a.writer = None /\ ~Buffers(a)
    BY <1>6 DEF Bare, Buffers
  <2>2. y.writer = None
    BY <1>8, <2>1 DEF Changed
  <2>3. c.writer # None
    BY <1>21 DEF Alike, Waiting, Flowing
  <2>4. w.writer # None
    BY <1>9, <2>3 DEF Changed
  <2> QED
    BY <2>2, <2>4
<1>12. y \in Out /\ w # y
  BY <1>10, <1>11, AlikeFit
<1>13. SentNow(y, z)
  BY <1>3, <1>12, SentNowFacts DEF ServedFrom
<1>14. Alike(z, w, U, F, method) /\ z.net.sent # None
  <2>1. /\ z \in Out /\ z.writer = y.writer /\ z.status = y.status /\ z.contentType = y.contentType
        /\ z.net = NetWriteHeader(y.net, 200)
    BY <1>13 DEF SentNow
  <2> QED
    BY <1>10, <1>12, <2>1, AlikeSent
<1>15. z.writer = None
  BY <1>11, <1>13 DEF SentNow
<1>16. U \subseteq Loose /\ Alike(z, w, U, F, method)
  BY <1>14, <1>21
<1>17. CASE method = "GET"
  <2>1. q = WriteAll(z, chunks)
    BY <1>1, <1>3, <1>17
  <2>2. AllAlike(z, w, q, d, U, F, method)
    BY ONLY <1>2, <1>5, <1>16, <2>1, AlikeWriteAll
  <2> QED
    BY <1>1, <2>2 DEF AllAlike
<1>18. CASE method = "HEAD"
  <2>1. q = z
    BY <1>1, <1>3, <1>18, NoneWritten
  <2>2. method # "GET" /\ z.net.sent # None /\ w # z
    BY <1>11, <1>14, <1>15, <1>18
  <2>3. Alike(z, d, U, F, method)
    BY ONLY <1>2, <1>5, <1>16, <2>2, AlikeWriteAllAlone
  <2> QED
    BY <1>1, <2>1, <2>3
<1> QED
  BY <1>1, <1>17, <1>18

LEMMA AlikeCopied ==
  ASSUME NEW p, NEW c, NEW T, T \subseteq Loose, NEW F, NEW verb, Alike(p, c, T, F, verb),
         NEW r, r.chunks \in Seq(Chunk), r.fails = FALSE,
         NEW q, NEW d, q = Copied(p, r), d = Copied(c, r)
  PROVE  Alike(q, d, T, F, verb)
<1>1. PICK n, chunks, k : n = Len(r.chunks) /\ chunks = r.chunks /\ k = "Content-Length"
  OBVIOUS
<1>2. chunks \in Seq(Chunk) /\ n \in Nat /\ n \in Atom /\ k \in Header
  BY <1>1, HeaderNames DEF Atom
<1>3. PICK x, y : /\ x = IF r.sized THEN HeaderSet(p, k, n) ELSE p
                  /\ y = IF r.sized THEN HeaderSet(c, k, n) ELSE c
  OBVIOUS
<1>4. q = WriteAll(x, chunks) /\ d = WriteAll(y, chunks)
  BY <1>1, <1>3 DEF Copied
<1>5. p \in Out /\ c \in Out
  BY AlikeFit
<1>6. PICK v : v = <<n>>
  OBVIOUS
<1>7. (x = p \/ Changed(p, x, k, v)) /\ (y = c \/ Changed(c, y, k, v))
  BY <1>2, <1>3, <1>5, <1>6, HeaderSetFacts
<1>8. Alike(x, y, T, F, verb)
  <2>1. /\ x = p \/ Changed(p, x, "Content-Length", v)
        /\ y = c \/ Changed(c, y, "Content-Length", v)
    BY <1>1, <1>7
  <2>2. Alike(p, c, T, F, verb) /\ (c = p => y = x)
    BY <1>3
  <2> QED
    BY ONLY <2>1, <2>2, AlikeLength
<1>9. T \subseteq Loose
  OBVIOUS
<1>10. AllAlike(x, y, q, d, T, F, verb)
  BY ONLY <1>2, <1>4, <1>8, <1>9, AlikeWriteAll
<1> QED
  BY <1>10 DEF AllAlike

OfferedBy(r) == IF r.kind = "binary" /\ r.seeks THEN Dates ELSE {}

LEMMA AlikeBinary ==
  ASSUME NEW p, NEW c, NEW T, T \subseteq Loose, NEW F, Alike(p, c, T, F, method), c # p, Unsent(p, c),
         method \in {"GET", "HEAD"},
         NEW r \in Result, r.kind = "binary", Undisturbed(r),
         NEW q, NEW d, q = Binary(p, r), d = Binary(c, r)
  PROVE  Alike(q, d, T \cup OfferedBy(r), F, method)
<1> DEFINE t == BinaryType(p, r)
<1>1. t = BinaryType(c, r)
  BY DEF Alike, BinaryType
<1>2. PICK x, y, v, k : /\ x = HeaderSet(p, "Content-Type", t) /\ y = HeaderSet(c, "Content-Type", t)
                        /\ v = <<t>> /\ k = "Content-Type"
  OBVIOUS
<1>3. p \in Out /\ c \in Out /\ Fit(c) /\ Bare(p)
  BY AlikeFit DEF Alike
<1>4. /\ Changed(p, x, k, v)
      /\ q = IF x.writer = None /\ r.seeks THEN ServeContent(x, r) ELSE Copied(x, r)
  BY <1>2, <1>3, BinaryFacts
<1>5. /\ Changed(c, y, k, v)
      /\ d = IF y.writer = None /\ r.seeks THEN ServeContent(y, r) ELSE Copied(y, r)
  <2>1. LET z == HeaderSet(c, "Content-Type", BinaryType(c, r))
        IN  /\ Changed(c, z, "Content-Type", <<BinaryType(c, r)>>)
            /\ Binary(c, r) = IF z.writer = None /\ r.seeks THEN ServeContent(z, r) ELSE Copied(z, r)
    BY <1>3, BinaryFacts
  <2> QED
    BY <1>1, <1>2, <2>1
<1>6. k \in Header \ {"Set-Cookie", "Content-Length"} /\ k # "Content-Encoding"
  BY <1>2, HeaderNames
<1>7. Alike(x, y, T, F, method)
  <2>1. Waiting(c) => p.net.sent = None \/ Shown(p, k) = v
    BY DEF Unsent
  <2>2. (\E e : v = <<e>>) /\ (c = p => y = x)
    BY <1>2
  <2>3. T \subseteq T /\ Alike(p, c, T, F, method)
    OBVIOUS
  <2> QED
    BY ONLY <1>4, <1>5, <1>6, <2>1, <2>2, <2>3, AlikeChanged
<1>8. x.writer = None /\ y.writer # None
  <2>1. p.writer = None /\ ~Buffers(p)
    BY <1>3 DEF Bare, Buffers
  <2>2. c.writer # None
    BY DEF Alike, Waiting, Flowing
  <2> QED
    BY <1>4, <1>5, <2>1, <2>2 DEF Changed
<1>9. r.chunks \in Seq(Chunk) /\ r.fails = FALSE /\ (r.seeks => r.sized)
  BY ResultFacts DEF Undisturbed
<1>10. d = Copied(y, r)
  BY <1>5, <1>8
<1>11. T \subseteq Loose /\ method \in {"GET", "HEAD"} /\ x # y
  BY <1>8
<1>14. Unsent(x, y)
  <2>1. Fit(y) /\ Buffers(y) = Buffers(c)
    BY <1>5, <1>7, AlikeFit, BufferFacts
  <2> QED
    BY <1>3, <1>4, <2>1, UnsentAfter DEF Changed
<1>12. CASE r.seeks
  <2>1. q = ServeContent(x, r) /\ r.sized
    BY <1>4, <1>8, <1>9, <1>12
  <2>2. Alike(q, d, T \cup Dates, F, method)
    BY ONLY <1>7, <1>9, <1>10, <1>11, <1>14, <2>1, AlikeServed
  <2>3. OfferedBy(r) = Dates
    BY <1>12 DEF OfferedBy
  <2> QED
    BY <2>2, <2>3
<1>13. CASE ~r.seeks
  <2>1. q = Copied(x, r)
    BY <1>4, <1>13
  <2>2. Alike(q, d, T, F, method)
    BY ONLY <1>7, <1>9, <1>10, <1>11, <2>1, AlikeCopied
  <2>3. T \cup OfferedBy(r) = T
    BY <1>13 DEF OfferedBy
  <2> QED
    BY <2>2, <2>3
<1> QED
  BY <1>12, <1>13

LEMMA AlikeApply ==
  ASSUME NEW p, NEW c, NEW T, T \subseteq Loose, Alike(p, c, T, {}, method), Unsent(p, c),
         NoLength(p), method \in {"GET", "HEAD"}, NEW r \in Result, Undisturbed(r),
         NEW q, NEW d, q = Apply(Made(p, r), r), d = Apply(Made(c, r), r)
  PROVE  Alike(q, d, T \cup OfferedBy(r), Failures(r), method)
<1>1. p \in Out /\ c \in Out /\ Fit(p) /\ Fit(c) /\ Bare(p)
  BY AlikeFit DEF Alike
<1>2. CASE c = p
  <2>1. Fulfils(p, q)
    BY <1>1, ApplyFulfils
  <2>2. q \in Out /\ Bare(q) /\ d = q
    BY <1>1, <1>2, <2>1 DEF Fulfils, Fit
  <2> QED
    BY <2>2 DEF Alike
<1>3. CASE c # p
  <2>1. PICK x, y : x = Made(p, r) /\ y = Made(c, r)
    OBVIOUS
  <2>2. Same(p, x) /\ Same(c, y) /\ x.status = y.status /\ x.contentType = y.contentType
    <3>1. Same(p, x) /\ x.contentType = p.contentType
          /\ x.status = IF p.status # 0 \/ r.kind = "none" THEN p.status
                        ELSE CASE r.kind = "redirect" -> 302
                               [] r.kind = "error" -> IF r.rendering THEN 200 ELSE 500
                               [] OTHER -> 200
      BY <1>1, <2>1, MadeSame
    <3>2. Same(c, y) /\ y.contentType = c.contentType
          /\ y.status = IF c.status # 0 \/ r.kind = "none" THEN c.status
                        ELSE CASE r.kind = "redirect" -> 302
                               [] r.kind = "error" -> IF r.rendering THEN 200 ELSE 500
                               [] OTHER -> 200
      BY <1>1, <2>1, MadeSame
    <3>3. p.status = c.status /\ p.contentType = c.contentType
      BY DEF Alike
    <3> QED
      BY <3>1, <3>2, <3>3
  <2>3. Alike(x, y, T, {}, method)
    BY <2>2, AlikeSame
  <2>4. x # y
    <3>1. p.writer = None /\ c.writer # None
      BY <1>1, <1>3 DEF Bare, Alike, Waiting, Flowing
    <3> QED
      BY <2>2, <3>1 DEF Same
  <2>5. Unsent(x, y)
    <3>1. Fit(y) /\ Buffers(y) = Buffers(c) /\ x.net.sent = p.net.sent
      BY <2>2, <2>3, AlikeFit, BufferFacts DEF Same
    <3> QED
      BY <1>1, <3>1, UnsentAfter
  <2>6. q = Apply(x, r) /\ d = Apply(y, r)
    BY <2>1
  <2>7. T \subseteq Loose /\ method \in {"GET", "HEAD"} /\ r \in Result
    OBVIOUS
  <2>8. r.kind \in {"none", "error", "redirect", "template", "page", "binary"}
    BY ResultFacts
  <2>9. CASE r.kind = "template"
    <3>1. q = Template(x, r) /\ d = Template(y, r)
      BY <2>6, <2>9 DEF Apply
    <3>2. Alike(q, d, T, Failures(r), method)
      BY ONLY <2>3, <2>5, <2>7, <2>9, <3>1, AlikeTemplate
    <3>3. T \cup OfferedBy(r) = T
      BY <2>9 DEF OfferedBy
    <3> QED
      BY <3>2, <3>3
  <2>10. CASE r.kind # "template"
    <3>1. Failures(r) = {}
      BY <2>10 DEF Failures
    <3>7. r.kind # "binary" => T \cup OfferedBy(r) = T
      BY DEF OfferedBy
    <3> SUFFICES r.kind # "binary" => Alike(q, d, T, {}, method)
      <4>1. CASE r.kind # "binary"
        BY <3>1, <3>7, <4>1
      <4>2. CASE r.kind = "binary"
        <5>1. q = Binary(x, r) /\ d = Binary(y, r) /\ Undisturbed(r)
          BY <2>6, <4>2 DEF Apply
        <5>2. Alike(q, d, T \cup OfferedBy(r), {}, method)
          BY ONLY <2>3, <2>4, <2>5, <2>7, <4>2, <5>1, AlikeBinary
        <5> QED
          BY <3>1, <5>2
      <4> QED
        BY <4>1, <4>2
    <3>2. CASE r.kind = "page"
      <4>1. q = Rendered(x, r) /\ d = Rendered(y, r)
        BY <2>6, <3>2 DEF Apply
      <4> QED
        BY ONLY <2>3, <2>5, <2>7, <3>2, <4>1, AlikeRendered
    <3>3. CASE r.kind = "redirect"
      <4>1. q = Redirect(x, r) /\ d = Redirect(y, r)
        BY <2>6, <3>3 DEF Apply
      <4> QED
        BY ONLY <2>3, <2>5, <2>7, <4>1, AlikeRedirect
    <3>4. CASE r.kind = "error"
      <4>1. PICK found : q = ErrorResult(x, found) /\ d = ErrorResult(y, found)
        BY <2>6, <3>4 DEF Apply
      <4>2. Ready(x, y, {})
        BY <2>5, UnsentReady
      <4> QED
        BY ONLY <2>3, <2>7, <4>1, <4>2, AlikeError
    <3>6. CASE r.kind = "none"
      <4>1. x.status \in Nat /\ y.status = x.status
        BY <2>2, OutFacts DEF Same
      <4>2. IF x.status = 0 THEN q = x /\ d = y
            ELSE q = SetStatus(x, x.status) /\ d = SetStatus(y, x.status)
        BY <2>6, <3>6, <4>1 DEF Apply
      <4>3. Waiting(y) => x.net.sent = None
        BY <2>5 DEF Unsent
      <4>4. CASE x.status = 0
        BY <2>3, <4>2, <4>4
      <4>5. CASE x.status # 0
        <5>1. PICK s \in Nat : s = x.status /\ s > 0
          BY <4>1, <4>5
        <5>2. q = SetStatus(x, s) /\ d = SetStatus(y, s)
          BY <4>2, <4>5, <5>1
        <5>3. s \in Nat /\ s > 0
          BY <5>1
        <5>4. Waiting(y) => x.net.sent = None \/ s \in {}
          BY <4>3
        <5> QED
          BY ONLY <2>3, <5>2, <5>3, <5>4, AlikeStatus
      <4> QED
        BY <4>4, <4>5
    <3> QED
      BY <2>8, <2>10, <3>2, <3>3, <3>4, <3>6
  <2> QED
    BY <2>9, <2>10
<1> QED
  BY <1>2, <1>3

-----------------------------------------------------------------------------
(* The end of a response.                                                     *)
Finished(o) == [Close(Close(o)) EXCEPT !.net = NetWriteHeader(Close(Close(o)).net, 200)]

\* Close ends the stream of p, which is released.
Streamed(p, n) ==
  \E h : /\ h \in Net /\ h.sent = p.net.sent /\ h.body = p.net.body
         /\ h.header = [p.net.header EXCEPT !["Content-Length"] = << >>]
         /\ n = IF p.writer.compressionType = None THEN p.net
                ELSE NetWrite(h, None, p.writer.compressionType)

LEMMA CloseFacts ==
  ASSUME NEW o \in Out, o.writer # None, ~o.writer.closed,
         NEW p \in Out, p = Prepared(o), p.writer # None, p.writer.released, NEW r, r = Close(o)
  PROVE  /\ r \in Out /\ r.status = p.status /\ r.contentType = p.contentType
         /\ r.writer # None /\ r.writer.closed /\ Streamed(p, r.net)
<1>1. PICK q, by : q = HeaderDel(p, "Content-Length") /\ by = p.writer.compressionType
  OBVIOUS
<1>2. Changed(p, q, "Content-Length", << >>)
  BY <1>1, HeaderNames, HeaderDelFacts
<1>3. /\ q \in Out /\ q.status = p.status /\ q.contentType = p.contentType
      /\ q.net.sent = p.net.sent /\ q.net.body = p.net.body
      /\ q.net.header = [p.net.header EXCEPT !["Content-Length"] = << >>]
      /\ q.writer = p.writer
  <2>1. ~Buffers(p)
    BY DEF Buffers
  <2> QED
    BY <1>2, <2>1 DEF Changed
<1>4. q.net \in Net /\ p.net \in Net /\ p.writer \in Writer /\ by \in {None} \cup Type
  BY <1>1, <1>3, OutFacts
<1>5. PICK n : n = IF by = None THEN p.net ELSE NetWrite(q.net, None, by)
  OBVIOUS
<1>6. n \in Net
  <2>1. PICK m, chunk : m = q.net /\ chunk = None
    OBVIOUS
  <2>2. m \in Net /\ chunk \in Chunk \cup {None}
    BY <1>4, <2>1
  <2>3. LET x == NetWrite(m, chunk, by) IN x \in Net
    BY <1>4, <2>2, NetWriteFacts
  <2> QED
    BY <1>4, <1>5, <2>1, <2>3
<1>7. PICK e : e = IF by = None THEN p ELSE [q EXCEPT !.net = NetWrite(q.net, None, by)]
  OBVIOUS
<1>8. /\ e \in Out /\ e.net = n /\ e.writer = p.writer
      /\ e.status = p.status /\ e.contentType = p.contentType
  <2>1. CASE by = None
    BY <1>5, <1>7, <2>1
  <2>2. CASE by # None
    <3>1. e = [q EXCEPT !.net = n]
      BY <1>5, <1>7, <2>2
    <3>2. /\ e \in Out /\ e.net = n /\ e.writer = q.writer
          /\ e.status = q.status /\ e.contentType = q.contentType
      BY <1>3, <1>6, <3>1, NetFacts
    <3> QED
      BY <1>3, <3>2
  <2> QED
    BY <2>1, <2>2
<1>9. PICK w : w = [p.writer EXCEPT !.closed = TRUE]
  OBVIOUS
<1>10. w \in Writer /\ w.closed
  BY <1>4, <1>9 DEF Writer
<1>11. r = [e EXCEPT !.writer = w]
  <2>1. r = [e EXCEPT !.writer.closed = TRUE]
    BY <1>1, <1>7 DEF Close
  <2> QED
    BY <1>8, <1>9, <2>1
<1>12. /\ r \in Out /\ r.net = e.net /\ r.writer = w /\ w # None
       /\ r.status = e.status /\ r.contentType = e.contentType
  BY <1>8, <1>10, <1>11, WriterFacts
<1>13. Streamed(p, r.net)
  BY <1>1, <1>3, <1>4, <1>5, <1>8, <1>12 DEF Streamed
<1> QED
  BY <1>8, <1>10, <1>12, <1>13

\* The body is that of the response and, when it is compressed by b, the end of the
\* stream; the header says so.
Whole(n, s, b) ==
  /\ n \in Net /\ n.sent # None /\ s \in Seq(Piece) /\ b \in {None} \cup Type
  /\ \A i \in DOMAIN s : s[i].chunk # None /\ s[i].by = b
  /\ n.body = IF b # None /\ BodyAllowed(n.sent.status) THEN Append(s, [chunk |-> None, by |-> b]) ELSE s
  /\ IF b = None THEN n.sent.header["Content-Encoding"] \in Foreign
     ELSE n.sent.header["Content-Encoding"] = <<b>> /\ n.sent.header["Content-Length"] = << >>

LEMMA StreamedFacts ==
  ASSUME NEW p \in Out, p.writer # None, NEW n, Streamed(p, n),
         p.net.sent = None /\ p.writer.compressionType # None => p.net.header["Content-Length"] = << >>
  PROVE  LET m == NetWriteHeader(n, 200) IN
         /\ n \in Net /\ m \in Net /\ m.sent # None
         /\ p.net.sent # None => m.sent = p.net.sent
         /\ p.net.sent = None => m.sent = [status |-> 200, header |-> p.net.header]
         /\ m.body = IF p.writer.compressionType # None /\ BodyAllowed(m.sent.status)
                     THEN Append(p.net.body, [chunk |-> None, by |-> p.writer.compressionType])
                     ELSE p.net.body
<1>1. PICK m, by, ok : m = NetWriteHeader(n, ok) /\ by = p.writer.compressionType /\ ok = 200
  OBVIOUS
<1>2. PICK h : /\ h \in Net /\ h.sent = p.net.sent /\ h.body = p.net.body
               /\ h.header = [p.net.header EXCEPT !["Content-Length"] = << >>]
               /\ n = IF by = None THEN p.net ELSE NetWrite(h, None, by)
  BY <1>1 DEF Streamed
<1>3. p.net \in Net /\ p.net.header \in Headers /\ by \in {None} \cup Type /\ ok \in Nat
  BY <1>1, OutFacts
<1>4. CASE by = None
  <2>1. n = p.net
    BY <1>2, <1>4
  <2>2. LET r == NetWriteHeader(n, ok)
        IN  /\ r \in Net /\ r.header = n.header /\ r.body = n.body /\ r.sent # None
            /\ n.sent # None => r = n
            /\ n.sent = None => r.sent = [status |-> ok, header |-> n.header]
    BY <1>3, <2>1, NetWriteHeaderFacts
  <2>3. /\ m \in Net /\ m.body = n.body /\ m.sent # None
        /\ n.sent # None => m = n
        /\ n.sent = None => m.sent = [status |-> ok, header |-> n.header]
    BY <1>1, <2>2
  <2> QED
    BY <1>1, <1>3, <1>4, <2>1, <2>3
<1>5. CASE by # None
  <2>1. PICK chunk : chunk = None
    OBVIOUS
  <2>2. n = NetWrite(h, chunk, by) /\ chunk \in Chunk \cup {None}
    BY <1>2, <1>5, <2>1
  <2>3. LET x == NetWrite(h, chunk, by)
        IN  /\ x \in Net /\ x.sent # None
            /\ h.sent # None => x.sent = h.sent
            /\ h.sent = None => x.sent = [status |-> 200, header |-> h.header]
            /\ BodyAllowed(x.sent.status) => x.body = Append(h.body, [chunk |-> chunk, by |-> by])
            /\ ~BodyAllowed(x.sent.status) => x.body = h.body
    <3>1. h \in Net
      BY <1>2
    <3>2. by \in {None} \cup Type
      BY <1>3
    <3>3. chunk \in Chunk \cup {None}
      BY <2>2
    <3> QED
      BY ONLY <3>1, <3>2, <3>3, NetWriteFacts
  <2>4. /\ n \in Net /\ n.sent # None
        /\ h.sent # None => n.sent = h.sent
        /\ h.sent = None => n.sent = [status |-> 200, header |-> h.header]
        /\ BodyAllowed(n.sent.status) => n.body = Append(h.body, [chunk |-> chunk, by |-> by])
        /\ ~BodyAllowed(n.sent.status) => n.body = h.body
    BY <2>2, <2>3
  <2>5. m = n
    <3>1. LET r == NetWriteHeader(n, ok) IN n.sent # None => r = n
      BY <1>3, <2>4, NetWriteHeaderFacts
    <3> QED
      BY <1>1, <2>4, <3>1
  <2>6. p.net.sent = None => h.header = p.net.header
    <3>1. p.net.sent = None => p.net.header["Content-Length"] = << >>
      BY <1>1, <1>5
    <3> QED
      BY <1>2, <1>3, <3>1 DEF Headers
  <2>7. h.sent = p.net.sent /\ h.body = p.net.body
    BY <1>2
  <2>8. /\ n \in Net /\ m \in Net /\ m.sent # None
        /\ p.net.sent # None => m.sent = p.net.sent
        /\ p.net.sent = None => m.sent = [status |-> 200, header |-> p.net.header]
    BY <2>4, <2>5, <2>6, <2>7
  <2>9. m.body = IF BodyAllowed(m.sent.status)
                 THEN Append(p.net.body, [chunk |-> None, by |-> by]) ELSE p.net.body
    BY <2>1, <2>4, <2>5, <2>7
  <2>10. m.body = IF by # None /\ BodyAllowed(m.sent.status)
                  THEN Append(p.net.body, [chunk |-> None, by |-> by]) ELSE p.net.body
    BY <1>5, <2>9
  <2> QED
    BY <1>1, <2>8, <2>10
<1> QED
  BY <1>4, <1>5

LEMMA FinishBare ==
  ASSUME NEW o \in Out, Bare(o), NEW f, f = Finished(o)
  PROVE  /\ Follows(o, f) /\ Whole(f.net, o.net.body, None)
<1>1. Close(Close(o)) = o
  BY DEF Close, Bare
<1>2. PICK ok \in Nat : ok = 200
  OBVIOUS
<1>3. PICK n : n = NetWriteHeader(o.net, ok)
  OBVIOUS
<1>4. o.net \in Net /\ o.net.body \in Seq(Piece)
  BY OutFacts
<1>5. /\ n \in Net /\ n.header = o.net.header /\ n.body = o.net.body /\ n.sent # None
      /\ o.net.sent # None => n = o.net
      /\ o.net.sent = None => n.sent = [status |-> ok, header |-> o.net.header]
  BY <1>3, <1>4, NetWriteHeaderFacts
<1>6. f.net = n
  <2>1. f = [o EXCEPT !.net = n]
    BY <1>1, <1>2, <1>3 DEF Finished
  <2> QED
    BY <1>5, <2>1, NetFacts
<1>7. Follows(o, f)
  BY <1>2, <1>5, <1>6 DEF Follows
<1>8. n.sent.header["Content-Encoding"] \in Foreign
  BY <1>5 DEF Bare
<1>9. \A i \in DOMAIN o.net.body : o.net.body[i].chunk # None /\ o.net.body[i].by = None
  BY DEF Bare
<1>10. Whole(n, o.net.body, None)
  BY <1>4, <1>5, <1>8, <1>9 DEF Whole
<1> QED
  BY <1>6, <1>7, <1>10

EndedBy(p, f) ==
  /\ f \in Out /\ f.status = p.status /\ f.contentType = p.contentType
  /\ f.net \in Net /\ f.net.sent # None
  /\ p.net.sent # None => f.net.sent = p.net.sent
  /\ p.net.sent = None => f.net.sent = [status |-> 200, header |-> p.net.header]
  /\ f.net.body = IF p.writer.compressionType # None /\ BodyAllowed(f.net.sent.status)
                  THEN Append(p.net.body, [chunk |-> None, by |-> p.writer.compressionType])
                  ELSE p.net.body

LEMMA FinishOn ==
  ASSUME NEW o \in Out, o.writer # None, ~o.writer.closed,
         NEW p \in Out, p = Prepared(o), p.writer # None, p.writer.released,
         p.net.sent = None /\ p.writer.compressionType # None => p.net.header["Content-Length"] = << >>,
         NEW f, f = Finished(o)
  PROVE  EndedBy(p, f)
<1>1. PICK r : r = Close(o)
  OBVIOUS
<1>2. /\ r \in Out /\ r.status = p.status /\ r.contentType = p.contentType
      /\ r.writer # None /\ r.writer.closed /\ Streamed(p, r.net)
  BY <1>1, CloseFacts
<1>3. Close(Close(o)) = r
  BY <1>1, <1>2 DEF Close
<1>4. PICK n, m : n = r.net /\ m = NetWriteHeader(n, 200)
  OBVIOUS
<1>5. f = [r EXCEPT !.net = m]
  BY <1>3, <1>4 DEF Finished
<1>6. Streamed(p, n)
  BY <1>2, <1>4
<1>7. /\ m \in Net /\ m.sent # None
      /\ p.net.sent # None => m.sent = p.net.sent
      /\ p.net.sent = None => m.sent = [status |-> 200, header |-> p.net.header]
      /\ m.body = IF p.writer.compressionType # None /\ BodyAllowed(m.sent.status)
                  THEN Append(p.net.body, [chunk |-> None, by |-> p.writer.compressionType])
                  ELSE p.net.body
  BY <1>4, <1>6, StreamedFacts
<1>8. f \in Out /\ f.net = m /\ f.status = r.status /\ f.contentType = r.contentType
  BY <1>2, <1>5, <1>7, NetFacts
<1>9. f.status = p.status /\ f.contentType = p.contentType
  BY <1>2, <1>8
<1> QED
  BY <1>7, <1>8, <1>9 DEF EndedBy

LEMMA FinishFlowing ==
  ASSUME NEW o \in Out, Flowing(o), NEW f, f = Finished(o)
  PROVE  f.net.sent = o.net.sent /\ Whole(f.net, o.net.body, o.writer.compressionType)
<1>1. o = Prepared(o) /\ o.writer # None /\ ~o.writer.closed /\ o.writer.released /\ o.net.sent # None
  BY DEF Flowing, Prepared
<1>2. /\ f.net \in Net /\ f.net.sent = o.net.sent
      /\ f.net.body = IF o.writer.compressionType # None /\ BodyAllowed(f.net.sent.status)
                      THEN Append(o.net.body, [chunk |-> None, by |-> o.writer.compressionType])
                      ELSE o.net.body
  <2>1. EndedBy(o, f)
    BY <1>1, FinishOn
  <2> QED
    BY <1>1, <2>1 DEF EndedBy
<1>3. o.net.body \in Seq(Piece) /\ o.writer.compressionType \in {None} \cup Type
  BY <1>1, OutFacts
<1> QED
  BY <1>1, <1>2, <1>3 DEF Whole, Flowing

LEMMA FinishWaiting ==
  ASSUME NEW o \in Out, Waiting(o), NEW f, f = Finished(o)
  PROVE  /\ Opened(o, f)
         /\ Whole(f.net, << >>, IF Compressable(o) THEN o.writer.compressionType ELSE None)
<1>1. PICK p : p = prepareHeaders(o)
  OBVIOUS
<1>2. /\ p \in Out /\ p.status = o.status /\ p.contentType = o.contentType
      /\ p.writer # None /\ p.writer.released
      /\ p.writer.compressionType = IF Compressable(o) THEN o.writer.compressionType ELSE None
      /\ \A k \in Header \ {"Content-Encoding", "Content-Length", "Set-Cookie"} :
           p.net.header[k] = Eff(o, k)
      /\ p.net.header["Set-Cookie"] = o.net.header["Set-Cookie"] \o o.writer.cookieList
      /\ p.net.header["Content-Encoding"] =
           IF Compressable(o) THEN <<o.writer.compressionType>> ELSE Eff(o, "Content-Encoding")
      /\ p.net.header["Content-Length"] = IF Compressable(o) THEN << >> ELSE Eff(o, "Content-Length")
      /\ p.net.body = << >>
      /\ p.net.sent = IF o.writer.status > 0
                      THEN [status |-> o.writer.status, header |-> p.net.header] ELSE None
  BY <1>1, PrepareFacts
<1>3. p = Prepared(o) /\ o.writer # None /\ ~o.writer.closed /\ o.writer.status \in Nat
      /\ o.writer.compressionType \in Type
  BY <1>1, OutFacts DEF Waiting, Prepared
<1>4. PICK by : by = p.writer.compressionType
  OBVIOUS
<1>5. IF Compressable(o) THEN by = o.writer.compressionType /\ by # None ELSE by = None
  BY <1>2, <1>3, <1>4, NoneFacts
<1>6. EndedBy(p, f)
  <2>1. p \in Out /\ p.writer # None /\ p.writer.released
    BY <1>2
  <2>2. p.net.sent = None /\ p.writer.compressionType # None => p.net.header["Content-Length"] = << >>
    BY <1>2, <1>4, <1>5
  <2>3. p = Prepared(o) /\ o.writer # None /\ ~o.writer.closed
    BY <1>3
  <2> QED
    BY ONLY <2>1, <2>2, <2>3, o \in Out, f = Finished(o), FinishOn
<1>7. /\ f \in Out /\ f.status = p.status /\ f.contentType = p.contentType
      /\ f.net \in Net /\ f.net.sent # None
      /\ p.net.sent # None => f.net.sent = p.net.sent
      /\ p.net.sent = None => f.net.sent = [status |-> 200, header |-> p.net.header]
      /\ f.net.body = IF by # None /\ BodyAllowed(f.net.sent.status)
                      THEN Append(p.net.body, [chunk |-> None, by |-> by]) ELSE p.net.body
  BY <1>4, <1>6 DEF EndedBy
<1>8. PICK sent : sent = f.net.sent
  OBVIOUS
<1>9. sent.status = (IF o.writer.status > 0 THEN o.writer.status ELSE 200) /\ sent.header = p.net.header
  <2>1. CASE o.writer.status > 0
    <3>1. p.net.sent = [status |-> o.writer.status, header |-> p.net.header]
      BY <1>2, <2>1
    <3>2. p.net.sent # None
      <4>1. p.net.sent \in Started
        BY <1>2, <1>3, <3>1, OutFacts DEF Started
      <4> QED
        BY <4>1, NoneFacts
    <3> QED
      BY <1>7, <1>8, <2>1, <3>1, <3>2
  <2>2. CASE ~(o.writer.status > 0)
    BY <1>2, <1>7, <1>8, <2>2
  <2> QED
    BY <2>1, <2>2
<1>10. Opened(o, f)
  <2>1. /\ \A k \in Header \ {"Content-Encoding", "Content-Length", "Set-Cookie"} : sent.header[k] = Eff(o, k)
        /\ sent.header["Set-Cookie"] = o.net.header["Set-Cookie"] \o o.writer.cookieList
        /\ sent.header["Content-Encoding"] =
             IF Compressable(o) THEN <<o.writer.compressionType>> ELSE Eff(o, "Content-Encoding")
        /\ sent.header["Content-Length"] = IF Compressable(o) THEN << >> ELSE Eff(o, "Content-Length")
    BY <1>2, <1>9
  <2>2. f \in Out /\ f.status = o.status /\ f.contentType = o.contentType
    BY <1>2, <1>7
  <2> QED
    BY <1>8, <1>9, <2>1, <2>2 DEF Opened
<1>11. Whole(f.net, << >>, by)
  <2>1. IF by = None THEN sent.header["Content-Encoding"] \in Foreign
        ELSE sent.header["Content-Encoding"] = <<by>> /\ sent.header["Content-Length"] = << >>
    <3>1. Eff(o, "Content-Encoding") \in Foreign
      BY EffForeign
    <3> QED
      BY <1>2, <1>5, <1>9, <3>1
  <2>2. PICK s : s = << >>
    OBVIOUS
  <2>3. s \in Seq(Piece) /\ \A i \in DOMAIN s : s[i].chunk # None /\ s[i].by = by
    BY <2>2
  <2>4. f.net.body = IF by # None /\ BodyAllowed(f.net.sent.status)
                     THEN Append(s, [chunk |-> None, by |-> by]) ELSE s
    BY <1>2, <1>7, <2>2
  <2>5. by \in {None} \cup Type
    BY <1>3, <1>5
  <2>6. Whole(f.net, s, by)
    BY <1>7, <1>8, <2>1, <2>3, <2>4, <2>5 DEF Whole
  <2> QED
    BY <2>2, <2>6
<1> QED
  BY <1>2, <1>4, <1>10, <1>11

\* The page in a body.
PageOf(s)     == [i \in 1 .. Len(s) |-> s[i].chunk]
Decoded(body) ==
  LET ended == body # << >> /\ Last(body).chunk = None
  IN  [i \in 1 .. Len(body) - (IF ended THEN 1 ELSE 0) |-> body[i].chunk]

LEMMA WholeDecoded ==
  ASSUME NEW n, NEW s, NEW b, Whole(n, s, b)
  PROVE  Decoded(n.body) = PageOf(s)
<1>1. s \in Seq(Piece) /\ \A i \in DOMAIN s : s[i].chunk # None
  BY DEF Whole
<1>2. PICK e : e.chunk = None /\ (n.body = s \/ n.body = Append(s, e))
  <2> DEFINE e == [chunk |-> None, by |-> b]
  <2>1. e.chunk = None
    OBVIOUS
  <2>2. n.body = s \/ n.body = Append(s, e)
    BY DEF Whole
  <2> HIDE DEF e
  <2> QED
    BY <2>1, <2>2
<1>3. CASE n.body = s
  <2>1. ~(s # << >> /\ Last(s).chunk = None)
    BY <1>1 DEF Last
  <2> QED
    BY <1>1, <1>3, <2>1 DEF Decoded, PageOf
<1>4. CASE n.body = Append(s, e)
  <2>1. PICK t : t = Append(s, e)
    OBVIOUS
  <2>2. Len(t) = Len(s) + 1 /\ t[Len(s) + 1] = e /\ \A i \in 1 .. Len(s) : t[i] = s[i]
    BY <1>1, <2>1
  <2>3. t # << >> /\ Last(t).chunk = None
    BY <1>1, <1>2, <2>1, <2>2 DEF Last
  <2>4. Decoded(t) = [i \in 1 .. Len(t) - 1 |-> t[i].chunk]
    BY <2>3 DEF Decoded
  <2>5. Len(t) - 1 = Len(s)
    BY <1>1, <2>2
  <2> QED
    BY <1>4, <2>1, <2>2, <2>4, <2>5 DEF PageOf
<1> QED
  BY <1>2, <1>3, <1>4

\* A body is compressed as its header says.
Truthful(n) ==
  LET ours == {i \in DOMAIN n.body : n.body[i].by # None}
  IN  IF n.sent.header["Content-Encoding"] \in {<<t>> : t \in Type}
      THEN /\ ours = DOMAIN n.body
           /\ {i \in DOMAIN n.body : n.body[i].chunk = None} = {Len(n.body)}
           /\ \A i \in ours : <<n.body[i].by>> = n.sent.header["Content-Encoding"]
      ELSE ours = {}

LEMMA WholeTruthful ==
  ASSUME NEW n, NEW s, NEW b, Whole(n, s, b), BodyAllowed(n.sent.status)
  PROVE  Truthful(n)
<1>1. s \in Seq(Piece) /\ \A i \in DOMAIN s : s[i].chunk # None /\ s[i].by = b
  BY DEF Whole
<1>2. CASE b = None
  <2>1. n.body = s /\ n.sent.header["Content-Encoding"] \in Foreign
    BY <1>2 DEF Whole
  <2>2. {i \in DOMAIN n.body : n.body[i].by # None} = {}
    BY <1>1, <1>2, <2>1
  <2>3. n.sent.header["Content-Encoding"] \notin {<<t>> : t \in Type}
    <3>1. \A t \in Type : t # "br"
      BY TypeFacts
    <3>2. \A t \in Type : <<t>> # << >> /\ <<t>> # <<"br">>
      BY <3>1
    <3> QED
      BY <2>1, <3>2 DEF Foreign
  <2> QED
    BY <2>2, <2>3 DEF Truthful
<1>3. CASE b # None
  <2>1. b \in Type /\ n.sent.header["Content-Encoding"] = <<b>>
    BY <1>3 DEF Whole
  <2>2. PICK e : e.chunk = None /\ e.by = b /\ n.body = Append(s, e)
    <3> DEFINE e == [chunk |-> None, by |-> b]
    <3>1. e.chunk = None /\ e.by = b
      OBVIOUS
    <3>2. n.body = Append(s, e)
      BY <1>3 DEF Whole
    <3> HIDE DEF e
    <3> QED
      BY <3>1, <3>2
  <2>3. Len(n.body) = Len(s) + 1 /\ n.body[Len(s) + 1] = e /\ \A i \in 1 .. Len(s) : n.body[i] = s[i]
    BY <1>1, <2>2
  <2>4. DOMAIN n.body = 1 .. Len(s) + 1 /\ Len(s) \in Nat
    BY <1>1, <2>2
  <2>5. \A i \in 1 .. Len(s) + 1 : n.body[i].by = b /\ (n.body[i].chunk = None <=> i = Len(s) + 1)
    <3> SUFFICES ASSUME NEW i \in 1 .. Len(s) + 1
                 PROVE  n.body[i].by = b /\ (n.body[i].chunk = None <=> i = Len(s) + 1)
      OBVIOUS
    <3>1. CASE i = Len(s) + 1
      BY <2>2, <2>3, <3>1
    <3>2. CASE i # Len(s) + 1
      <4>1. i \in 1 .. Len(s) /\ i \in DOMAIN s
        BY <1>1, <2>4, <3>2
      <4> QED
        BY <1>1, <2>3, <3>2, <4>1
    <3> QED
      BY <3>1, <3>2
  <2>6. {i \in DOMAIN n.body : n.body[i].by # None} = DOMAIN n.body
    BY <1>3, <2>4, <2>5
  <2>7. {i \in DOMAIN n.body : n.body[i].chunk = None} = {Len(n.body)}
    BY <2>3, <2>4, <2>5
  <2>8. \A i \in DOMAIN n.body : <<n.body[i].by>> = n.sent.header["Content-Encoding"]
    BY <2>1, <2>4, <2>5
  <2> QED
    BY <2>1, <2>6, <2>7, <2>8 DEF Truthful
<1> QED
  BY <1>2, <1>3

LEMMA EndedOnce ==
  ASSUME NEW o, Ended(o)
  PROVE  \E n \in Nat : /\ Sized(o, {<< >>, <<n>>}, n)
                        /\ o.net.sent = None => n = 0
<1>1. CASE NoLength(o)
  <2>1. PICK n \in Nat : n = 0
    OBVIOUS
  <2>2. Sized(o, {<< >>, <<n>>}, n)
    BY <1>1, <2>1 DEF NoLength, Sized
  <2> QED
    BY <2>1, <2>2
<1>2. CASE \E n \in Nat : Sized(o, {<< >>, <<n>>}, n)
  <2>1. PICK n \in Nat : Sized(o, {<< >>, <<n>>}, n)
    BY <1>2
  <2>2. <<n>> # << >> /\ {<< >>, <<n>>} # {<< >>}
    <3>1. <<n>> # << >>
      OBVIOUS
    <3>2. <<n>> \in {<< >>, <<n>>} /\ <<n>> \notin {<< >>}
      BY <3>1
    <3> QED
      BY <3>1, <3>2
  <2>3. o.net.sent = None => n = 0
    BY <2>1, <2>2 DEF Sized
  <2> QED
    BY <2>1, <2>3
<1> QED
  BY <1>1, <1>2 DEF Ended

\* A length is the length of the body as it is sent.
Exact(n) == n.sent.header["Content-Length"] \in {<< >>, <<Len(n.body)>>}

LEMMA FinishExact ==
  ASSUME NEW o, Fit(o), Ended(o), NEW f, f = Finished(o), BodyAllowed(f.net.sent.status)
  PROVE  Exact(f.net)
<1>1. PICK n \in Nat : Sized(o, {<< >>, <<n>>}, n) /\ (o.net.sent = None => n = 0)
  BY EndedOnce
<1>2. o \in Out
  BY DEF Fit
<1>3. CASE Bare(o)
  <2>1. Follows(o, f) /\ Whole(f.net, o.net.body, None)
    BY <1>2, <1>3, FinishBare
  <2>2. f.net.body = o.net.body
    BY <2>1 DEF Whole
  <2>3. CASE o.net.sent = None
    <3>1. o.net.header["Content-Length"] \in {<< >>, <<n>>} /\ n = 0
      BY <1>1, <2>3 DEF Sized
    <3>2. Len(f.net.body) = 0
      BY <1>3, <2>2, <2>3 DEF Bare
    <3>3. f.net.sent.header = o.net.header
      BY <2>1, <2>3 DEF Follows
    <3> QED
      BY <3>1, <3>2, <3>3 DEF Exact
  <2>4. CASE o.net.sent # None
    <3>1. f.net.sent.header = o.net.sent.header /\ f.net.sent.status = o.net.sent.status
      BY <2>1, <2>4 DEF Follows
    <3>2. /\ o.net.sent.header["Content-Length"] \in {<< >>, <<n>>}
          /\ o.net.sent.header["Content-Length"] # << >> => Len(o.net.body) = n
      BY <1>1, <2>4, <3>1 DEF Sized
    <3> QED
      BY <2>2, <3>1, <3>2 DEF Exact
  <2> QED
    BY <2>3, <2>4
<1>4. CASE Waiting(o)
  <2>1. PICK b : Opened(o, f) /\ Whole(f.net, << >>, b) /\ b = IF Compressable(o) THEN o.writer.compressionType ELSE None
    BY <1>2, <1>4, FinishWaiting
  <2>2. CASE b # None
    BY <2>1, <2>2 DEF Whole, Exact
  <2>3. CASE b = None
    <3>1. ~Compressable(o)
      <4>1. o.writer.compressionType # None
        BY <1>4, NoneFacts DEF Waiting
      <4> QED
        BY <2>1, <2>3, <4>1
    <3>2. f.net.sent.header["Content-Length"] = Eff(o, "Content-Length")
      BY <2>1, <3>1 DEF Opened
    <3>3. f.net.body = << >>
      BY <2>1, <2>3 DEF Whole
    <3>4. n = 0 /\ o.net.header["Content-Length"] = << >> /\ o.writer.headerMap["Content-Length"] \in {<< >>, <<n>>}
      BY <1>1, <1>4 DEF Waiting, Sized
    <3>5. Eff(o, "Content-Length") \in {<< >>, <<n>>}
      <4>1. Last(<<n>>) = n
        BY DEF Last
      <4> QED
        BY <3>4, <4>1 DEF Eff
    <3>6. Len(f.net.body) = n
      BY <3>3, <3>4
    <3> QED
      BY <3>2, <3>5, <3>6 DEF Exact
  <2> QED
    BY <2>2, <2>3
<1>5. CASE Flowing(o)
  <2>1. PICK b : f.net.sent = o.net.sent /\ Whole(f.net, o.net.body, b) /\ b = o.writer.compressionType
    BY <1>2, <1>5, FinishFlowing
  <2>2. CASE b # None
    BY <2>1, <2>2 DEF Whole, Exact
  <2>3. CASE b = None
    <3>1. f.net.body = o.net.body
      BY <2>1, <2>3 DEF Whole
    <3>2. o.net.sent # None
      BY <1>5 DEF Flowing
    <3>3. /\ o.net.sent.header["Content-Length"] \in {<< >>, <<n>>}
          /\ o.net.sent.header["Content-Length"] # << >> => Len(o.net.body) = n
      BY <1>1, <2>1, <3>2 DEF Sized
    <3> QED
      BY <2>1, <3>1, <3>3 DEF Exact
  <2> QED
    BY <2>2, <2>3
<1> QED
  BY <1>3, <1>4, <1>5 DEF Fit

LEMMA FinishTruthful ==
  ASSUME NEW o, Fit(o), NEW f, f = Finished(o), BodyAllowed(f.net.sent.status)
  PROVE  Truthful(f.net)
<1>1. o \in Out
  BY DEF Fit
<1>2. \E s, b : Whole(f.net, s, b)
  <2>1. CASE Bare(o)
    BY <1>1, <2>1, FinishBare
  <2>2. CASE Waiting(o)
    BY <1>1, <2>2, FinishWaiting
  <2>3. CASE Flowing(o)
    BY <1>1, <2>3, FinishFlowing
  <2> QED
    BY <2>1, <2>2, <2>3 DEF Fit
<1> QED
  BY <1>2, WholeTruthful

\* The two responses as they were sent.
Delivered(p, c, T, F, verb) ==
  /\ HeadersSent(p, c, T)
  /\ \/ c.net.sent.status \in F
     \/ /\ c.net.sent.status = p.net.sent.status
        /\ verb = "GET" => Decoded(c.net.body) = Decoded(p.net.body)

LEMMA AlikeFinish ==
  ASSUME NEW p, NEW c, NEW T, T \subseteq Loose, NEW F, NEW verb, Alike(p, c, T, F, verb),
         NEW q, NEW d, q = Finished(p), d = Finished(c)
  PROVE  Delivered(q, d, T, F, verb)
<1>1. p \in Out /\ c \in Out /\ Bare(p)
  BY DEF Alike
<1>2. Follows(p, q) /\ Whole(q.net, p.net.body, None)
  BY <1>1, FinishBare
<1>3. Decoded(q.net.body) = PageOf(p.net.body)
  BY <1>2, WholeDecoded
<1>4. CASE c = p
  BY <1>4 DEF Delivered, HeadersSent
<1>5. CASE Waiting(c) /\ Before(p, c, T, F)
  <2>1. PICK b : Opened(c, d) /\ Whole(d.net, << >>, b)
    BY <1>1, <1>5, FinishWaiting
  <2>2. HeadersSent(q, d, T) /\ (d.net.sent.status = q.net.sent.status \/ d.net.sent.status \in F)
    <3>1. T \subseteq Loose /\ c \in Out /\ Waiting(c) /\ Before(p, c, T, F)
      BY <1>1, <1>5
    <3>2. Opened(c, d) /\ Follows(p, q)
      BY <1>2, <2>1
    <3> QED
      BY ONLY <3>1, <3>2, AlikeOpened
  <2>3. Decoded(d.net.body) = PageOf(<< >>)
    BY <2>1, WholeDecoded
  <2>4. p.net.body = << >>
    BY <1>5 DEF Before
  <2> QED
    BY <1>3, <2>2, <2>3, <2>4 DEF Delivered
<1>6. CASE Flowing(c) /\ Behind(p, c, T, F, verb)
  <2>1. PICK b : d.net.sent = c.net.sent /\ Whole(d.net, c.net.body, b)
    BY <1>1, <1>6, FinishFlowing
  <2>2. Decoded(d.net.body) = PageOf(c.net.body)
    BY <2>1, WholeDecoded
  <2>3. p.net.sent # None
    BY <1>6 DEF Behind
  <2>4. q.net.sent.header = p.net.sent.header /\ q.net.sent.status = p.net.sent.status
    BY <1>2, <2>3 DEF Follows
  <2>5. HeadersSent(q, d, T)
    BY <1>6, <2>1, <2>4 DEF Behind, HeadersSent
  <2>6. ASSUME verb = "GET", SamePage(p, c, verb) PROVE PageOf(c.net.body) = PageOf(p.net.body)
    <3>1. PICK s, t : s = p.net.body /\ t = c.net.body
      OBVIOUS
    <3>2. s \in Seq(Piece) /\ Len(s) = Len(t) /\ \A i \in DOMAIN s : s[i].chunk = t[i].chunk
      BY <1>1, <2>6, <3>1, OutFacts DEF SamePage
    <3>3. DOMAIN s = 1 .. Len(s)
      BY <3>2
    <3> QED
      BY <3>1, <3>2, <3>3 DEF PageOf
  <2> QED
    BY <1>3, <1>6, <2>1, <2>2, <2>4, <2>5, <2>6 DEF Behind, StatusSent, Delivered
<1> QED
  BY <1>4, <1>5, <1>6 DEF Alike

-----------------------------------------------------------------------------
(* What filters and the action do before there is a result.                   *)
Pair(p, c, T, verb) == Alike(p, c, T, {}, verb) /\ Unsent(p, c) /\ NoLength(p) /\ NoLength(c)

\* The same was done on both sides; d is what c has become.
Kept(p, c, q, d, T, verb) ==
  Pair(q, d, T, verb) /\ (c = p /\ p.net.sent = None => d = q /\ q.net.sent = None)

LEMMA PairOut ==
  ASSUME NEW p, NEW c, NEW T, NEW verb, Pair(p, c, T, verb)
  PROVE  /\ p \in Out /\ c \in Out /\ Fit(p) /\ Fit(c)
         /\ Alike(p, c, T, {}, verb) /\ Unsent(p, c) /\ NoLength(p) /\ NoLength(c)
  BY AlikeFit DEF Pair

LEMMA PairChanged ==
  ASSUME NEW p, NEW c, NEW T, NEW verb, Pair(p, c, T, verb), NEW U, T \subseteq U,
         NEW k \in Header \ {"Set-Cookie", "Content-Length"}, NEW v, NEW u, NEW q, NEW d,
         Changed(p, q, k, v), Changed(c, d, k, u),
         k = "Content-Encoding" => v \in Foreign /\ u \in Foreign,
         k \in U \/ (u = v /\ \E e : v = <<e>>),
         c = p => d = q
  PROVE  Kept(p, c, q, d, U, verb)
<1>1. /\ p \in Out /\ c \in Out /\ Fit(p) /\ Fit(c)
      /\ Alike(p, c, T, {}, verb) /\ Unsent(p, c) /\ NoLength(p) /\ NoLength(c)
  BY PairOut
<1>2. Alike(q, d, U, {}, verb)
  <2>1. Waiting(c) => p.net.sent = None \/ Shown(p, k) = v
    BY <1>1 DEF Unsent
  <2>2. Alike(p, c, T, {}, verb)
    BY <1>1
  <2> QED
    BY <2>1, <2>2, AlikeChanged
<1>3. Keeps(p, q)
  BY <1>1, ChangedKeeps
<1>4. Keeps(c, d)
  BY <1>1, ChangedKeeps
<1>5. NoLength(q) /\ NoLength(d)
  BY <1>1, <1>3, <1>4 DEF Keeps, NoLength
<1>6. q.net.sent = p.net.sent
  BY DEF Changed
<1>7. Unsent(q, d)
  <2>1. Fit(d) /\ Buffers(d) = Buffers(c)
    BY <1>4, BufferFacts DEF Keeps
  <2> QED
    BY <1>1, <1>6, <2>1, UnsentAfter
<1> QED
  BY <1>2, <1>5, <1>6, <1>7 DEF Kept, Pair

LEMMA PairCookie ==
  ASSUME NEW p, NEW c, NEW T, NEW verb, Pair(p, c, T, verb), NEW e \in Nat,
         NEW q, NEW d, q = SetCookie(p, e), d = SetCookie(c, e)
  PROVE  Kept(p, c, q, d, T, verb)
<1>1. /\ p \in Out /\ c \in Out /\ Fit(p) /\ Fit(c)
      /\ Alike(p, c, T, {}, verb) /\ Unsent(p, c) /\ NoLength(p) /\ NoLength(c)
  BY PairOut
<1>2. Alike(q, d, T, {}, verb)
  BY <1>1, AlikeCookie DEF Unsent
<1>3. Keeps(p, q) /\ Keeps(c, d)
  BY <1>1, CookieKeeps
<1>5. NoLength(q) /\ NoLength(d)
  BY <1>1, <1>3 DEF Keeps, NoLength
<1>6. q.net.sent = p.net.sent
  <2>1. LET r == SetCookie(p, e) IN r.net.sent = p.net.sent
    BY <1>1, SetCookieFacts
  <2> QED
    BY <2>1
<1>7. Unsent(q, d)
  <2>1. Buffers(d) = Buffers(c)
    <3>1. LET r == SetCookie(c, e)
          IN  IF Buffers(c)
              THEN r.writer # None /\ r.writer.released = c.writer.released
              ELSE r.writer = c.writer
      BY <1>1, SetCookieFacts
    <3> QED
      BY <3>1 DEF Buffers
  <2>2. Fit(d)
    BY <1>3 DEF Keeps
  <2> QED
    BY <1>1, <1>6, <2>1, <2>2, UnsentAfter
<1> QED
  BY <1>2, <1>5, <1>6, <1>7 DEF Kept, Pair

LEMMA PairSame ==
  ASSUME NEW p, NEW c, NEW T, NEW verb, Pair(p, c, T, verb), NEW q, NEW d,
         Same(p, q), Same(c, d), q.status = d.status, q.contentType = d.contentType, c = p => d = q
  PROVE  Kept(p, c, q, d, T, verb)
<1>1. /\ p \in Out /\ c \in Out /\ Fit(p) /\ Fit(c)
      /\ Alike(p, c, T, {}, verb) /\ Unsent(p, c) /\ NoLength(p) /\ NoLength(c)
  BY PairOut
<1>2. Alike(q, d, T, {}, verb)
  BY <1>1, AlikeSame
<1>3. Keeps(p, q) /\ Keeps(c, d)
  BY <1>1, SameKeeps
<1>5. NoLength(q) /\ NoLength(d)
  BY <1>1, <1>3 DEF Keeps, NoLength
<1>6. q.net.sent = p.net.sent
  BY DEF Same
<1>7. Unsent(q, d)
  <2>1. Fit(d) /\ Buffers(d) = Buffers(c)
    BY <1>3, BufferFacts DEF Keeps
  <2> QED
    BY <1>1, <1>6, <2>1, UnsentAfter
<1> QED
  BY <1>2, <1>5, <1>6, <1>7 DEF Kept, Pair

LEMMA PairWrite ==
  ASSUME NEW p, NEW c, NEW T, T \subseteq Loose, NEW verb, Pair(p, c, T, verb), NEW chunk \in Chunk,
         NEW q, NEW d, q = Write(p, chunk), d = Write(c, chunk)
  PROVE  Pair(q, d, T, verb)
<1>1. /\ p \in Out /\ c \in Out /\ Fit(p) /\ Fit(c)
      /\ Alike(p, c, T, {}, verb) /\ Unsent(p, c) /\ NoLength(p) /\ NoLength(c)
  BY PairOut
<1>2. Alike(q, d, T, {}, verb)
  <2>1. Alike(p, c, T, {}, verb)
    BY <1>1
  <2> QED
    BY <2>1, AlikeWrite
<1>3. Writes(p, q)
  BY <1>1, WriteWrites
<1>4. Writes(c, d)
  BY <1>1, WriteWrites
<1>5. ASSUME NEW o, NEW r, Writes(o, r), NoLength(o) PROVE NoLength(r)
  <2>1. PICK S, w : S = {<< >>} /\ w = 0
    OBVIOUS
  <2>2. S \in Sizes /\ w \in Nat /\ Sized(o, S, w)
    BY <1>5, <2>1, NoLengthFacts DEF NoLength
  <2>3. Sized(r, S, w + 1)
    BY <1>5, <2>2 DEF Writes
  <2> QED
    BY <2>1, <2>3, NoLengthFacts
<1>6. NoLength(q) /\ NoLength(d)
  BY <1>1, <1>3, <1>4, <1>5
<1>7. Unsent(q, d)
  BY <1>4 DEF Unsent, Writes
<1> QED
  BY <1>2, <1>6, <1>7 DEF Pair

\* CompressFilter.
LEMMA NewWriterFacts ==
  ASSUME NEW type \in Type
  PROVE  LET w == NewWriter(type) IN
         /\ w \in Writer /\ w # None /\ w.compressionType = type /\ ~w.headersWritten /\ ~w.closed
         /\ ~w.released /\ w.cookieList = << >> /\ w.status = 0
         /\ \A k \in Header : w.headerMap[k] = << >>
<1>1. NoHeader \in Headers
  BY DEF NoHeader, Headers
<1>2. NewWriter(type) \in Writer
  <2>1. Range(compressionTypes) = Type
    BY TypeFacts
  <2> QED
    BY <1>1, <2>1 DEF NewWriter, Writer
<1>3. \A k \in Header : NoHeader[k] = << >>
  BY DEF NoHeader
<1> QED
  BY <1>2, <1>3, NoneFacts DEF NewWriter

LEMMA PairCompressed ==
  ASSUME NEW p, NEW T, NEW verb, Pair(p, p, T, verb), p.net.sent = None, NEW type \in Type,
         NEW d, d = [p EXCEPT !.writer = NewWriter(type)]
  PROVE  Pair(p, d, T, verb)
<1>1. p \in Out /\ NoLength(p) /\ Bare(p)
  BY PairOut DEF Alike
<1>2. PICK w : w = NewWriter(type)
  OBVIOUS
<1>3. /\ w \in Writer /\ w # None /\ w.compressionType = type /\ ~w.headersWritten /\ ~w.closed
      /\ ~w.released /\ w.cookieList = << >> /\ w.status = 0
      /\ \A k \in Header : w.headerMap[k] = << >>
  <2>1. LET x == NewWriter(type) IN
         /\ x \in Writer /\ x # None /\ x.compressionType = type /\ ~x.headersWritten /\ ~x.closed
         /\ ~x.released /\ x.cookieList = << >> /\ x.status = 0
         /\ \A k \in Header : x.headerMap[k] = << >>
    BY NewWriterFacts
  <2> QED
    BY <1>2, <2>1
<1>4. /\ d \in Out /\ d.net = p.net /\ d.writer = w /\ w # None
      /\ d.status = p.status /\ d.contentType = p.contentType
  BY <1>1, <1>2, <1>3, WriterFacts
<1>5. p.net.header["Content-Length"] = << >> /\ p.net.body = << >>
  BY <1>1 DEF NoLength, Sized, Bare
<1>6. Waiting(d)
  <2>1. << >> \in Foreign /\ p.net.header["Content-Encoding"] \in Foreign
    BY <1>1 DEF Foreign, Bare
  <2> QED
    BY <1>3, <1>4, <1>5, <2>1, HeaderNames DEF Waiting
<1>7. HeadersWait(p, d, T)
  BY <1>3, <1>4 DEF HeadersWait, Eff, Shown
<1>8. CookiesWait(p, d)
  <2>1. p.net.header \in Headers
    BY <1>1, OutFacts
  <2>2. PICK h : h = p.net.header["Set-Cookie"]
    OBVIOUS
  <2>3. h \in Seq(Text \cup Nat)
    BY <2>1, <2>2, HeaderNames DEF Headers
  <2>4. h \o << >> = h
    BY <2>3
  <2> QED
    BY <1>3, <1>4, <2>2, <2>4 DEF CookiesWait, Shown
<1>9. StatusWaits(p, d, {})
  BY <1>3, <1>4 DEF StatusWaits
<1>10. Alike(p, d, T, {}, verb)
  BY <1>1, <1>4, <1>5, <1>6, <1>7, <1>8, <1>9 DEF Alike, Before
<1>11. NoLength(d)
  BY <1>3, <1>4, <1>5, HeaderNames DEF NoLength, Sized
<1>12. Unsent(p, d)
  BY DEF Unsent
<1> QED
  BY <1>1, <1>10, <1>11, <1>12 DEF Pair

-----------------------------------------------------------------------------
(* A response that has no Content-Length, on its own.                         *)
Clean(o) == Fit(o) /\ NoLength(o)
KeepsClean(o, r) == Clean(o) => Clean(r)

LEMMA CleanKeeps ==
  ASSUME NEW o, NEW r, Clean(o) => Keeps(o, r)
  PROVE  KeepsClean(o, r)
  BY DEF KeepsClean, Clean, Keeps, NoLength

LEMMA CleanChanged ==
  ASSUME NEW o, NEW k \in Header \ {"Set-Cookie", "Content-Length"}, NEW r,
         o \in Out => \E v : Changed(o, r, k, v) /\ (k = "Content-Encoding" => v \in Foreign)
  PROVE  KeepsClean(o, r)
<1>1. ASSUME Clean(o) PROVE Keeps(o, r)
  <2>1. Fit(o) /\ o \in Out
    BY <1>1 DEF Clean, Fit
  <2>2. PICK v : Changed(o, r, k, v) /\ (k = "Content-Encoding" => v \in Foreign)
    BY <2>1
  <2> QED
    BY <2>1, <2>2, ChangedKeeps
<1> QED
  BY <1>1, CleanKeeps

LEMMA CleanWrite ==
  ASSUME NEW o, NEW chunk \in Chunk, NEW r, r = Write(o, chunk)
  PROVE  KeepsClean(o, r)
<1>1. ASSUME Clean(o) PROVE Clean(r)
  <2>1. Fit(o) /\ NoLength(o)
    BY <1>1 DEF Clean
  <2>2. Writes(o, r)
    BY <2>1, WriteWrites
  <2>3. PICK S, w : S = {<< >>} /\ w = 0
    OBVIOUS
  <2>4. S \in Sizes /\ w \in Nat /\ Sized(o, S, w)
    BY <2>1, <2>3, NoLengthFacts DEF NoLength
  <2>5. Sized(r, S, w + 1)
    BY <2>2, <2>4 DEF Writes
  <2>6. NoLength(r)
    BY <2>3, <2>5, NoLengthFacts
  <2> QED
    BY <2>2, <2>6 DEF Clean, Writes
<1> QED
  BY <1>1 DEF KeepsClean

(* The head is sent once more, when it has gone out on both sides.            *)
LEMMA PairStatus ==
  ASSUME NEW p, NEW c, NEW T, NEW verb, Pair(p, c, T, verb), p.net.sent # None, NEW e \in Nat, e > 0,
         NEW q, NEW d, q = SetStatus(p, e), d = SetStatus(c, e)
  PROVE  Pair(q, d, T, verb)
<1>1. /\ p \in Out /\ c \in Out /\ Fit(p) /\ Fit(c)
      /\ Alike(p, c, T, {}, verb) /\ Unsent(p, c) /\ NoLength(p) /\ NoLength(c)
  BY PairOut
<1>2. ~Waiting(c)
  BY <1>1 DEF Unsent
<1>3. Alike(q, d, T, {}, verb)
  BY <1>1, <1>2, AlikeStatus
<1>4. Keeps(p, q) /\ Keeps(c, d)
  BY <1>1, StatusKeeps
<1>5. NoLength(q) /\ NoLength(d) /\ Fit(d)
  BY <1>1, <1>4 DEF Keeps, NoLength
<1>6. Unsent(q, d)
  <2>1. Buffers(d) = Buffers(c)
    BY <1>1, StatusBuffers
  <2> QED
    BY <1>1, <1>2, <1>5, <2>1, BufferFacts DEF Unsent
<1> QED
  BY <1>3, <1>5, <1>6 DEF Pair

LEMMA PairHead ==
  ASSUME NEW p, NEW c, NEW T, NEW verb, Pair(p, c, T, verb), p.net.sent # None,
         NEW status \in Nat, status > 0, NEW type \in Text,
         NEW q, NEW d, q = ResponseWriteHeader(p, status, type), d = ResponseWriteHeader(c, status, type)
  PROVE  Pair(q, d, T, verb)
<1>1. /\ p \in Out /\ c \in Out /\ Fit(p) /\ Fit(c)
      /\ Alike(p, c, T, {}, verb) /\ Unsent(p, c) /\ NoLength(p) /\ NoLength(c)
  BY PairOut
<1>2. ~Waiting(c) /\ Ready(p, c, {})
  BY <1>1, UnsentReady DEF Unsent
<1>3. Alike(q, d, T, {}, verb)
  BY <1>1, <1>2, AlikeHead
<1>4. Keeps(p, q) /\ Keeps(c, d)
  BY <1>1, HeadKeeps
<1>5. NoLength(q) /\ NoLength(d) /\ Fit(d)
  BY <1>1, <1>4 DEF Keeps, NoLength
<1>6. Buffers(d) = Buffers(c)
  <2>1. PICK y, x : HeadSteps(c, y, x, d, HeadStatus(c, status), HeadType(c, type))
    BY <1>1, HeadFacts
  <2>2. PICK s, t : s = HeadStatus(c, status) /\ t = HeadType(c, type)
    OBVIOUS
  <2>3. HeadSteps(c, y, x, d, s, t)
    BY <2>1, <2>2
  <2>4. s \in Nat
    BY <1>1, <2>2, OutFacts DEF HeadStatus
  <2>5. \E k, v : Changed(c, y, k, v)
    BY <2>3 DEF HeadSteps
  <2>6. Same(y, x) /\ d = SetStatus(x, s) /\ x \in Out
    BY <2>3 DEF HeadSteps, Same
  <2>7. Buffers(y) = Buffers(c)
    BY <2>5, BufferFacts
  <2>8. Buffers(x) = Buffers(y)
    BY <2>6, BufferFacts
  <2>9. Buffers(d) = Buffers(x)
    BY <2>4, <2>6, StatusBuffers
  <2> QED
    BY <2>7, <2>8, <2>9
<1>7. Unsent(q, d)
  BY <1>1, <1>2, <1>5, <1>6, BufferFacts DEF Unsent
<1> QED
  BY <1>3, <1>5, <1>7 DEF Pair

-----------------------------------------------------------------------------
(* The inductive invariant.                                                   *)
Starting == {"received", "outer"}
Open     == {"received", "outer", "inner"}

Types ==
  /\ method \in {"GET", "HEAD"} /\ phase \in Open \cup {"applied", "done"}
  /\ steps \in Nat /\ touched \subseteq {"X"} /\ offer \in {None} \cup Type
  /\ head \in {"late", "outer", "inner"}
  /\ phase = "received" => accept \in Seq(Coding)

Alone ==
  phase \in Starting =>
    /\ out["compressed"] = out["plain"] /\ head # "inner"
    /\ head = "late" => out["plain"].net.sent = None

\* Each of the two on its own; a head that was sent before CompressFilter says nothing
\* of the encoding.
Single ==
  phase \in Open =>
    /\ out = [s \in Side |-> out[s]] /\ Clean(out["plain"])
    /\ head # "outer" => Clean(out["compressed"])

Paired ==
  phase \in Open /\ head = "late" => Pair(out["plain"], out["compressed"], touched, method)

Complete(o) == Fit(o) /\ (method = "GET" => Ended(o))

Applied ==
  phase = "applied" =>
    /\ result \in Result
    /\ Undisturbed(result) =>
         /\ head = "late" =>
              Alike(out["plain"], out["compressed"], touched \cup OfferedBy(result), Failures(result), method)
         /\ Complete(out["plain"])
         /\ head # "outer" => Complete(out["compressed"])

Done == phase = "done" => Transparent /\ WireHonest

IInv == Types /\ Alone /\ Single /\ Paired /\ Applied /\ Done

LEMMA PhaseFacts ==
  /\ "plain" \in Side /\ "compressed" \in Side
  /\ "received" \in Open /\ "outer" \in Open /\ "inner" \in Open
  /\ "applied" \notin Open /\ "done" \notin Open /\ "applied" # "done"
  /\ "received" \in Starting /\ "outer" \in Starting
  /\ "inner" \notin Starting /\ "applied" \notin Starting /\ "done" \notin Starting
  /\ Starting \subseteq Open
  BY DEF Side, Open, Starting

LEMMA NoHeaderFacts == NoHeader \in Headers /\ \A k \in Header : NoHeader[k] = << >>
  BY DEF NoHeader, Headers

LEMMA EmptyBody == << >> \in Seq(Piece)
  OBVIOUS

LEMMA FreshOut ==
  ASSUME NEW o, o = [net |-> [header |-> NoHeader, sent |-> None, body |-> << >>],
                     writer |-> None, status |-> 0, contentType |-> ""], NEW verb
  PROVE  o \in Out /\ o.net.sent = None /\ Pair(o, o, {}, verb)
<1>1. NoHeader \in Headers /\ \A k \in Header : NoHeader[k] = << >>
  BY NoHeaderFacts
<1>2. PICK n : n = [header |-> NoHeader, sent |-> None, body |-> << >>]
  OBVIOUS
<1>3. n \in Net /\ n.header = NoHeader /\ n.sent = None /\ n.body = << >>
  BY ONLY <1>1, <1>2, EmptyBody DEF Net
<1>4. "" \in Text
  BY ErrorChunks
<1>5. PICK t, s : t = "" /\ s = 0
  OBVIOUS
<1>6. t \in Text /\ s \in Nat
  BY <1>4, <1>5
<1>7. o = [net |-> n, writer |-> None, status |-> s, contentType |-> t]
  BY <1>2, <1>5
<1>8. o \in Out /\ o.net = n /\ o.writer = None
  BY ONLY <1>3, <1>6, <1>7 DEF Out
<1>9. Bare(o)
  BY ONLY <1>1, <1>3, <1>8, HeaderNames DEF Bare, Foreign
<1>10. NoLength(o)
  BY <1>1, <1>3, <1>8, HeaderNames DEF NoLength, Sized
<1>11. Alike(o, o, {}, {}, verb)
  BY <1>8, <1>9 DEF Alike
<1>12. Unsent(o, o)
  BY <1>3, <1>8 DEF Unsent
<1> QED
  BY <1>3, <1>8, <1>10, <1>11, <1>12 DEF Pair

LEMMA InitIInv ==
  ASSUME Init
  PROVE  IInv
<1>1. phase = "received" /\ touched = {} /\ offer = None /\ steps = 0 /\ method \in {"GET", "HEAD"}
      /\ head = "late" /\ accept \in SeqOf(Coding, MaxCodings)
  BY DEF Init
<1>2. accept \in Seq(Coding)
  <2>1. PICK m \in 0 .. MaxCodings : accept \in [1 .. m -> Coding]
    BY <1>1 DEF SeqOf
  <2>2. m \in Nat
    BY <2>1, BoundAssumption
  <2> QED
    BY <2>1, <2>2, SeqDef
<1>3. Types
  <2>1. 0 \in Nat
    OBVIOUS
  <2> QED
    BY <1>1, <1>2, <2>1, PhaseFacts DEF Types
<1>4. PICK o : o = [net |-> [header |-> NoHeader, sent |-> None, body |-> << >>],
                    writer |-> None, status |-> 0, contentType |-> ""]
  OBVIOUS
<1>5. out = [s \in Side |-> o]
  BY <1>4 DEF Init
<1>6. o \in Out /\ o.net.sent = None /\ Pair(o, o, {}, method)
  BY <1>4, FreshOut
<1>7. out["plain"] = o /\ out["compressed"] = o /\ out \in [Side -> Out]
  BY <1>5, <1>6, PhaseFacts
<1>8. Alone /\ Paired
  BY <1>1, <1>6, <1>7 DEF Alone, Paired
<1>10. Single
  <2>1. Clean(o) /\ out = [s \in Side |-> out[s]]
    BY <1>5, <1>6, PairOut DEF Clean
  <2> QED
    BY <1>7, <2>1 DEF Single
<1>9. Applied /\ Done
  BY <1>1 DEF Applied, Done
<1> QED
  BY <1>3, <1>8, <1>9, <1>10 DEF IInv

\* What filters and the action do.
LEMMA ActsIInv ==
  ASSUME IInv, NEW outcome, NEW names, names \subseteq {"X"}, Acts(outcome, names),
         outcome = [s \in Side |-> outcome[s]], head' \in {"late", "outer", "inner"},
         Clean(outcome["plain"]), head' # "outer" => Clean(outcome["compressed"]),
         head' = "late" => Pair(outcome["plain"], outcome["compressed"], touched \cup names, method),
         phase # "inner" => /\ outcome["compressed"] = outcome["plain"] /\ head' # "inner"
                            /\ head' = "late" => outcome["plain"].net.sent = None
  PROVE  IInv'
<1>1. /\ phase \in Open /\ phase' = phase /\ steps' = steps + 1 /\ touched' = touched \cup names
      /\ out' = outcome /\ accept' = accept /\ offer' = offer /\ method' = method
  BY DEF Acts, Open
<1>2. Types'
  BY <1>1 DEF IInv, Types
<1>3. phase \in Starting => phase # "inner"
  BY PhaseFacts
<1>4. Alone'
  BY <1>1, <1>3 DEF Alone
<1>5. Single'
  BY <1>1 DEF Single
<1>7. Paired'
  BY <1>1 DEF Paired
<1>8. phase' # "applied" /\ phase' # "done"
  BY <1>1, PhaseFacts
<1>9. Applied' /\ Done'
  BY <1>8 DEF Applied, Done
<1> QED
  BY <1>2, <1>4, <1>5, <1>7, <1>9 DEF IInv

\* Does: q and d are what the two responses become.
LEMMA KeptIInv ==
  ASSUME IInv, NEW outcome, NEW names, names \subseteq {"X"}, Does(outcome, names), NEW q, NEW d,
         outcome = [s \in Side |-> IF s = "plain" THEN q ELSE d],
         Pair(out["plain"], out["compressed"], touched, method) =>
           Kept(out["plain"], out["compressed"], q, d, touched \cup names, method),
         KeepsClean(out["plain"], q), KeepsClean(out["compressed"], d),
         out["compressed"] = out["plain"] => d = q
  PROVE  IInv'
<1>1. phase \in Open /\ (phase # "inner" => phase \in Starting) /\ Acts(outcome, names) /\ head' = head
  BY DEF Does, Acts, Open, Starting
<1>2. head = "late" => Kept(out["plain"], out["compressed"], q, d, touched \cup names, method)
  BY <1>1 DEF IInv, Paired
<1>3. outcome["plain"] = q /\ outcome["compressed"] = d /\ outcome = [s \in Side |-> outcome[s]]
  BY DEF Side
<1>4. head' = "late" => Pair(outcome["plain"], outcome["compressed"], touched \cup names, method)
  BY <1>1, <1>2, <1>3 DEF Kept
<1>5. phase # "inner" => /\ outcome["compressed"] = outcome["plain"] /\ head' # "inner"
                         /\ head' = "late" => outcome["plain"].net.sent = None
  BY <1>1, <1>2, <1>3 DEF Kept, IInv, Alone
<1>6. Clean(outcome["plain"]) /\ (head' # "outer" => Clean(outcome["compressed"]))
  BY <1>1, <1>3 DEF KeepsClean, IInv, Single
<1>7. head' \in {"late", "outer", "inner"}
  BY <1>1 DEF IInv, Types
<1> QED
  BY <1>1, <1>3, <1>4, <1>5, <1>6, <1>7, ActsIInv

\* Sends: both are paired after it only when the head had been sent.
LEMMA SendsIInv ==
  ASSUME IInv, NEW outcome, Sends(outcome), NEW q, NEW d,
         outcome = [s \in Side |-> IF s = "plain" THEN q ELSE d],
         Pair(out["plain"], out["compressed"], touched, method) /\ out["plain"].net.sent # None =>
           Pair(q, d, touched, method),
         KeepsClean(out["plain"], q), KeepsClean(out["compressed"], d),
         out["compressed"] = out["plain"] => d = q
  PROVE  IInv'
<1>1. /\ phase \in {"outer", "inner"} /\ phase \in Open /\ (phase # "inner" => phase \in Starting)
      /\ Acts(outcome, {})
      /\ head' = IF head = "late" /\ out["plain"].net.sent = None THEN phase ELSE head
  BY DEF Sends, Acts, Open, Starting
<1>2. head \in {"late", "outer", "inner"}
  BY DEF IInv, Types
<1>3. outcome["plain"] = q /\ outcome["compressed"] = d /\ outcome = [s \in Side |-> outcome[s]]
  BY DEF Side
<1>4. head' = "late" => head = "late" /\ out["plain"].net.sent # None
  BY <1>1
<1>5. head' = "late" => Pair(outcome["plain"], outcome["compressed"], touched \cup {}, method)
  <2>1. touched \cup {} = touched
    OBVIOUS
  <2> QED
    BY <1>1, <1>3, <1>4, <2>1 DEF IInv, Paired
<1>6. phase # "inner" => /\ outcome["compressed"] = outcome["plain"] /\ head' # "inner"
                         /\ head' = "late" => outcome["plain"].net.sent = None
  BY <1>1, <1>3, <1>4 DEF IInv, Alone
<1>7. Clean(outcome["plain"]) /\ (head' # "outer" => Clean(outcome["compressed"]))
  <2>1. head' # "outer" => head # "outer"
    BY <1>1
  <2> QED
    BY <1>1, <1>3, <2>1 DEF KeepsClean, IInv, Single
<1>8. head' \in {"late", "outer", "inner"} /\ {} \subseteq {"X"}
  BY <1>1, <1>2
<1> QED
  BY <1>1, <1>3, <1>5, <1>6, <1>7, <1>8, ActsIInv

LEMMA SetHeaderIInv ==
  ASSUME IInv, SetHeader
  PROVE  IInv'
<1>1. PICK e \in {<<"X", 1>>, <<"X", 2>>, <<"Content-Encoding", "br">>} :
        Does([s \in Side |-> HeaderSet(out[s], e[1], e[2])], {})
  BY DEF SetHeader
<1>2. PICK k, a : k = e[1] /\ a = e[2]
  OBVIOUS
<1>3. k \in Header \ {"Set-Cookie", "Content-Length"} /\ a \in Atom /\ (k = "Content-Encoding" => <<a>> \in Foreign)
  <2>1. CASE e = <<"X", 1>> \/ e = <<"X", 2>>
    <3>1. k = "X" /\ a \in Nat
      BY <1>2, <2>1
    <3> QED
      BY <3>1, HeaderNames DEF Atom
  <2>2. CASE e = <<"Content-Encoding", "br">>
    <3>1. k = "Content-Encoding" /\ a = "br"
      BY <1>2, <2>2
    <3>2. a \in Atom /\ <<a>> \in Foreign
      BY <3>1 DEF Atom, Text, Foreign
    <3> QED
      BY <3>1, <3>2, HeaderNames
  <2> QED
    BY <1>1, <2>1, <2>2
<1>4. PICK p, c, q, d, v : /\ p = out["plain"] /\ c = out["compressed"] /\ v = <<a>>
                           /\ q = HeaderSet(p, k, a) /\ d = HeaderSet(c, k, a)
  OBVIOUS
<1>5. PICK outcome : outcome = [s \in Side |-> HeaderSet(out[s], k, a)]
  OBVIOUS
<1>6. outcome = [s \in Side |-> IF s = "plain" THEN q ELSE d]
  BY <1>4, <1>5 DEF Side
<1>7. Does(outcome, {})
  BY <1>1, <1>2, <1>5
<1>8. ASSUME Pair(p, c, touched, method) PROVE Kept(p, c, q, d, touched \cup {}, method)
  <2>1. p \in Out /\ c \in Out
    BY <1>8, PairOut
  <2>2. Changed(p, q, k, v) /\ Changed(c, d, k, v)
    BY <1>3, <1>4, <2>1, HeaderSetFacts
  <2>3. (k = "Content-Encoding" => v \in Foreign) /\ (\E x : v = <<x>>) /\ (c = p => d = q)
    BY <1>3, <1>4
  <2>4. PICK T, U : T = touched /\ U = touched \cup {}
    OBVIOUS
  <2>5. T \subseteq U /\ Pair(p, c, T, method)
    BY <1>8, <2>4
  <2>6. k \in Header \ {"Set-Cookie", "Content-Length"}
    BY <1>3
  <2>7. Kept(p, c, q, d, U, method)
    BY ONLY <2>2, <2>3, <2>5, <2>6, PairChanged
  <2> QED
    BY <2>4, <2>7
<1>9. {} \subseteq {"X"}
  OBVIOUS
<1>11. /\ KeepsClean(out["plain"], q) /\ KeepsClean(out["compressed"], d)
       /\ out["compressed"] = out["plain"] => d = q
  <2>1. ASSUME NEW o \in Out, NEW r, r = HeaderSet(o, k, a)
        PROVE  \E x : Changed(o, r, k, x) /\ (k = "Content-Encoding" => x \in Foreign)
    BY <1>3, <2>1, HeaderSetFacts
  <2>2. KeepsClean(p, q) /\ KeepsClean(c, d)
    BY <1>3, <1>4, <2>1, CleanChanged
  <2> QED
    BY <1>4, <2>2
<1> QED
  BY <1>4, <1>6, <1>7, <1>8, <1>9, <1>11, KeptIInv

LEMMA AddHeaderIInv ==
  ASSUME IInv, AddHeader
  PROVE  IInv'
<1>1. PICK k, names : k = "X" /\ names = {"X"}
  OBVIOUS
<1>2. PICK a \in Nat : a = 3
  OBVIOUS
<1>3. k \in Header \ {"Set-Cookie", "Content-Length"} /\ k # "Content-Encoding" /\ a \in Atom
      /\ k \in names /\ names \subseteq {"X"}
  <2>1. k \in Header \ {"Set-Cookie", "Content-Length"} /\ k # "Content-Encoding"
    BY <1>1, HeaderNames
  <2>2. a \in Atom
    BY DEF Atom
  <2> QED
    BY <1>1, <2>1, <2>2
<1>4. PICK p, c, q, d : /\ p = out["plain"] /\ c = out["compressed"]
                        /\ q = HeaderAdd(p, k, a) /\ d = HeaderAdd(c, k, a)
  OBVIOUS
<1>5. PICK outcome : outcome = [s \in Side |-> HeaderAdd(out[s], k, a)]
  OBVIOUS
<1>6. outcome = [s \in Side |-> IF s = "plain" THEN q ELSE d]
  BY <1>4, <1>5 DEF Side
<1>7. Does(outcome, names)
  BY <1>1, <1>2, <1>5 DEF AddHeader
<1>8. ASSUME Pair(p, c, touched, method) PROVE Kept(p, c, q, d, touched \cup names, method)
  <2>1. p \in Out /\ c \in Out
    BY <1>8, PairOut
  <2>2. PICK v : Changed(p, q, k, v)
    BY <1>3, <1>4, <2>1, HeaderAddFacts
  <2>3. PICK u : Changed(c, d, k, u)
    BY <1>3, <1>4, <2>1, HeaderAddFacts
  <2>4. PICK T, U : T = touched /\ U = touched \cup names
    OBVIOUS
  <2>5. T \subseteq U /\ Pair(p, c, T, method) /\ k \in U
    BY <1>3, <1>8, <2>4
  <2>6. (c = p => d = q) /\ k \in Header \ {"Set-Cookie", "Content-Length"} /\ k # "Content-Encoding"
    BY <1>3, <1>4
  <2>7. Kept(p, c, q, d, U, method)
    BY ONLY <2>2, <2>3, <2>5, <2>6, PairChanged
  <2> QED
    BY <2>4, <2>7
<1>9. Pair(out["plain"], out["compressed"], touched, method) =>
        Kept(out["plain"], out["compressed"], q, d, touched \cup names, method)
  BY <1>4, <1>8
<1>10. names \subseteq {"X"} /\ IInv
  BY <1>3
<1>11. /\ KeepsClean(out["plain"], q) /\ KeepsClean(out["compressed"], d)
       /\ out["compressed"] = out["plain"] => d = q
  <2>1. ASSUME NEW o \in Out, NEW r, r = HeaderAdd(o, k, a)
        PROVE  \E x : Changed(o, r, k, x) /\ (k = "Content-Encoding" => x \in Foreign)
    BY <1>3, <2>1, HeaderAddFacts
  <2>2. KeepsClean(p, q) /\ KeepsClean(c, d)
    BY <1>3, <1>4, <2>1, CleanChanged
  <2> QED
    BY <1>4, <2>2
<1> QED
  BY ONLY <1>6, <1>7, <1>9, <1>10, <1>11, KeptIInv

LEMMA DelHeaderIInv ==
  ASSUME IInv, DelHeader
  PROVE  IInv'
<1>1. PICK k, names : k = "X" /\ names = {"X"}
  OBVIOUS
<1>3. k \in Header \ {"Set-Cookie", "Content-Length"} /\ k # "Content-Encoding"
      /\ k \in names /\ names \subseteq {"X"}
  BY <1>1, HeaderNames
<1>4. PICK p, c, q, d, v : /\ p = out["plain"] /\ c = out["compressed"] /\ v = << >>
                           /\ q = HeaderDel(p, k) /\ d = HeaderDel(c, k)
  OBVIOUS
<1>5. PICK outcome : outcome = [s \in Side |-> HeaderDel(out[s], k)]
  OBVIOUS
<1>6. outcome = [s \in Side |-> IF s = "plain" THEN q ELSE d]
  BY <1>4, <1>5 DEF Side
<1>7. Does(outcome, names)
  BY <1>1, <1>5 DEF DelHeader
<1>8. ASSUME Pair(p, c, touched, method) PROVE Kept(p, c, q, d, touched \cup names, method)
  <2>1. p \in Out /\ c \in Out
    BY <1>8, PairOut
  <2>2. Changed(p, q, k, v) /\ Changed(c, d, k, v)
    BY <1>3, <1>4, <2>1, HeaderDelFacts
  <2>4. PICK T, U : T = touched /\ U = touched \cup names
    OBVIOUS
  <2>5. T \subseteq U /\ Pair(p, c, T, method) /\ k \in U
    BY <1>3, <1>8, <2>4
  <2>6. (c = p => d = q) /\ k \in Header \ {"Set-Cookie", "Content-Length"} /\ k # "Content-Encoding"
    BY <1>3, <1>4
  <2>7. Kept(p, c, q, d, U, method)
    BY ONLY <2>2, <2>5, <2>6, PairChanged
  <2> QED
    BY <2>4, <2>7
<1>9. Pair(out["plain"], out["compressed"], touched, method) =>
        Kept(out["plain"], out["compressed"], q, d, touched \cup names, method)
  BY <1>4, <1>8
<1>10. names \subseteq {"X"} /\ IInv
  BY <1>3
<1>11. /\ KeepsClean(out["plain"], q) /\ KeepsClean(out["compressed"], d)
       /\ out["compressed"] = out["plain"] => d = q
  <2>1. ASSUME NEW o \in Out, NEW r, r = HeaderDel(o, k)
        PROVE  \E x : Changed(o, r, k, x) /\ (k = "Content-Encoding" => x \in Foreign)
    BY <1>3, <2>1, HeaderDelFacts
  <2>2. KeepsClean(p, q) /\ KeepsClean(c, d)
    BY <1>3, <1>4, <2>1, CleanChanged
  <2> QED
    BY <1>4, <2>2
<1> QED
  BY ONLY <1>6, <1>7, <1>9, <1>10, <1>11, KeptIInv

LEMMA GiveCookieIInv ==
  ASSUME IInv, GiveCookie
  PROVE  IInv'
<1>1. steps \in Nat /\ {} \subseteq {"X"}
  BY DEF IInv, Types
<1>4. PICK p, c, q, d : /\ p = out["plain"] /\ c = out["compressed"]
                        /\ q = SetCookie(p, steps) /\ d = SetCookie(c, steps)
  OBVIOUS
<1>5. PICK outcome : outcome = [s \in Side |-> SetCookie(out[s], steps)]
  OBVIOUS
<1>6. outcome = [s \in Side |-> IF s = "plain" THEN q ELSE d]
  BY <1>4, <1>5 DEF Side
<1>7. Does(outcome, {})
  BY <1>5 DEF GiveCookie
<1>8. ASSUME Pair(p, c, touched, method) PROVE Kept(p, c, q, d, touched \cup {}, method)
  <2>1. PICK T : T = touched
    OBVIOUS
  <2>2. Kept(p, c, q, d, T, method)
    BY <1>1, <1>4, <1>8, <2>1, PairCookie
  <2>3. touched \cup {} = T
    BY <2>1
  <2> QED
    BY <2>2, <2>3
<1>11. /\ KeepsClean(out["plain"], q) /\ KeepsClean(out["compressed"], d)
       /\ out["compressed"] = out["plain"] => d = q
  <2>1. ASSUME NEW o, NEW r, r = SetCookie(o, steps) PROVE KeepsClean(o, r)
    BY <1>1, <2>1, CookieKeeps, CleanKeeps DEF Clean
  <2> QED
    BY <1>4, <2>1
<1> QED
  BY <1>1, <1>4, <1>6, <1>7, <1>8, <1>11, KeptIInv

LEMMA ChooseStatusIInv ==
  ASSUME IInv, ChooseStatus
  PROVE  IInv'
<1>1. PICK e \in Status : Does([s \in Side |-> [out[s] EXCEPT !.status = e]], {})
  BY DEF ChooseStatus
<1>2. e \in Nat /\ {} \subseteq {"X"}
  BY <1>1 DEF Status
<1>4. PICK p, c, q, d : /\ p = out["plain"] /\ c = out["compressed"]
                        /\ q = [p EXCEPT !.status = e] /\ d = [c EXCEPT !.status = e]
  OBVIOUS
<1>5. PICK outcome : outcome = [s \in Side |-> [out[s] EXCEPT !.status = e]]
  OBVIOUS
<1>6. outcome = [s \in Side |-> IF s = "plain" THEN q ELSE d]
  BY <1>4, <1>5 DEF Side
<1>7. Does(outcome, {})
  BY <1>1, <1>5
<1>8. ASSUME Pair(p, c, touched, method) PROVE Kept(p, c, q, d, touched \cup {}, method)
  <2>1. p \in Out /\ c \in Out /\ p.contentType = c.contentType
    BY <1>8, PairOut DEF Alike
  <2>2. Same(p, q) /\ q.status = e /\ q.contentType = p.contentType
    BY ONLY <1>2, <1>4, <2>1 DEF Out, Same
  <2>3. Same(c, d) /\ d.status = e /\ d.contentType = c.contentType
    BY ONLY <1>2, <1>4, <2>1 DEF Out, Same
  <2>4. PICK T : T = touched
    OBVIOUS
  <2>5. Pair(p, c, T, method) /\ (c = p => d = q) /\ q.status = d.status /\ q.contentType = d.contentType
    BY <1>4, <1>8, <2>1, <2>2, <2>3, <2>4
  <2>6. Kept(p, c, q, d, T, method)
    BY ONLY <2>2, <2>3, <2>5, PairSame
  <2>7. touched \cup {} = T
    BY <2>4
  <2> QED
    BY <2>6, <2>7
<1>9. Pair(out["plain"], out["compressed"], touched, method) =>
        Kept(out["plain"], out["compressed"], q, d, touched \cup {}, method)
  BY <1>4, <1>8
<1>10. {} \subseteq {"X"} /\ IInv
  BY <1>2
<1>11. /\ KeepsClean(out["plain"], q) /\ KeepsClean(out["compressed"], d)
       /\ out["compressed"] = out["plain"] => d = q
  <2>1. ASSUME NEW o, NEW r, r = [o EXCEPT !.status = e] PROVE KeepsClean(o, r)
    <3>1. ASSUME Clean(o) PROVE Keeps(o, r)
      <4>1. Fit(o) /\ o \in Out
        BY <3>1 DEF Clean, Fit
      <4>2. Same(o, r)
        BY ONLY <1>2, <2>1, <4>1 DEF Out, Same
      <4> QED
        BY <4>1, <4>2, SameKeeps
    <3> QED
      BY <3>1, CleanKeeps
  <2> QED
    BY <1>4, <2>1
<1> QED
  BY ONLY <1>6, <1>7, <1>9, <1>10, <1>11, KeptIInv

LEMMA ChooseTypeIInv ==
  ASSUME IInv, ChooseType
  PROVE  IInv'
<1>1. PICK e \in {"text/html", "image/png"} : Does([s \in Side |-> [out[s] EXCEPT !.contentType = e]], {})
  BY DEF ChooseType
<1>2. e \in Text /\ {} \subseteq {"X"}
  BY <1>1 DEF Text, compressableMimes
<1>4. PICK p, c, q, d : /\ p = out["plain"] /\ c = out["compressed"]
                        /\ q = [p EXCEPT !.contentType = e] /\ d = [c EXCEPT !.contentType = e]
  OBVIOUS
<1>5. PICK outcome : outcome = [s \in Side |-> [out[s] EXCEPT !.contentType = e]]
  OBVIOUS
<1>6. outcome = [s \in Side |-> IF s = "plain" THEN q ELSE d]
  BY <1>4, <1>5 DEF Side
<1>7. Does(outcome, {})
  BY <1>1, <1>5
<1>8. ASSUME Pair(p, c, touched, method) PROVE Kept(p, c, q, d, touched \cup {}, method)
  <2>1. p \in Out /\ c \in Out /\ p.status = c.status
    BY <1>8, PairOut DEF Alike
  <2>2. Same(p, q) /\ q.status = p.status /\ q.contentType = e
    BY ONLY <1>2, <1>4, <2>1 DEF Out, Same
  <2>3. Same(c, d) /\ d.status = c.status /\ d.contentType = e
    BY ONLY <1>2, <1>4, <2>1 DEF Out, Same
  <2>4. PICK T : T = touched
    OBVIOUS
  <2>5. Pair(p, c, T, method) /\ (c = p => d = q) /\ q.status = d.status /\ q.contentType = d.contentType
    BY <1>4, <1>8, <2>1, <2>2, <2>3, <2>4
  <2>6. Kept(p, c, q, d, T, method)
    BY ONLY <2>2, <2>3, <2>5, PairSame
  <2>7. touched \cup {} = T
    BY <2>4
  <2> QED
    BY <2>6, <2>7
<1>9. Pair(out["plain"], out["compressed"], touched, method) =>
        Kept(out["plain"], out["compressed"], q, d, touched \cup {}, method)
  BY <1>4, <1>8
<1>10. {} \subseteq {"X"} /\ IInv
  BY <1>2
<1>11. /\ KeepsClean(out["plain"], q) /\ KeepsClean(out["compressed"], d)
       /\ out["compressed"] = out["plain"] => d = q
  <2>1. ASSUME NEW o, NEW r, r = [o EXCEPT !.contentType = e] PROVE KeepsClean(o, r)
    <3>1. ASSUME Clean(o) PROVE Keeps(o, r)
      <4>1. Fit(o) /\ o \in Out
        BY <3>1 DEF Clean, Fit
      <4>2. Same(o, r)
        BY ONLY <1>2, <2>1, <4>1 DEF Out, Same
      <4> QED
        BY <4>1, <4>2, SameKeeps
    <3> QED
      BY <3>1, CleanKeeps
  <2> QED
    BY <1>4, <2>1
<1> QED
  BY ONLY <1>6, <1>7, <1>9, <1>10, <1>11, KeptIInv

LEMMA WriteOutIInv ==
  ASSUME IInv, WriteOut
  PROVE  IInv'
<1>1. phase = "inner" /\ touched \subseteq {"X"}
  BY DEF WriteOut, IInv, Types
<1>2. PICK chunk : chunk = "early"
  OBVIOUS
<1>3. chunk \in Chunk
  BY <1>2 DEF Chunk
<1>4. PICK p, c, q, d, T : /\ p = out["plain"] /\ c = out["compressed"] /\ T = touched
                           /\ q = Write(p, chunk) /\ d = Write(c, chunk)
  OBVIOUS
<1>5. PICK outcome : outcome = [s \in Side |-> Write(out[s], chunk)]
  OBVIOUS
<1>6. outcome["plain"] = q /\ outcome["compressed"] = d
  BY <1>4, <1>5, PhaseFacts
<1>7. Acts(outcome, {}) /\ head' = head
  BY <1>2, <1>5 DEF WriteOut, Does
<1>8. head = "late" => Pair(p, c, T, method)
  BY <1>1, <1>4, PhaseFacts DEF IInv, Paired
<1>9. head = "late" => Pair(q, d, T, method)
  BY <1>1, <1>3, <1>4, <1>8, LooseFacts, PairWrite
<1>10. head' = "late" => Pair(outcome["plain"], outcome["compressed"], touched \cup {}, method)
  <2>1. touched \cup {} = T
    BY <1>4
  <2> QED
    BY <1>6, <1>7, <1>9, <2>1
<1>11. outcome = [s \in Side |-> outcome[s]] /\ {} \subseteq {"X"} /\ head' \in {"late", "outer", "inner"}
  BY <1>5, <1>7 DEF IInv, Types
<1>12. Clean(outcome["plain"]) /\ (head' # "outer" => Clean(outcome["compressed"]))
  <2>1. KeepsClean(p, q) /\ KeepsClean(c, d)
    BY <1>3, <1>4, CleanWrite
  <2>2. Clean(p) /\ (head # "outer" => Clean(c))
    BY <1>1, <1>4, PhaseFacts DEF IInv, Single
  <2> QED
    BY <1>6, <1>7, <2>1, <2>2 DEF KeepsClean
<1> QED
  BY ONLY IInv, <1>1, <1>7, <1>10, <1>11, <1>12, ActsIInv

LEMMA SendStatusIInv ==
  ASSUME IInv, SendStatus
  PROVE  IInv'
<1>1. PICK e \in Status : Sends([s \in Side |-> SetStatus(out[s], e)])
  BY DEF SendStatus
<1>2. e \in Nat /\ e > 0
  BY <1>1 DEF Status
<1>4. PICK p, c, q, d, T : /\ p = out["plain"] /\ c = out["compressed"] /\ T = touched
                           /\ q = SetStatus(p, e) /\ d = SetStatus(c, e)
  OBVIOUS
<1>5. PICK outcome : outcome = [s \in Side |-> SetStatus(out[s], e)]
  OBVIOUS
<1>6. outcome = [s \in Side |-> IF s = "plain" THEN q ELSE d]
  BY <1>4, <1>5 DEF Side
<1>7. Sends(outcome)
  BY <1>1, <1>5
<1>8. Pair(p, c, T, method) /\ p.net.sent # None => Pair(q, d, T, method)
  BY <1>2, <1>4, PairStatus
<1>9. ASSUME NEW o, NEW r, r = SetStatus(o, e) PROVE KeepsClean(o, r)
  BY <1>2, <1>9, StatusKeeps, CleanKeeps DEF Clean
<1>10. /\ KeepsClean(out["plain"], q) /\ KeepsClean(out["compressed"], d)
       /\ out["compressed"] = out["plain"] => d = q
  BY <1>4, <1>9
<1>11. Pair(out["plain"], out["compressed"], touched, method) /\ out["plain"].net.sent # None =>
         Pair(q, d, touched, method)
  BY <1>4, <1>8
<1> QED
  BY ONLY IInv, <1>6, <1>7, <1>10, <1>11, SendsIInv

LEMMA SendHeadIInv ==
  ASSUME IInv, SendHead
  PROVE  IInv'
<1>1. PICK e, t : e = 404 /\ t = "text/html"
  OBVIOUS
<1>2. e \in Nat /\ e > 0 /\ t \in Text
  <2>1. e \in Nat /\ e > 0
    BY <1>1
  <2>2. "text/html" \in Text /\ t = "text/html"
    BY <1>1, ErrorChunks
  <2> QED
    BY <2>1, <2>2
<1>4. PICK p, c, q, d, T : /\ p = out["plain"] /\ c = out["compressed"] /\ T = touched
                           /\ q = ResponseWriteHeader(p, e, t) /\ d = ResponseWriteHeader(c, e, t)
  OBVIOUS
<1>5. PICK outcome : outcome = [s \in Side |-> ResponseWriteHeader(out[s], e, t)]
  OBVIOUS
<1>6. outcome = [s \in Side |-> IF s = "plain" THEN q ELSE d]
  BY <1>4, <1>5 DEF Side
<1>7. Sends(outcome)
  BY <1>1, <1>5 DEF SendHead
<1>8. Pair(p, c, T, method) /\ p.net.sent # None => Pair(q, d, T, method)
  BY <1>2, <1>4, PairHead
<1>9. ASSUME NEW o, NEW r, r = ResponseWriteHeader(o, e, t) PROVE KeepsClean(o, r)
  BY <1>2, <1>9, HeadKeeps, CleanKeeps DEF Clean
<1>10. /\ KeepsClean(out["plain"], q) /\ KeepsClean(out["compressed"], d)
       /\ out["compressed"] = out["plain"] => d = q
  BY <1>4, <1>9
<1>11. Pair(out["plain"], out["compressed"], touched, method) /\ out["plain"].net.sent # None =>
         Pair(q, d, touched, method)
  BY <1>4, <1>8
<1> QED
  BY ONLY IInv, <1>6, <1>7, <1>10, <1>11, SendsIInv

LEMMA ReceiveIInv ==
  ASSUME IInv, Receive
  PROVE  IInv'
<1>1. /\ phase = "received" /\ phase' = "outer" /\ offer' = detectCompressionType(accept)
      /\ UNCHANGED <<method, mode, steps, touched, head, result, out>>
  BY DEF Receive
<1>2. accept \in Seq(Coding)
  BY <1>1 DEF IInv, Types
<1>3. offer' \in {None} \cup Type
  BY <1>1, <1>2, DetectRight
<1>4. Types'
  BY <1>1, <1>3, PhaseFacts DEF IInv, Types
<1>5. Alone' /\ Single' /\ Paired'
  BY <1>1, PhaseFacts DEF IInv, Alone, Single, Paired
<1>6. Applied' /\ Done'
  BY <1>1 DEF Applied, Done
<1> QED
  BY <1>4, <1>5, <1>6 DEF IInv

LEMMA CompressFilterIInv ==
  ASSUME IInv, CompressFilter
  PROVE  IInv'
<1>1. /\ phase = "outer" /\ phase' = "inner"
      /\ out' = [out EXCEPT !["compressed"].writer =
                   IF BodyAllowed(out["compressed"].status) /\ offer # None THEN NewWriter(offer) ELSE None]
      /\ UNCHANGED <<accept, offer, method, mode, steps, touched, head, result>>
  BY DEF CompressFilter
<1>2. /\ out = [s \in Side |-> out[s]] /\ offer \in {None} \cup Type
      /\ out["compressed"] = out["plain"] /\ Clean(out["plain"]) /\ head \in {"late", "outer"}
      /\ head = "late" => /\ out["plain"].net.sent = None
                          /\ Pair(out["plain"], out["plain"], touched, method)
  BY <1>1, PhaseFacts DEF IInv, Types, Alone, Single, Paired
<1>3. PICK p, d, w : /\ p = out["plain"]
                     /\ w = IF BodyAllowed(p.status) /\ offer # None THEN NewWriter(offer) ELSE None
                     /\ d = [p EXCEPT !.writer = w]
  OBVIOUS
<1>4. out' = [out EXCEPT !["compressed"] = d]
  BY <1>1, <1>2, <1>3
<1>5. out'["plain"] = p /\ out'["compressed"] = d
  BY <1>2, <1>3, <1>4, PhaseFacts DEF Side
<1>6. p \in Out /\ (head = "late" => p.net.sent = None)
  BY <1>2, <1>3 DEF Clean, Fit
<1>7. PICK T : T = touched
  OBVIOUS
<1>8. head = "late" => Pair(p, p, T, method)
  BY <1>2, <1>3, <1>7
<1>9. ASSUME head = "late" PROVE Pair(p, d, T, method)
  <2>1. CASE w = None
    <3>1. p.writer = None
      BY <1>8, <1>9, PairOut DEF Alike, Bare
    <3>2. d = p
      BY ONLY <1>3, <1>6, <2>1, <3>1 DEF Out
    <3> QED
      BY <1>8, <1>9, <3>2
  <2>2. CASE w # None
    <3>1. offer \in Type /\ w = NewWriter(offer)
      BY <1>2, <1>3, <2>2
    <3>2. PICK type : type = offer
      OBVIOUS
    <3>3. type \in Type /\ d = [p EXCEPT !.writer = NewWriter(type)]
      BY <1>3, <3>1, <3>2
    <3>4. p.net.sent = None /\ Pair(p, p, T, method)
      BY <1>6, <1>8, <1>9
    <3> QED
      BY ONLY <3>3, <3>4, PairCompressed
  <2> QED
    BY <2>1, <2>2
<1>10. head = "late" => Clean(d)
  BY <1>9, PairOut DEF Clean
<1>11. Single'
  <2>1. out' = [s \in Side |-> out'[s]]
    BY <1>2, <1>4
  <2>2. head' = head /\ Clean(p) /\ (head # "outer" => Clean(d))
    BY <1>1, <1>2, <1>3, <1>10
  <2> QED
    BY <1>5, <2>1, <2>2 DEF Single
<1>12. Types'
  BY <1>1, PhaseFacts DEF IInv, Types
<1>13. Alone' /\ Applied' /\ Done'
  BY <1>1, PhaseFacts DEF Alone, Applied, Done
<1>14. Paired'
  <2>1. head' = head /\ touched' = T /\ method' = method
    BY <1>1, <1>7
  <2> QED
    BY <1>5, <1>9, <2>1 DEF Paired
<1> QED
  BY <1>11, <1>12, <1>13, <1>14 DEF IInv

LEMMA ApplyResultIInv ==
  ASSUME IInv, ApplyResult
  PROVE  IInv'
<1>1. PICK r \in Result : /\ result' = r
                          /\ out' = [s \in Side |-> Apply(Made(out[s], r), r)]
  BY DEF ApplyResult
<1>2. /\ phase = "inner" /\ phase' = "applied"
      /\ UNCHANGED <<accept, offer, method, mode, steps, touched, head>>
  BY DEF ApplyResult
<1>3. PICK p, c, q, d, T : /\ p = out["plain"] /\ c = out["compressed"] /\ T = touched
                           /\ q = Apply(Made(p, r), r) /\ d = Apply(Made(c, r), r)
  OBVIOUS
<1>4. out'["plain"] = q /\ out'["compressed"] = d
  BY <1>1, <1>3, PhaseFacts
<1>5. /\ head = "late" => Pair(p, c, T, method)
      /\ Clean(p) /\ (head # "outer" => Clean(c))
      /\ T \subseteq {"X"} /\ method \in {"GET", "HEAD"}
  BY <1>2, <1>3, PhaseFacts DEF IInv, Paired, Single, Types
<1>6. ASSUME Undisturbed(r), head = "late"
      PROVE  Alike(q, d, T \cup OfferedBy(r), Failures(r), method)
  <2>1. /\ Alike(p, c, T, {}, method) /\ Unsent(p, c) /\ NoLength(p) /\ T \subseteq Loose
    BY <1>5, <1>6, PairOut, LooseFacts
  <2> QED
    BY <1>3, <1>5, <1>6, <2>1, AlikeApply
<1>7. ASSUME Undisturbed(r), NEW o, Clean(o), NEW x, x = Apply(Made(o, r), r)
      PROVE  Complete(x)
  <2>1. Fit(o) /\ NoLength(o)
    BY <1>7 DEF Clean
  <2>2. Fulfils(o, x)
    BY <1>7, <2>1, ApplyFulfils
  <2> QED
    BY <2>2 DEF Fulfils, Complete
<1>8. \A x : Complete(x)' = Complete(x)
  BY <1>2 DEF Complete, Ended
<1>9. Applied'
  <2>1. ASSUME Undisturbed(r)
        PROVE  /\ head = "late" => Alike(q, d, T \cup OfferedBy(r), Failures(r), method)
               /\ Complete(q) /\ (head # "outer" => Complete(d))
    BY <1>3, <1>5, <1>6, <1>7, <2>1
  <2>2. Failures(r) = Failures(result)' /\ OfferedBy(r) = OfferedBy(result')
    BY <1>1, <1>2 DEF Failures
  <2> QED
    BY <1>1, <1>2, <1>3, <1>4, <1>8, <2>1, <2>2 DEF Applied, Complete
<1>10. Types'
  BY <1>2, PhaseFacts DEF IInv, Types
<1>11. Alone' /\ Single' /\ Paired' /\ Done'
  BY <1>2, PhaseFacts DEF Alone, Single, Paired, Done
<1> QED
  BY <1>9, <1>10, <1>11 DEF IInv

LEMMA DisturbedFacts ==
  ASSUME NEW r \in Result, ~(r.kind = "binary" /\ (r.fails \/ r.unmodified))
  PROVE  Undisturbed(r)
<1>1. CASE r.kind = "binary"
  <2>1. r.fails \in BOOLEAN /\ r.unmodified \in BOOLEAN
    BY <1>1 DEF Result
  <2> QED
    BY <1>1, <2>1 DEF Undisturbed
<1>2. CASE r.kind # "binary"
  BY <1>2 DEF Undisturbed
<1> QED
  BY <1>1, <1>2

\* What is sent in the end is right, if it was when the result had been applied.
LEMMA FinishRight ==
  ASSUME IInv, Finish
  PROVE  Transparent' /\ WireHonest'
<1>1. /\ phase = "applied" /\ phase' = "done"
      /\ out' = [s \in Side |-> Finished(out[s])]
      /\ method' = method /\ mode' = mode /\ touched' = touched /\ head' = head /\ result' = result
  BY DEF Finish, Finished
<1>2. result \in Result /\ touched \subseteq {"X"}
  BY <1>1 DEF IInv, Applied, Types
<1> SUFFICES ASSUME ~Disturbed'
             PROVE  Transparent' /\ WireHonest'
  BY DEF Transparent, WireHonest
<1>3. Undisturbed(result)
  <2>1. ~(result.kind = "binary" /\ (result.fails \/ result.unmodified))
    BY <1>1 DEF Disturbed
  <2> QED
    BY <1>2, <2>1, DisturbedFacts
<1>4. PICK p, c, q, d, T, F : /\ p = out["plain"] /\ c = out["compressed"]
                              /\ T = touched \cup OfferedBy(result) /\ F = Failures(result)
                              /\ q = Finished(p) /\ d = Finished(c)
  OBVIOUS
<1>5. out'["plain"] = q /\ out'["compressed"] = d
  BY <1>1, <1>4, PhaseFacts
<1>6. head = "late" => Alike(p, c, T, F, method)
  BY <1>1, <1>3, <1>4 DEF IInv, Applied
<1>7. T \subseteq Loose
  BY <1>2, <1>4, LooseFacts DEF OfferedBy
<1>8. Complete(p) /\ (head # "outer" => Complete(c))
  BY <1>1, <1>3, <1>4 DEF IInv, Applied
<1>9. Transparent'
  <2> SUFFICES ASSUME head = "late" PROVE Transparent'
    BY <1>1 DEF Transparent
  <2>1. Delivered(q, d, T, F, method)
    BY <1>4, <1>6, <1>7, AlikeFinish
  <2>2. d.net.sent.status \in F => Late' /\ d.net.sent.status = 500
    BY <1>1, <1>4 DEF Failures, Failure, Late
  <2>3. /\ \/ Late' /\ d.net.sent.status = 500
           \/ /\ d.net.sent.status = q.net.sent.status
              /\ method = "GET" => Decoded(d.net.body) = Decoded(q.net.body)
        /\ \A k \in Header \ (T \cup {"Content-Length", "Content-Encoding"}) :
             d.net.sent.header[k] = q.net.sent.header[k]
        /\ q.net.sent.header["Content-Encoding"] # << >> =>
             d.net.sent.header["Content-Encoding"] = q.net.sent.header["Content-Encoding"]
    BY <2>1, <2>2 DEF Delivered, HeadersSent
  <2>4. Chunks("compressed")' = Decoded(d.net.body) /\ Chunks("plain")' = Decoded(q.net.body)
    BY <1>5 DEF Chunks, Decoded, Body
  <2>5. Sent("compressed")' = d.net.sent /\ Sent("plain")' = q.net.sent
    BY <1>5 DEF Sent
  <2>6. (touched \cup Offered)' = T
    BY <1>1, <1>4 DEF Offered, OfferedBy, Dates
  <2> QED
    BY <1>1, <2>3, <2>4, <2>5, <2>6 DEF Transparent
<1>10. ASSUME NEW o, Complete(o), NEW f, f = Finished(o), BodyAllowed(f.net.sent.status)
       PROVE  Truthful(f.net) /\ (method = "GET" => Exact(f.net))
  BY <1>10, FinishTruthful, FinishExact DEF Complete
<1>11. /\ BodyAllowed(q.net.sent.status) => Truthful(q.net) /\ (method = "GET" => Exact(q.net))
       /\ head # "outer" /\ BodyAllowed(d.net.sent.status) =>
            Truthful(d.net) /\ (method = "GET" => Exact(d.net))
  BY <1>4, <1>8, <1>10
<1>12. \A side \in (IF head' = "outer" THEN {"plain"} ELSE Side) :
         BodyAllowed(out'[side].net.sent.status) =>
           Truthful(out'[side].net) /\ (method = "GET" => Exact(out'[side].net))
  BY <1>1, <1>5, <1>11 DEF Side
<1>13. WireHonest'
  <2> SUFFICES ASSUME NEW side \in IF head' = "outer" THEN {"plain"} ELSE Side,
                      BodyAllowed(Sent(side).status)'
               PROVE  LET header == Sent(side).header'
                          body   == Body(side)'
                          ours   == {i \in DOMAIN body : body[i].by # None}
                      IN  /\ IF header["Content-Encoding"] \in {<<t>> : t \in Range(compressionTypes)}
                             THEN /\ ours = DOMAIN body
                                  /\ {i \in DOMAIN body : body[i].chunk = None} = {Len(body)}
                                  /\ \A i \in ours : <<body[i].by>> = header["Content-Encoding"]
                             ELSE ours = {}
                          /\ method' = "GET" => header["Content-Length"] \in {<< >>, <<Len(body)>>}
    BY DEF WireHonest
  <2>1. PICK n : n = out'[side].net
    OBVIOUS
  <2>2. Sent(side)' = n.sent /\ Body(side)' = n.body
    BY <2>1 DEF Sent, Body
  <2>3. BodyAllowed(n.sent.status)
    BY <2>2
  <2>4. Truthful(n) /\ (method' = "GET" => Exact(n))
    BY <1>1, <1>12, <2>1, <2>3
  <2> QED
    BY <2>2, <2>4, TypeFacts DEF Truthful, Exact
<1> QED
  BY <1>9, <1>13

LEMMA FinishIInv ==
  ASSUME IInv, Finish
  PROVE  IInv'
<1>1. phase' = "done" /\ UNCHANGED <<accept, offer, method, mode, steps, touched, head, result>>
  BY DEF Finish
<1>2. Types'
  BY <1>1, PhaseFacts DEF IInv, Types
<1>3. Alone' /\ Single' /\ Paired' /\ Applied'
  BY <1>1, PhaseFacts DEF Alone, Single, Paired, Applied
<1>4. Done'
  BY FinishRight DEF Done
<1> QED
  BY <1>2, <1>3, <1>4 DEF IInv

LEMMA Invariance == Spec => []IInv
<1>1. Init => IInv
  BY InitIInv
<1>2. IInv /\ [Next]_vars => IInv'
  <2> SUFFICES ASSUME IInv, [Next]_vars PROVE IInv'
    OBVIOUS
  <2>1. CASE Receive
    BY <2>1, ReceiveIInv
  <2>2. CASE CompressFilter
    BY <2>2, CompressFilterIInv
  <2>3. CASE ApplyResult
    BY <2>3, ApplyResultIInv
  <2>4. CASE Finish
    BY <2>4, FinishIInv
  <2>5. CASE SetHeader
    BY <2>5, SetHeaderIInv
  <2>6. CASE AddHeader
    BY <2>6, AddHeaderIInv
  <2>7. CASE DelHeader
    BY <2>7, DelHeaderIInv
  <2>8. CASE GiveCookie
    BY <2>8, GiveCookieIInv
  <2>9. CASE ChooseStatus
    BY <2>9, ChooseStatusIInv
  <2>10. CASE ChooseType
    BY <2>10, ChooseTypeIInv
  <2>11. CASE WriteOut
    BY <2>11, WriteOutIInv
  <2>12. CASE SendStatus
    BY <2>12, SendStatusIInv
  <2>13. CASE SendHead
    BY <2>13, SendHeadIInv
  <2>14. CASE UNCHANGED vars
    <3>1. UNCHANGED <<accept, offer, method, mode, phase, steps, touched, head, result, out>>
      BY <2>14 DEF vars
    <3>2. Types' /\ Alone' /\ Single' /\ Paired'
      BY <3>1 DEF IInv, Types, Alone, Single, Paired
    <3>3. Failures(result)' = Failures(result) /\ \A x : Complete(x)' = Complete(x)
      BY <3>1 DEF Failures, Complete, Ended
    <3>4. Applied'
      BY <3>1, <3>3 DEF IInv, Applied, Complete
    <3>5. Disturbed' = Disturbed /\ Late' = Late /\ Offered' = Offered
      BY <3>1 DEF Disturbed, Late, Offered
    <3>6. \A s : Sent(s)' = Sent(s) /\ Body(s)' = Body(s) /\ Chunks(s)' = Chunks(s)
      BY <3>1 DEF Sent, Body, Chunks
    <3>7. Transparent' = Transparent
      BY <3>1, <3>5, <3>6 DEF Transparent
    <3>8. WireHonest' = WireHonest
      BY <3>1, <3>5, <3>6 DEF WireHonest
    <3>9. Done'
      BY <3>1, <3>7, <3>8 DEF IInv, Done
    <3> QED
      BY <3>2, <3>4, <3>9 DEF IInv
  <2> QED
    BY <2>1, <2>2, <2>3, <2>4, <2>5, <2>6, <2>7, <2>8, <2>9, <2>10, <2>11, <2>12, <2>13,
       <2>14 DEF Next
<1> QED
  BY <1>1, <1>2, PTL DEF Spec

-----------------------------------------------------------------------------
(* A client is given an encoding only if it accepts one, and then one it has  *)
(* given a weight: detectCompressionType for every Accept-Encoding.           *)
THEOREM EncodingIsAccepted == Spec => []EncodingAccepted
<1>1. IInv => EncodingAccepted
  <2> SUFFICES ASSUME IInv, phase = "received" PROVE EncodingAccepted
    BY DEF EncodingAccepted
  <2>1. accept \in Seq(Coding)
    BY DEF IInv, Types
  <2> QED
    BY <2>1, DetectRight DEF EncodingAccepted
<1> QED
  BY <1>1, Invariance, PTL

(* With compression a client gets what it gets without, for every page and    *)
(* every order of what filters and the action do short of sending the head,   *)
(* but for the results and the headers Transparent names: the buffer of       *)
(* CompressFilter and its release lose, add and reorder nothing.              *)
THEOREM CompressionIsTransparent == Spec => []Transparent
<1>1. IInv => Transparent
  BY DEF IInv, Done, Transparent
<1> QED
  BY <1>1, Invariance, PTL

(* What is sent is encoded, and as long, as its header says, for every result *)
(* but a stream that fails or is not modified, and unless the head was sent   *)
(* before CompressFilter: prepareHeaders, and Close, which is called twice.   *)
THEOREM WireIsHonest == Spec => []WireHonest
<1>1. IInv => WireHonest
  BY DEF IInv, Done, WireHonest
<1> QED
  BY <1>1, Invariance, PTL
=============================================================================
