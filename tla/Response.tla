------------------------------ MODULE Response ------------------------------
(* What the client gets: the filters, the action and its Result write to a    *)
(* Response, which CompressFilter may have given a compressing writer and a   *)
(* buffered header before it is known what they will write.  The same request *)
(* is served twice, side by side: with results.compressed = false ("plain")   *)
(* and true ("compressed").                                                   *)
(*                                                                           *)
(* The names of headers are in their canonical form and types have no         *)
(* parameters.  The client stays to the end.                                  *)
EXTENDS Naturals, Sequences, FiniteSets, SequencesExt

CONSTANTS
  Coding,    \* elements of an Accept-Encoding: [name, q], where q may be None or Bad
  MaxCodings, \* bound on the length of an Accept-Encoding
  Bodies,    \* sequences of chunks an action may render
  Steps,     \* bound on what filters and the action do to the response
  None, Bad

ASSUME BoundAssumption  == {Steps, MaxCodings} \subseteq Nat
ASSUME CodingAssumption == \A e \in Coding : e.q \in Nat \cup {None, Bad}

\* What filters and the action write, an error page, and the pages.
Chunk == {"early", "error"} \cup UNION {Range(b) : b \in Bodies}

ASSUME BodyAssumption == Bodies \subseteq Seq(Chunk) /\ None \notin Chunk

Side   == {"plain", "compressed"}
Header == {"Content-Type", "Content-Encoding", "Content-Length", "Set-Cookie",
           "Last-Modified", "Accept-Ranges", "X"}
Status == {204, 404}
Mode   == {"stream", "buffer", "length"}   \* results.chunked but DevMode, both, not chunked

compressionTypes  == <<"gzip", "deflate">>
compressableMimes == {"text/plain", "text/html", "application/json"}

VARIABLES
  accept,   \* Accept-Encoding
  offer,    \* the type detectCompressionType found for it
  method, mode,
  phase,    \* "received", "outer", "inner" of CompressFilter, "applied", "done"
  steps,
  touched,  \* headers that were added to or deleted
  head,     \* the phase in which a filter or the action sent the head itself, or "late"
  result,   \* the Result that was applied
  out       \* out[side]: the Response and all below it

vars == <<accept, offer, method, mode, phase, steps, touched, head, result, out>>

(* What there is below a Response: headers by name, the head of a response as *)
(* it was sent, and the CompressResponseWriter.                               *)
Text    == {"", "gzip", "deflate", "br", "url", "image/png", "date", "bytes"} \cup compressableMimes
Headers == [Header -> Seq(Text \cup Nat)]
Started == [status : Nat, header : Headers]
Writer  == [compressionType : {None} \cup Range(compressionTypes), headersWritten : BOOLEAN,
            closed : BOOLEAN, released : BOOLEAN,
            headerMap : Headers, cookieList : Seq(Nat), status : Nat]

ASSUME NoneAssumption == /\ {None, Bad} \cap Nat = {} /\ None # Bad
                         /\ None \notin Started \cup Writer \cup Range(compressionTypes)

NoHeader == [k \in Header |-> << >>]

(* ---------------------- net/http, the ResponseWriter ---------------------- *)

BodyAllowed(status) == status \notin {204, 304}

NetWriteHeader(net, status) ==
  IF net.sent # None THEN net ELSE [net EXCEPT !.sent = [status |-> status, header |-> net.header]]

\* by is the compression of the chunk.
NetWrite(net, chunk, by) ==
  LET n == NetWriteHeader(net, 200)
  IN  IF BodyAllowed(n.sent.status)
      THEN [n EXCEPT !.body = Append(@, [chunk |-> chunk, by |-> by])] ELSE n

(* -------------------- GoHeader and BufferedServerHeader ------------------- *)

Buffers(o) == o.writer # None /\ ~o.writer.released

HeaderSet(o, k, v) ==
  IF Buffers(o) THEN [o EXCEPT !.writer.headerMap[k] = <<v>>] ELSE [o EXCEPT !.net.header[k] = <<v>>]

HeaderAdd(o, k, v) ==
  IF Buffers(o) THEN [o EXCEPT !.writer.headerMap[k] = Append(@, v)]
  ELSE [o EXCEPT !.net.header[k] = IF o.writer = None THEN Append(@, v) ELSE <<v>>]

HeaderDel(o, k) ==
  IF Buffers(o) THEN [o EXCEPT !.writer.headerMap[k] = << >>] ELSE [o EXCEPT !.net.header[k] = << >>]

HeaderGet(o, k) ==
  IF Buffers(o) /\ o.writer.headerMap[k] # << >> THEN o.writer.headerMap[k] ELSE o.net.header[k]

SetCookie(o, c) ==
  IF Buffers(o) THEN [o EXCEPT !.writer.cookieList = Append(@, c)]
  ELSE [o EXCEPT !.net.header["Set-Cookie"] = Append(@, c)]

SetStatus(o, status) ==
  IF Buffers(o) THEN [o EXCEPT !.writer.status = status]
  ELSE [o EXCEPT !.net = NetWriteHeader(@, status)]

\* Slip: the cookies stay in the buffer.
ReleaseHeaders(o) ==
  LET w   == o.writer
      net == [o.net EXCEPT !.header =
                [k \in Header |-> IF w.headerMap[k] = << >> THEN @[k] ELSE <<Last(w.headerMap[k])>>]]
  IN  [o EXCEPT !.writer.released = TRUE,
                !.net = IF w.status > 0 THEN NetWriteHeader(net, w.status) ELSE net]

\* Release.  Every value is Set, so the last of those that were added is left.
Release(o) ==
  LET w   == o.writer
      set == [k \in Header |-> IF w.headerMap[k] = << >> THEN o.net.header[k] ELSE <<Last(w.headerMap[k])>>]
      net == [o.net EXCEPT !.header = [set EXCEPT !["Set-Cookie"] = @ \o w.cookieList]]
  IN  [o EXCEPT !.writer.released = TRUE,
                !.net = IF w.status > 0 THEN NetWriteHeader(net, w.status) ELSE net]

(* ------------------------- CompressResponseWriter ------------------------- *)

NewWriter(type) ==
  [compressionType |-> type, headersWritten |-> FALSE, closed |-> FALSE,
   headerMap |-> NoHeader, cookieList |-> << >>, status |-> 0, released |-> FALSE]

Compressable(o) ==
  /\ HeaderGet(o, "Content-Encoding") = << >>
  /\ \E t \in compressableMimes : IsPrefix(<<t>>, HeaderGet(o, "Content-Type"))

\* Slip: the length of the page is left in the header.
HeadersKeepingLength(o) ==
  Release(IF Compressable(o) THEN HeaderSet(o, "Content-Encoding", o.writer.compressionType)
          ELSE [o EXCEPT !.writer.compressionType = None])

prepareHeaders(o) ==
  Release(IF Compressable(o)
          THEN HeaderDel(HeaderSet(o, "Content-Encoding", o.writer.compressionType), "Content-Length")
          ELSE [o EXCEPT !.writer.compressionType = None])

Prepared(o) == IF o.writer.headersWritten THEN o ELSE prepareHeaders(o)

\* A Write to whichever writer the response has; and of several chunks one by one.
Write(o, chunk) ==
  IF o.writer = None THEN [o EXCEPT !.net = NetWrite(@, chunk, None)]
  ELSE IF o.writer.closed THEN o
  ELSE LET p == [Prepared(o) EXCEPT !.writer.headersWritten = TRUE]
       IN  [p EXCEPT !.net = NetWrite(@, chunk, p.writer.compressionType)]
WriteAll(o, chunks) ==
  LET after[n \in 0 .. Len(chunks)] == IF n = 0 THEN o ELSE Write(after[n - 1], chunks[n])
  IN  after[Len(chunks)]

\* The end of the compressed stream is a chunk of its own.  The writer of net/http is
\* no Closer.
Close(o) ==
  IF o.writer = None \/ o.writer.closed THEN o
  ELSE LET p == Prepared(o)
           q == HeaderDel(p, "Content-Length")
           ended == IF p.writer.compressionType = None THEN p
                    ELSE [q EXCEPT !.net = NetWrite(@, None, p.writer.compressionType)]
       IN  [ended EXCEPT !.writer.closed = TRUE]

\* Slip: weights are ignored.
DetectUnweighted(codings) ==
  LET named == SelectSeq(compressionTypes, LAMBDA t : \E i \in DOMAIN codings : codings[i].name \in {t, "*"})
  IN  IF named = << >> THEN None ELSE named[1]

\* detectCompressionType: the loop over the elements; chosen is an index of
\* compressionTypes, 3 as long as none is.  A bare * ends the loop.
Index(name) == CASE name \in {"*", "gzip"} -> 1 [] name = "deflate" -> 2 [] OTHER -> 3

Considered(s, e) ==
  IF s.stop \/ e.q = Bad THEN s
  ELSE IF e.q = None
  THEN IF e.name = "*" THEN [largestQ |-> 10, chosen |-> 1, stop |-> TRUE]
       ELSE IF Index(e.name) < s.chosen THEN [s EXCEPT !.largestQ = 10, !.chosen = Index(e.name)]
       ELSE s
  ELSE IF e.q >= s.largestQ /\ e.q > 0 /\ (e.name = "*" \/ Index(e.name) < s.chosen)
  THEN [s EXCEPT !.largestQ = e.q, !.chosen = Index(e.name)]
  ELSE s

\* What is found after 0, 1, ... elements.
Search(codings) ==
  LET after[n \in 0 .. Len(codings)] ==
        IF n = 0 THEN [largestQ |-> 0, chosen |-> 3, stop |-> FALSE]
        ELSE Considered(after[n - 1], codings[n])
  IN  after

detectCompressionType(codings) ==
  LET end == Search(codings)[Len(codings)]
  IN  IF end.largestQ = 0 THEN None ELSE compressionTypes[end.chosen]

(* -------------------------------- Results --------------------------------- *)

ResponseWriteHeader(o, status, type) ==
  LET s == IF o.status = 0 THEN status ELSE o.status
      t == IF o.contentType = "" THEN type ELSE o.contentType
  IN  SetStatus([HeaderSet(o, "Content-Type", t) EXCEPT !.status = s, !.contentType = t], s)

Page(o, status, type, chunks) == WriteAll(ResponseWriteHeader(o, status, type), chunks)

\* found: there is a template of the error page, and it renders.
ErrorResult(o, found) ==
  IF found THEN Page(o, IF o.status = 0 THEN 500 ELSE o.status, "text/html", <<"error">>)
  ELSE Page(o, 500, "text/plain", <<"error">>)
renderError(o, found) == ErrorResult([o EXCEPT !.status = 500], found)

\* RenderTemplateResult.  A streamed template that fails has written its chunks.
Template(o, r) ==
  LET page  == IF method = "HEAD" THEN << >> ELSE r.chunks
      sized == IF mode = "length" THEN HeaderSet(o, "Content-Length", Len(r.chunks)) ELSE o
  IN  IF mode = "stream"
      THEN LET p == Page(o, 200, "text/html", page) IN IF r.fails THEN renderError(p, r.found) ELSE p
      ELSE IF r.fails THEN renderError(o, r.found) ELSE Page(sized, 200, "text/html", page)

\* RenderHTMLResult, RenderTextResult, and RenderJSONResult and RenderXMLResult, which
\* fail on what cannot be marshalled.
Rendered(o, r) == IF r.fails THEN ErrorResult(o, r.found) ELSE Page(o, 200, r.type, r.chunks)

\* RedirectToURLResult and RedirectToActionResult; X stands for Location.
Redirect(o, r) ==
  IF r.fails THEN ErrorResult(o, r.found)
  ELSE ResponseWriteHeader(HeaderSet(o, "X", "url"), 302, "")

\* GoResponse.WriteStream: http.ServeContent on the native writer for what it can seek,
\* else a copy.  dated: the file has a time; unmodified: it is older than the
\* If-Unmodified-Since.  A read that fails comes after the chunks.
ServeContent(o, r) ==
  LET m == IF r.dated THEN HeaderSet(o, "Last-Modified", "date") ELSE o
      a == HeaderSet(m, "Accept-Ranges", "bytes")
      n == IF a.net.header["Content-Encoding"] = << >>
           THEN HeaderSet(a, "Content-Length", Len(r.chunks)) ELSE a
  IN  WriteAll([n EXCEPT !.net = NetWriteHeader(@, 200)], IF method = "HEAD" THEN << >> ELSE r.chunks)
Copied(o, r) ==
  LET sized == IF r.sized THEN HeaderSet(o, "Content-Length", Len(r.chunks)) ELSE o
      p     == WriteAll(sized, r.chunks)
  IN  IF r.fails THEN [p EXCEPT !.net = NetWriteHeader(@, 500)] ELSE p
Unmodified(o) ==
  [o EXCEPT !.net = NetWriteHeader(
     [@ EXCEPT !.header = [@ EXCEPT !["Content-Type"] = << >>, !["Content-Length"] = << >>]], 304)]
WriteStream(o, r) ==
  IF o.writer = None /\ r.seeks THEN ServeContent(o, r)
  ELSE IF r.unmodified THEN Unmodified(o) ELSE Copied(o, r)

Binary(o, r) ==
  WriteStream(HeaderSet(o, "Content-Type", IF o.contentType = "" THEN r.type ELSE o.contentType), r)

\* The status the methods of Controller leave when they make the Result (setStatusIfNil).
\* rendering: RenderError after a template was not found, when the status is 200 already.
Made(o, r) ==
  LET status == CASE r.kind \in {"page", "template", "binary"} -> 200
                  [] r.kind = "redirect" -> 302
                  [] r.kind = "error"    -> IF r.rendering THEN 200 ELSE 500
                  [] r.kind = "none"     -> 0
  IN  IF o.status = 0 THEN [o EXCEPT !.status = status] ELSE o

\* What handleInternal does with the Result, or with no Result.
Apply(o, r) ==
  CASE r.kind = "none"     -> IF o.status = 0 THEN o ELSE SetStatus(o, o.status)
    [] r.kind = "page"     -> Rendered(o, r)
    [] r.kind = "template" -> Template(o, r)
    [] r.kind = "redirect" -> Redirect(o, r)
    [] r.kind = "error"    -> ErrorResult(o, r.found)
    [] r.kind = "binary"   -> Binary(o, r)

Result ==
  [kind : {"none"}] \cup [kind : {"error"}, rendering : BOOLEAN, found : BOOLEAN]
  \cup [kind : {"redirect"}, fails : BOOLEAN, found : BOOLEAN]
  \cup [kind : {"template"}, chunks : Bodies, fails : BOOLEAN, found : BOOLEAN]
  \cup {r \in [kind : {"page"}, type : {"text/html", "application/json"}, chunks : Bodies,
               fails : BOOLEAN, found : BOOLEAN] : IF r.fails THEN r.chunks = << >> ELSE r.found}
  \cup {r \in [kind : {"binary"}, type : {"text/plain", "image/png"}, chunks : Bodies,
               fails : BOOLEAN, sized : BOOLEAN, seeks : BOOLEAN, dated : BOOLEAN,
               unmodified : BOOLEAN] :
          /\ IF r.seeks THEN r.sized /\ ~r.fails ELSE r.dated = r.unmodified
          /\ r.unmodified => r.dated
          /\ r.unmodified => r.chunks = << >> /\ ~r.fails}

(* -------------------------------- Behaviour ------------------------------- *)

Init ==
  /\ accept \in SeqOf(Coding, MaxCodings) /\ offer = None
  /\ method \in {"GET", "HEAD"} /\ mode \in Mode
  /\ phase = "received" /\ steps = 0 /\ touched = {} /\ head = "late" /\ result = None
  /\ out = [s \in Side |-> [net |-> [header |-> NoHeader, sent |-> None, body |-> << >>],
                            writer |-> None, status |-> 0, contentType |-> ""]]

\* The type depends on the request alone.
Receive ==
  /\ phase = "received"
  /\ phase' = "outer" /\ offer' = detectCompressionType(accept) /\ accept' = << >>
  /\ UNCHANGED <<method, mode, steps, touched, head, result, out>>

\* A filter or the action, before or behind CompressFilter, does something to the
\* response; or it sends the head.
Acts(outcome, names) ==
  /\ phase \in {"outer", "inner"} /\ steps < Steps
  /\ out' = outcome
  /\ steps' = steps + 1 /\ touched' = touched \cup names
  /\ UNCHANGED <<accept, offer, method, mode, phase, result>>
Does(outcome, names) == Acts(outcome, names) /\ UNCHANGED head
Sends(outcome) ==
  /\ Acts(outcome, {})
  /\ head' = IF head = "late" /\ out["plain"].net.sent = None THEN phase ELSE head

SetHeader    == \E e \in {<<"X", 1>>, <<"X", 2>>, <<"Content-Encoding", "br">>} :
                  Does([s \in Side |-> HeaderSet(out[s], e[1], e[2])], {})
AddHeader    == Does([s \in Side |-> HeaderAdd(out[s], "X", 3)], {"X"})
DelHeader    == Does([s \in Side |-> HeaderDel(out[s], "X")], {"X"})
GiveCookie   == Does([s \in Side |-> SetCookie(out[s], steps)], {})
ChooseStatus == \E c \in Status : Does([s \in Side |-> [out[s] EXCEPT !.status = c]], {})
ChooseType   == \E t \in {"text/html", "image/png"} :
                  Does([s \in Side |-> [out[s] EXCEPT !.contentType = t]], {})
WriteOut     == phase = "inner" /\ Does([s \in Side |-> Write(out[s], "early")], {})
SendStatus   == \E c \in Status : Sends([s \in Side |-> SetStatus(out[s], c)])
SendHead     == Sends([s \in Side |-> ResponseWriteHeader(out[s], 404, "text/html")])

CompressFilter ==
  /\ phase = "outer"
  /\ out' = [out EXCEPT !["compressed"].writer =
               IF BodyAllowed(out["compressed"].status) /\ offer # None THEN NewWriter(offer) ELSE None]
  /\ phase' = "inner"
  /\ UNCHANGED <<accept, offer, method, mode, steps, touched, head, result>>

ApplyResult ==
  /\ phase = "inner"
  /\ \E r \in Result : result' = r /\ out' = [s \in Side |-> Apply(Made(out[s], r), r)]
  /\ phase' = "applied"
  /\ UNCHANGED <<accept, offer, method, mode, steps, touched, head>>

\* handleInternal closes the writer, GoResponse.Destroy once more, and net/http sends
\* what has not been sent.
Finish ==
  /\ phase = "applied"
  /\ out' = [s \in Side |-> [Close(Close(out[s])) EXCEPT !.net = NetWriteHeader(@, 200)]]
  /\ phase' = "done"
  /\ UNCHANGED <<accept, offer, method, mode, steps, touched, head, result>>

Next == \/ Receive \/ CompressFilter \/ ApplyResult \/ Finish
        \/ SetHeader \/ AddHeader \/ DelHeader \/ GiveCookie \/ ChooseStatus \/ ChooseType
        \/ WriteOut \/ SendStatus \/ SendHead

Spec == Init /\ [][Next]_vars

(* ------------------------------- Properties ------------------------------- *)

Sent(side) == out[side].net.sent
Body(side) == out[side].net.body

\* The page in the body: all of it but for the end of the compressed stream.
Chunks(side) ==
  LET ended == Body(side) # << >> /\ Last(Body(side)).chunk = None
  IN  [i \in 1 .. Len(Body(side)) - (IF ended THEN 1 ELSE 0) |-> Body(side)[i].chunk]

\* A copy that failed, or that If-Unmodified-Since cut short: the header goes out behind
\* the buffer's back.
Disturbed == result.kind = "binary" /\ (result.fails \/ result.unmodified)

\* A template that is streamed fails after its status has gone out, or, while that is
\* still buffered, before.
Late == result.kind = "template" /\ result.fails /\ mode = "stream"

\* What http.ServeContent offers and the copy to a compressing writer does not.
Offered == IF result.kind = "binary" /\ result.seeks THEN {"Last-Modified", "Accept-Ranges"} ELSE {}

\* With compression a client gets what it gets without: the same status, the same page
\* when decoded, the same headers and cookies in the same order, whatever the filters
\* and the action have done in which order before and behind CompressFilter (which buffers
\* headers, status and cookies and releases them with the first write), if none of them
\* sends the head itself.  The two headers of the encoding differ, and those with which
\* http.ServeContent offers ranges and the date of a file; headers that were added to or
\* deleted may; and a streamed template that fails may have the status of the failure,
\* and its page.
Transparent ==
  phase = "done" /\ head = "late" /\ ~Disturbed =>
    /\ \/ Late /\ Sent("compressed").status = 500
       \/ /\ Sent("compressed").status = Sent("plain").status
          /\ method = "GET" => Chunks("compressed") = Chunks("plain")
    /\ \A k \in Header \ (touched \cup Offered \cup {"Content-Length", "Content-Encoding"}) :
         Sent("compressed").header[k] = Sent("plain").header[k]
    /\ Sent("plain").header["Content-Encoding"] # << >> =>
         Sent("compressed").header["Content-Encoding"] = Sent("plain").header["Content-Encoding"]

\* The header says what the body is: a Content-Encoding of ours comes with one whole
\* compressed stream, written to its end exactly once although the writer is closed
\* twice, and no other body is compressed; a Content-Length is the length of the body
\* as it is sent (prepareHeaders, Close).  So it is too when the head is sent early, but
\* not when a filter before CompressFilter sends it: then the encoding is never told.
WireHonest ==
  phase = "done" /\ ~Disturbed => \A side \in IF head = "outer" THEN {"plain"} ELSE Side :
    LET header == Sent(side).header
        body   == Body(side)
        ours   == {i \in DOMAIN body : body[i].by # None}
    IN  BodyAllowed(Sent(side).status) =>
          /\ IF header["Content-Encoding"] \in {<<t>> : t \in Range(compressionTypes)}
             THEN /\ ours = DOMAIN body
                  /\ {i \in DOMAIN body : body[i].chunk = None} = {Len(body)}
                  /\ \A i \in ours : <<body[i].by>> = header["Content-Encoding"]
             ELSE ours = {}
          /\ method = "GET" => header["Content-Length"] \in {<< >>, <<Len(body)>>}

\* The type found is one the client has given a weight, by name or by *, and a client
\* that has given one of the two types a weight gets one of them (detectCompressionType).
EncodingAccepted ==
  phase = "received" =>
    LET type == detectCompressionType(accept)
        Weighs(n) == \E i \in DOMAIN accept : accept[i].name = n /\ accept[i].q \notin {0, Bad}
    IN  IF type = None THEN \A t \in Range(compressionTypes) : ~Weighs(t)
        ELSE Weighs(type) \/ Weighs("*")
=============================================================================
