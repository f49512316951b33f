------------------------------ MODULE HttpProxy ------------------------------
(***************************************************************************)
(* The HTTP proxy parser, destination/http_proxy.go.  A CONNECT is         *)
(* acknowledged and taken out of the buffer.  Any other request stays in   *)
(* the buffer, and the parser finds out how much of what is buffered       *)
(* belongs to it: the head, and the body by Content-Length or by chunks,   *)
(* as far as it has come.  While a body is incomplete the connection has a *)
(* state, <<[dest, remaining, chunked]>>; chunked is <<>> or <<c>>, with c *)
(* the position inside the chunked coding.                                 *)
(***************************************************************************)
EXTENDS Destination
LOCAL INSTANCE FiniteSetsExt

CONSTANTS
  MaxMetadata,  \* maxHTTPChunkMetadataSize
  MaxUint       \* greatest chunk size ParseUint returns, 2^64 - 1

CR == 13
LF == 10
Semicolon == 59
Spaces == {9, 10, 11, 12, 13, 32}

\* The answer to CONNECT.
Ack == [proto |-> "HTTP", code |-> 200]

Smaller(m, n) == IF m < n THEN m ELSE n

(***************************************************************************)
(* httpChunkedBodyState                                                    *)
(***************************************************************************)
ChunkedStart == [phase |-> "size", line |-> <<>>, remaining |-> 0, crlfPos |-> 0]

\* strconv.ParseUint(s, 16, 64) is external: -1 stands for its errors.
HexDigits == [d \in (48..57) \cup (65..70) \cup (97..102) |->
                IF d <= 57 THEN d - 48 ELSE IF d <= 70 THEN d - 55 ELSE d - 87]
ParseUint(s) ==
  LET Value[i \in 0..Len(s)] == IF i = 0 THEN 0 ELSE 16 * Value[i - 1] + HexDigits[s[i]]
  IN  IF /\ s # <<>>
         /\ \A i \in DOMAIN s : s[i] \in DOMAIN HexDigits
         /\ Value[Len(s)] <= MaxUint
        THEN Value[Len(s)]
        ELSE -1

\* strings.TrimSpace on ASCII text: its Unicode spaces are left out.
TrimSpace(s) ==
  LET kept == {i \in DOMAIN s : s[i] \notin Spaces}
  IN  IF kept = {} THEN <<>> ELSE SubSeq(s, Min(kept), Max(kept))

\* The size in a size line: what is before the extensions.
SizeText(text) ==
  LET ext == {i \in DOMAIN text : text[i] = Semicolon}
  IN  TrimSpace(IF ext = {} THEN text ELSE SubSeq(text, 1, Min(ext) - 1))

\* A byte of a size or trailer line; "more", "done" or "error" is what
\* consume returns if the buffer ends here.
LineByte(c, b) ==
  LET line == Append(c.line, b)
      n    == Len(line)
      size == ParseUint(SizeText(SubSeq(line, 1, n - 2)))
  IN  IF n > MaxMetadata THEN <<"error", c>>
      ELSE IF b # LF THEN <<"more", [c EXCEPT !.line = line]>>
      ELSE IF n < 2 \/ line[n - 1] # CR THEN <<"error", c>>
      ELSE IF c.phase = "trailer"
        THEN <<IF n = 2 THEN "done" ELSE "more", [c EXCEPT !.line = <<>>]>>
      ELSE IF size = -1 THEN <<"error", c>>
      ELSE <<"more", [c EXCEPT !.line = <<>>, !.remaining = size,
                               !.phase = IF size = 0 THEN "trailer" ELSE "data"]>>

DataByte(c) ==
  <<"more", [c EXCEPT !.remaining = @ - 1,
                      !.phase = IF c.remaining = 1 THEN "dataEnd" ELSE "data"]>>

DataEndByte(c, b) ==
  IF b # <<CR, LF>>[c.crlfPos + 1] THEN <<"error", c>>
  ELSE IF c.crlfPos = 0 THEN <<"more", [c EXCEPT !.crlfPos = 1]>>
  ELSE <<"more", [c EXCEPT !.crlfPos = 0, !.phase = "size"]>>

ChunkByte(c, b) ==
  CASE c.phase \in {"size", "trailer"} -> LineByte(c, b)
    [] c.phase = "data"                -> DataByte(c)
    [] c.phase = "dataEnd"             -> DataEndByte(c, b)

\* consume: byte after byte until the body is done or cannot be one.
ConsumeChunked(c, buf) ==
  LET At[i \in 0..Len(buf)] ==
        IF i = 0 THEN [verdict |-> "more", c |-> c, n |-> 0]
        ELSE IF At[i - 1].verdict # "more" THEN At[i - 1]
        ELSE LET step == ChunkByte(At[i - 1].c, buf[i])
             IN  [verdict |-> step[1], c |-> step[2], n |-> i]
  IN  At[Len(buf)]

(***************************************************************************)
(* httpProxyRequestState                                                   *)
(***************************************************************************)
BodyStart(h) ==
  [dest |-> WithPort(h.host, 80), remaining |-> h.length,
   chunked |-> IF h.chunked THEN <<ChunkedStart>> ELSE <<>>]

\* consume: of the first limit bytes of buf, how many belong to the request;
\* err, done, and the state after them.
Consume(s, buf, limit) ==
  LET b == SubSeq(buf, 1, Smaller(limit, Len(buf)))
      n == IF s.remaining <= 0 THEN 0 ELSE Smaller(Len(b), s.remaining)
  IN  IF s.chunked # <<>>
        THEN LET r == ConsumeChunked(s.chunked[1], b)
             IN  [n |-> r.n, err |-> r.verdict = "error", done |-> r.verdict = "done",
                  s |-> [s EXCEPT !.chunked = <<r.c>>]]
        ELSE [n |-> n, err |-> FALSE, done |-> s.remaining <= n,
              s |-> [s EXCEPT !.remaining = @ - n]]

(***************************************************************************)
(* Parse                                                                   *)
(***************************************************************************)
\* The result for n bytes of a request, whose state is dropped when done.
OfRequest(n, r) ==
  IF r.err THEN ParseRejected
           ELSE ParseDoneRequest(r.s.dest, n, IF r.done THEN <<>> ELSE <<r.s>>)

\* The rest of a body that has begun.
ParseBody(s, buf) ==
  LET r == Consume(s, buf, MaxPayload) IN OfRequest(r.n, r)

\* Mutant: the head is not counted in the limit.
ParsePlainUnlimited(h, buf) ==
  LET head == Len(h.bytes)
      r    == Consume(BodyStart(h), SubSeq(buf, head + 1, Len(buf)), MaxPayload)
  IN  OfRequest(head + r.n, r)

ParsePlain(h, buf) ==
  LET head == Len(h.bytes)
      r    == Consume(BodyStart(h), SubSeq(buf, head + 1, Len(buf)), MaxPayload - head)
  IN  OfRequest(head + r.n, r)

ParseConnect(h) ==
  [ParseDone(WithPort(h.host, 443), Len(h.bytes), <<>>) EXCEPT !.reply = <<Ack>>]

ParseHead(buf) ==
  IF HeadIn(buf) # {}
    THEN LET h == CHOOSE h \in HeadIn(buf) : TRUE
         IN  IF Len(h.bytes) > MaxPayload THEN ParseRejected
             ELSE IF h.connect THEN ParseConnect(h)
             ELSE ParsePlain(h, buf)
    ELSE IF HeadBegins(buf) THEN ParseNeedMoreData(<<>>)
                            ELSE ParseRejected

ParseHTTPProxy(state, buf) ==
  IF state # <<>> THEN ParseBody(state[1], buf) ELSE ParseHead(buf)
=============================================================================
