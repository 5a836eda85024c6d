------------------------------ MODULE HttpRead ------------------------------
(***************************************************************************)
(* Reading the requests of one client (phttp_server.cpp: phttp_on_alloc,   *)
(* phttp_on_read, after_send_http_res; http.cpp; membuf.h): the reads of   *)
(* the kernel are put together in a buffer, and the handler is called when *)
(* the header and the body it announces have arrived.                      *)
(*                                                                         *)
(* Bytes are named by their offset in the client's stream.  Pointers into  *)
(* the buffer are offsets from its beginning.  The handler answers, or has *)
(* the connection handed to another server, where the request is rebuilt   *)
(* in a buffer of that server (http_export.cpp; the rest of the handoff is *)
(* module Handoff) and its handler called.  The variables are those of the *)
(* server that has the connection.                                         *)
(***************************************************************************)
EXTENDS Integers, Sequences

CONSTANTS
  Reqs,         \* the client's requests: length and header lines of the
                \* header, lengths of the body that follows it and of what
                \* follows that does not belong
  Start,        \* the offsets where they start, then the stream's end
  InitCap,      \* initial size of the buffer (5000000 in the source)
  MinAvail,     \* phttp_on_alloc grows it below this room (1024)
  GrowBy,       \* room after growing (4096)
  Wrap,         \* unsigned arithmetic is modulo this (2^64)
  SplitHeader   \* a header may arrive in several reads

\* How a header's value reads as a number: its sign and prefix, the number its
\* digits make in each base, and whether strtoll gets to the value's end there.
Bases == {8, 10, 16}

Value == [neg: BOOLEAN, prefix: {"none", "0", "0x"},
          num: [Bases -> Nat], whole: [Bases -> BOOLEAN]]

\* Of a header's name only its length counts, and how many of its bytes are,
\* from the first one on and in this case, those of "Content-Length".
Header == [name_len: Nat, common: Nat, val: Value]

ASSUME HttpReadAssumption ==
  /\ Reqs \in Seq([head: Nat \ {0}, headers: Seq(Header), body: Nat, extra: Nat])
  /\ Start \in [1..(Len(Reqs) + 1) -> Nat]
  /\ Start[1] = 0
  /\ \A i \in 1..Len(Reqs) :
       Start[i + 1] = Start[i] + Reqs[i].head + Reqs[i].body + Reqs[i].extra
  /\ \A i, j \in 1..(Len(Reqs) + 1) : i < j => Start[i] < Start[j]
  /\ InitCap \in Nat
  /\ MinAvail \in Nat \ {0}
  /\ GrowBy \in Nat /\ GrowBy >= MinAvail
  /\ Wrap \in Nat /\ Wrap > 2 * Start[Len(Reqs) + 1]
  /\ SplitHeader \in BOOLEAN

VARIABLES
  base,        \* offset in the stream of the byte at mem->begin
  prev,        \* mem->prev - mem->begin
  cur,         \* mem->cur - mem->begin
  cap,         \* mem->end - mem->begin
  http_state,  \* HTTP_PARSING_HEADER or HTTP_RECEIVING_BODY
  body,        \* req->body - mem->begin, where the buffer was at the time
  body_len,    \* req->body_len
  moved,       \* realloc has moved the buffer since the header was parsed
  phase,       \* "read", "respond": a response is being written, "handoff":
               \* exported, "eof", "aborted": closed by the server,
               \* "reused": the handler was called again meanwhile, with
               \* the one uv_write_t in use, "overrun": the request was
               \* copied into a buffer too small for it
  sent,        \* requests the client has sent
  answered,    \* responses written
  stale        \* history: pointers into a buffer that moved were used

vars == <<base, prev, cur, cap, http_state, body, body_len, moved, phase,
          sent, answered, stale>>

StreamEnd == Start[Len(Reqs) + 1]

TypeOK ==
  /\ base \in 0..StreamEnd
  /\ prev \in 0..StreamEnd
  /\ cur \in 0..StreamEnd
  /\ cap \in Nat
  /\ http_state \in {"HTTP_PARSING_HEADER", "HTTP_RECEIVING_BODY"}
  /\ body \in Nat
  /\ body_len \in Nat
  /\ moved \in BOOLEAN
  /\ phase \in {"read", "respond", "handoff", "eof", "aborted", "reused",
                "overrun"}
  /\ sent \in 0..Len(Reqs)
  /\ answered \in Nat       \* more than sent once the buffer has moved
  /\ stale \in BOOLEAN

Init ==
  /\ base = 0 /\ prev = 0 /\ cur = 0
  /\ cap = InitCap
  /\ http_state = "HTTP_PARSING_HEADER"
  /\ body = 0 /\ body_len = 0 /\ moved = FALSE
  /\ phase = "read"
  /\ sent = 0 /\ answered = 0
  /\ stale = FALSE

-----------------------------------------------------------------------------
(* The client and its kernel (external).                                   *)

\* The client sends its next request when it has the last response.
ClientSend ==
  /\ sent < Len(Reqs)
  /\ sent = answered
  /\ sent' = sent + 1
  /\ UNCHANGED <<base, prev, cur, cap, http_state, body, body_len, moved,
                 phase, answered, stale>>

\* Whether a read may end at offset o of the stream.
MayEndAt(o) ==
  /\ o <= Start[sent + 1]
  /\ ~SplitHeader =>
       \A i \in 1..Len(Reqs) : ~(Start[i] < o /\ o < Start[i] + Reqs[i].head)

-----------------------------------------------------------------------------
(* The buffer and the parser.                                              *)

\* The size of a buffer with used bytes in it: what was free is forgotten.
membuf_grow(used, grow_size) == used + grow_size

\* phttp_on_alloc grows the buffer when there is little room.  realloc may
\* move it, and then the pointers of a parsed request are left behind.
Grows == cap - cur < MinAvail

\* The request whose first byte is the first of the buffer, if there is one.
AtBegin == {i \in 1..Len(Reqs) : Start[i] = base}

\* http_parse_request: what phr_parse_request returns for the first end
\* bytes of the buffer, the length of the header or -2 for an incomplete one.
\* For bytes that are not the beginning of a request it returns an error, -1,
\* sooner or later.
http_parse_request(end) ==
  IF AtBegin = {} THEN {-1, -2}
  ELSE {IF end >= Reqs[i].head THEN Reqs[i].head ELSE -2 : i \in AtBegin}

\* Mutant: the names are compared only up to the hyphen's byte and so take in
\* Content-Type.
MatchesContent(h) == h.common >= h.name_len \/ h.common >= 8

\* strncmp over the shorter one of the header's name and "Content-Length".
Matches(h) == h.common >= h.name_len \/ h.common >= 14

\* http_request_find_header: the first header that matches, if one does.
http_request_find_header(headers) ==
  LET found == {j \in 1..Len(headers) : Matches(headers[j])}
  IN  {j \in found : \A l \in found : j <= l}

\* The base that strtoll takes when it is given 0.
Base(v) == CASE v.prefix = "0x" -> 16 [] v.prefix = "0" -> 8 [] OTHER -> 10

\* strtoll: the number, or the limit of a long long that it is beyond.
strtoll(v) ==
  LET n == v.num[Base(v)]
  IN  IF v.neg THEN IF 2 * n <= Wrap THEN -n ELSE -(Wrap \div 2)
      ELSE IF 2 * n < Wrap THEN n ELSE Wrap \div 2 - 1

\* The length request i announces: as a uint64_t, and 0 without a header that
\* matches or when something follows the number.
http_request_determine_body_len(i) ==
  LET headers == Reqs[i].headers
      vals == {headers[j].val : j \in http_request_find_header(headers)}
      lengths == {strtoll(v) : v \in {v \in vals : v.whole[Base(v)]}}
  IN  IF lengths = {} THEN 0
      ELSE LET ret == CHOOSE n \in lengths : TRUE
           IN  IF ret < 0 THEN Wrap + ret ELSE ret

\* Mutant: one byte too far.
BodyBehindHeader(nparsed) == cur + nparsed + 1

\* Mutant: nparsed is forgotten.
BodyAtRead(nparsed) == cur

\* mem->prev + nparsed: the header's length is added to the beginning of the
\* read that completed it (mem->prev is what mem->cur was before the read).
BodyPointer(nparsed) == cur + nparsed

\* (uint64_t)(mem->cur - req->body) for a body at b: unsigned, and anything
\* when the two point into different buffers.
BodyReceived(end, b, dangling) ==
  IF dangling THEN 0..StreamEnd
  ELSE {IF end >= b THEN end - b ELSE Wrap + end - b}

-----------------------------------------------------------------------------
(* phttp_on_read.                                                          *)

\* The request handler is called.  It answers or returns 600, and then
\* reading stops and the request is exported.
CallHandler ==
  phase' \in IF phase = "respond" THEN {"reused"} ELSE {"respond", "handoff"}

Wait == UNCHANGED phase

\* hcs->hs.close.
Close == phase' = "aborted"

\* case HTTP_RECEIVING_BODY, for a body of len bytes at b.
ReceivingBody(end, b, len, dangling) ==
  \E got \in BodyReceived(end, b, dangling) :
    \/ /\ got = len
       /\ http_state' = "HTTP_PARSING_HEADER"
       /\ CallHandler
    \/ /\ got > len
       /\ http_state' = "HTTP_RECEIVING_BODY"
       /\ Close
    \/ /\ got < len
       /\ http_state' = "HTTP_RECEIVING_BODY"
       /\ Wait

\* case HTTP_PARSING_HEADER.
ParsingHeader(end) ==
  \E nparsed \in http_parse_request(end) :
    \/ /\ nparsed < 0
       /\ IF nparsed = -1 THEN Close ELSE Wait
       /\ UNCHANGED <<http_state, body, body_len>>
    \/ /\ nparsed > 0
       /\ \E i \in AtBegin : http_request_determine_body_len(i) = 0
       /\ CallHandler
       /\ UNCHANGED <<http_state, body, body_len>>
    \/ /\ nparsed > 0
       /\ \E i \in AtBegin :
            LET len == http_request_determine_body_len(i)
            IN  /\ len # 0
                /\ body' = BodyPointer(nparsed)
                /\ body_len' = len
                /\ ReceivingBody(end, BodyPointer(nparsed), len, FALSE)

\* The kernel returns n bytes (phttp_on_alloc, membuf_consume).
on_read(n) ==
  /\ phase \in {"read", "respond"}
  /\ MayEndAt(base + cur + n)
  /\ n <= (IF Grows THEN GrowBy ELSE cap - cur)
  /\ cap' = IF Grows THEN membuf_grow(cur, GrowBy) ELSE cap
  /\ prev' = cur
  /\ cur' = cur + n
  /\ IF http_state = "HTTP_PARSING_HEADER"
     THEN /\ moved' = FALSE
          /\ ParsingHeader(cur + n)
     ELSE /\ moved' \in {moved, moved \/ Grows}
          /\ ReceivingBody(cur + n, body, body_len, moved')
          /\ UNCHANGED <<body, body_len>>
  /\ stale' = (stale \/ (http_state = "HTTP_RECEIVING_BODY" /\ moved'))
  /\ UNCHANGED <<base, sent, answered>>

\* The client has closed, or reset, the connection.
on_read_eof ==
  /\ phase \in {"read", "respond"}
  /\ phase' = "eof"
  /\ UNCHANGED <<base, prev, cur, cap, http_state, body, body_len, moved,
                 sent, answered, stale>>

-----------------------------------------------------------------------------
(* http_export.cpp, at the server the request is handed to.                *)

\* Mutant: room is made the way phttp_on_alloc does.
ImportReserves ==
  IF InitCap - cur < MinAvail THEN membuf_grow(0, GrowBy) ELSE InitCap

\* Mutant: the bytes that are missing, when none are.
ImportUnchecked == membuf_grow(0, cur - InitCap)

\* The size of the buffer, fresh from http_request_init, for the used part of
\* the exported one: only the bytes that are missing are asked for.
ImportCap ==
  IF InitCap < cur THEN membuf_grow(0, cur - InitCap) ELSE InitCap

\* http_request_export takes the used part of the buffer and the offset of
\* each pointer in it; http_request_import copies and adds.  The handler of
\* this server answers, or has it passed on as it came: a stuttering step.
http_request_import ==
  /\ phase = "handoff"
  /\ cap' = ImportCap
  /\ phase' = IF ImportCap < cur THEN "overrun" ELSE "respond"
  /\ prev' = 0
  /\ body' = IF body_len = 0 THEN 0 ELSE body
  /\ UNCHANGED <<base, cur, http_state, body_len, moved, sent, answered, stale>>

-----------------------------------------------------------------------------

\* Mutant: the reset forgets the body.
AnswerKeepsBody ==
  /\ phase = "respond"
  /\ phase' = "read"
  /\ answered' = answered + 1
  /\ base' = base + cur
  /\ prev' = 0 /\ cur' = 0
  /\ moved' = FALSE
  /\ UNCHANGED <<cap, http_state, body, body_len, sent, stale>>

\* after_send_http_res: http_request_reset empties the buffer.
after_send_http_res ==
  /\ phase = "respond"
  /\ phase' = "read"
  /\ answered' = answered + 1
  /\ base' = base + cur
  /\ prev' = 0 /\ cur' = 0
  /\ body' = 0 /\ body_len' = 0 /\ moved' = FALSE
  /\ UNCHANGED <<cap, http_state, sent, stale>>

Next ==
  \/ ClientSend
  \/ \E n \in 1..StreamEnd : on_read(n)
  \/ on_read_eof
  \/ http_request_import
  \/ after_send_http_res

Spec == Init /\ [][Next]_vars

\* The kernel delivers what the client has sent, a handoff arrives and the
\* response is written; the client need not send anything, nor close.
FairSpec ==
  /\ Spec
  /\ WF_vars(\E n \in 1..StreamEnd : on_read(n))
  /\ WF_vars(http_request_import)
  /\ WF_vars(after_send_http_res)

-----------------------------------------------------------------------------
(* Properties.                                                             *)

\* The number of the request that is next to be handled.
Current == answered + 1

Length(i) == Reqs[i].head + Reqs[i].body

\* What the server takes for request i: bytes that are missing are waited for.
Taken(i) ==
  LET len == http_request_determine_body_len(i)
  IN  IF len = 0 \/ len > Reqs[i].body + Reqs[i].extra
      THEN Length(i) + Reqs[i].extra
      ELSE Reqs[i].head + len

\* The text of v is that of n, as decimal digits are written.
Decimal(v, n) ==
  /\ ~v.neg
  /\ IF n = 0 THEN v.prefix = "0" /\ v.num[8] = 0
     ELSE v.prefix = "none" /\ v.num[10] = n /\ v.whole[10]

\* Request i announces its body the usual way: "Content-Length", written like
\* this and once, with the body's length, and no other name that is a beginning
\* of this one or begins with it; or it has no body and no such header.
PlainLength(i) ==
  LET headers == Reqs[i].headers
      alike == {j \in 1..Len(headers) : \/ headers[j].common >= headers[j].name_len
                                        \/ headers[j].common >= 14}
  IN  \/ alike = {} /\ Reqs[i].body = 0
      \/ \E j \in 1..Len(headers) :
           /\ alike = {j}
           /\ headers[j].name_len = 14
           /\ Decimal(headers[j].val, Reqs[i].body)

\* The handler, also that of a server the request is handed to, is given the
\* client's next request from its first byte on, with the body length that
\* http_request_determine_body_len finds: the body pointer is behind the header
\* and into the buffer in use, and the buffer ends with the body.  This is the
\* client's body when its length is announced the usual way.  Once the buffer
\* has moved under a body nothing can be said.
HandlerSeesRequest ==
  phase \in {"respond", "handoff"} /\ ~stale =>
    /\ Current <= sent
    /\ base = Start[Current]
    /\ body_len = http_request_determine_body_len(Current)
    /\ IF body_len > 0
       THEN body = Reqs[Current].head /\ cur = body + body_len /\ ~moved
       ELSE cur \in Reqs[Current].head..(Length(Current) + Reqs[Current].extra)
    /\ PlainLength(Current) => body_len = Reqs[Current].body

\* The two ways to lose the buffer threaten only large requests: realloc
\* leaves the body pointer behind only when a request leaves less room than
\* phttp_on_alloc wants before its last byte, and http_request_import
\* overruns its buffer only when a request is longer than a new buffer.
LosesOnlyLarge ==
  /\ stale => \E i \in 1..sent : Taken(i) > InitCap - MinAvail + 1
  /\ phase = "overrun" /\ ~stale => Taken(Current) > InitCap

\* The server closes the connection only when the request at the beginning of
\* the buffer, or the one whose end is there, has bytes behind it that belong to
\* no request, or a body whose length is not announced the usual way and is
\* found to be shorter, or after the buffer has moved: a request with a usual
\* length is never found to be oversized, nor rejected by the parser
\* (phttp_on_read), whatever came before it.
AbortsOnlyOversized ==
  phase = "aborted" /\ ~stale =>
    \E i \in 1..sent :
      /\ Start[i] <= base /\ base < Start[i + 1]
      /\ \/ Reqs[i].extra > 0
         \/ ~PlainLength(i) /\ http_request_determine_body_len(i) < Reqs[i].body

\* A request is answered, here or by the server it is handed to, when it and
\* those before it have a usual length and nothing behind them, unless the
\* connection or the buffer is lost: even when its body arrives byte by byte.
EveryRequestAnswered ==
  \A k \in {k \in 1..Len(Reqs) :
            \A i \in 1..k : PlainLength(i) /\ Reqs[i].extra = 0} :
    sent = k ~> answered >= k \/ phase \in {"eof", "overrun"} \/ stale

=============================================================================
