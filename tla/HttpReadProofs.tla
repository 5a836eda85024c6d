--------------------------- MODULE HttpReadProofs ---------------------------
(***************************************************************************)
(* The safety properties of module HttpRead, for requests of any number    *)
(* and length, cut by the kernel in any way that leaves headers whole.     *)
(***************************************************************************)
EXTENDS HttpRead, TLAPS

\* The lengths of request i.
HeadLen(i) == Reqs[i].head

BodyLen(i) == Reqs[i].body

ExtraLen(i) == Reqs[i].extra

\* All that is sent for it.
TotalLen(i) == Length(i) + ExtraLen(i)

\* The length it announces, as the server reads it.
BodyLenOf(i) == http_request_determine_body_len(i)

\* What follows a body of the announced length is shorter than the request's
\* header: more would be taken for the body of the same request once more.
ShortTails ==
  \A i \in 1..Len(Reqs) :
    BodyLenOf(i) > 0 => TotalLen(i) < BodyLenOf(i) + 2 * HeadLen(i)

\* What is in the buffer has been sent.
BufferWasSent == base + cur <= Start[sent + 1]

\* A request that leaves less room than phttp_on_alloc wants.
Large(i) == Taken(i) > InitCap - MinAvail + 1

\* The buffer starts with request k, the one that is not answered yet.
AtRequest(k) ==
  /\ k = answered + 1 /\ k = sent
  /\ base = Start[k]

\* The body of request k is being received or, when all is there, has been.
BodyOf(k) ==
  /\ body_len = BodyLenOf(k)
  /\ body_len > 0 => body = HeadLen(k)

\* Nothing is in the buffer.
Empty == base = Start[answered + 1] /\ cur = 0

\* The buffer starts behind what was taken for a request and before its end.
Junk ==
  \E i \in 1..sent :
    Start[i] + HeadLen(i) + BodyLenOf(i) <= base /\ base < Start[i + 1]

ParsingFits ==
  phase = "read" /\ http_state = "HTTP_PARSING_HEADER" =>
    /\ body_len = 0
    /\ Empty \/ Junk

ReceivingFits ==
  phase = "read" /\ http_state = "HTTP_RECEIVING_BODY" =>
    /\ sent \in 1..Len(Reqs) /\ AtRequest(sent) /\ BodyOf(sent)
    /\ HeadLen(sent) <= cur /\ cur < HeadLen(sent) + BodyLenOf(sent)

HandledFits ==
  phase \in {"respond", "handoff"} =>
    /\ http_state = "HTTP_PARSING_HEADER"
    /\ sent \in 1..Len(Reqs) /\ AtRequest(sent) /\ BodyOf(sent)
    /\ IF BodyLenOf(sent) = 0 THEN cur >= HeadLen(sent)
       ELSE cur = HeadLen(sent) + BodyLenOf(sent)

\* The buffer starts with request i or somewhere in it, and more of it is sent
\* than the server takes for it.
Blamed(i) ==
  /\ Start[i] <= base /\ base < Start[i + 1]
  /\ BodyLenOf(i) < BodyLen(i) + ExtraLen(i)

EndFits ==
  /\ phase = "aborted" => \E i \in 1..sent : Blamed(i)
  /\ phase = "overrun" => Taken(Current) > InitCap
  /\ phase # "overrun" => InitCap <= cap

\* As long as the buffer has not moved under a body.
Orderly ==
  /\ ~moved
  /\ answered \in 0..sent /\ sent <= answered + 1
  /\ ParsingFits
  /\ ReceivingFits
  /\ HandledFits
  /\ EndFits

\* The inductive invariants: of the types, and of the rest.
SentInv == TypeOK /\ BufferWasSent

ReadInv ==
  /\ SentInv
  /\ stale => \E i \in 1..sent : Large(i)
  /\ ~stale => Orderly

-----------------------------------------------------------------------------
(* The stream.                                                             *)

\* The requests lie one behind the other.
LEMMA StreamFacts ==
  /\ Len(Reqs) \in Nat /\ StreamEnd \in Nat
  /\ \A i \in 1..(Len(Reqs) + 1) : Start[i] \in Nat /\ Start[i] <= StreamEnd
  /\ \A i, j \in 1..(Len(Reqs) + 1) : i < j => Start[i] < Start[j]
  /\ \A i \in 1..Len(Reqs) :
       /\ HeadLen(i) \in Nat /\ HeadLen(i) > 0 /\ BodyLen(i) \in Nat /\ ExtraLen(i) \in Nat
       /\ Length(i) = HeadLen(i) + BodyLen(i)
       /\ Start[i + 1] = Start[i] + Length(i) + ExtraLen(i)
<1>1. /\ Reqs \in Seq([head: Nat \ {0}, headers: Seq(Header), body: Nat, extra: Nat])
      /\ Start \in [1..(Len(Reqs) + 1) -> Nat]
      /\ \A i, j \in 1..(Len(Reqs) + 1) : i < j => Start[i] < Start[j]
      /\ \A i \in 1..Len(Reqs) :
           Start[i + 1] = Start[i] + HeadLen(i) + BodyLen(i) + ExtraLen(i)
  BY HttpReadAssumption DEF HeadLen, BodyLen, ExtraLen
<1>2. Len(Reqs) \in Nat
  BY <1>1
<1>3. \A i \in 1..(Len(Reqs) + 1) : Start[i] \in Nat
  BY <1>1
<1>4. Len(Reqs) + 1 \in 1..(Len(Reqs) + 1)
  BY <1>2
<1>5. StreamEnd \in Nat /\ \A i \in 1..(Len(Reqs) + 1) : Start[i] <= StreamEnd
  <2>1. ASSUME NEW i \in 1..(Len(Reqs) + 1)
        PROVE  i = Len(Reqs) + 1 \/ i < Len(Reqs) + 1
    BY <1>2
  <2>2. StreamEnd = Start[Len(Reqs) + 1] /\ StreamEnd \in Nat
    BY <1>3, <1>4 DEF StreamEnd
  <2>3. ASSUME NEW i \in 1..(Len(Reqs) + 1)
        PROVE  Start[i] <= StreamEnd
    <3>1. Start[i] \in Nat /\ (i < Len(Reqs) + 1 => Start[i] < Start[Len(Reqs) + 1])
      BY <1>1, <1>3, <1>4
    <3> QED
      BY <2>1, <2>2, <3>1
  <2> QED
    BY <2>2, <2>3
<1>6. ASSUME NEW i \in 1..Len(Reqs)
      PROVE  /\ HeadLen(i) \in Nat /\ HeadLen(i) > 0 /\ BodyLen(i) \in Nat
             /\ ExtraLen(i) \in Nat
  <2> DEFINE R == [head: Nat \ {0}, headers: Seq(Header), body: Nat, extra: Nat]
  <2>0. Reqs \in Seq(R)
    BY <1>1
  <2> HIDE DEF R
  <2>1. Reqs[i] \in R
    BY <1>6, <2>0
  <2> USE DEF R
  <2> QED
    BY <2>1 DEF HeadLen, BodyLen, ExtraLen
<1>7. ASSUME NEW i \in 1..Len(Reqs)
      PROVE  /\ Length(i) = HeadLen(i) + BodyLen(i)
             /\ Start[i + 1] = Start[i] + Length(i) + ExtraLen(i)
  <2>1. Start[i] \in Nat
    BY <1>2, <1>3
  <2>2. Length(i) = HeadLen(i) + BodyLen(i)
    BY DEF Length, HeadLen, BodyLen
  <2> QED
    BY <1>1, <1>6, <2>1, <2>2
<1> QED
  BY <1>1, <1>2, <1>3, <1>5, <1>6, <1>7

\* The constants.
LEMMA SizeFacts ==
  /\ InitCap \in Nat /\ MinAvail \in Nat \ {0}
  /\ GrowBy \in Nat /\ GrowBy >= MinAvail
  /\ Wrap \in Nat /\ Wrap > 2 * StreamEnd
  BY HttpReadAssumption DEF StreamEnd

\* strtoll is within the limits of a signed number of Wrap's width.
LEMMA StrtollFits ==
  ASSUME NEW v \in Value
  PROVE  /\ Base(v) \in Bases
         /\ strtoll(v) \in Int /\ -Wrap <= strtoll(v) /\ strtoll(v) < Wrap
<1>1. Base(v) \in Bases
  BY DEF Base, Bases
<1>2. v.num[Base(v)] \in Nat
  BY <1>1 DEF Value
<1>3. Wrap \in Nat /\ Wrap > 0
  BY StreamFacts, SizeFacts
<1> QED
  BY <1>1, <1>2, <1>3 DEF strtoll

\* The headers of a request.
LEMMA HeaderFacts ==
  ASSUME NEW k \in 1..Len(Reqs)
  PROVE  /\ Len(Reqs[k].headers) \in Nat
         /\ \A j \in 1..Len(Reqs[k].headers) :
              Reqs[k].headers[j].val \in Value
<1> DEFINE R == [head: Nat \ {0}, headers: Seq(Header), body: Nat, extra: Nat]
<1>0. Reqs \in Seq(R)
  BY HttpReadAssumption
<1> HIDE DEF R
<1>1. Reqs[k] \in R
  BY <1>0
<1> USE DEF R
<1>2. Reqs[k].headers \in Seq(Header)
  BY <1>1
<1>3. \A j \in 1..Len(Reqs[k].headers) : Reqs[k].headers[j] \in Header
  BY <1>2
<1> QED
  BY <1>2, <1>3 DEF Header

\* The announced length is that of an unsigned number.
LEMMA AnnouncedFits ==
  ASSUME NEW k \in 1..Len(Reqs)
  PROVE  BodyLenOf(k) \in Nat /\ BodyLenOf(k) < Wrap
<1> DEFINE headers == Reqs[k].headers
           vals == {headers[j].val : j \in http_request_find_header(headers)}
           lengths == {strtoll(v) : v \in {v \in vals : v.whole[Base(v)]}}
           ret == CHOOSE n \in lengths : TRUE
<1>1. \A v \in vals : v \in Value
  BY HeaderFacts DEF http_request_find_header
<1>2. \A n \in lengths : n \in Int /\ -Wrap <= n /\ n < Wrap
  BY <1>1, StrtollFits
<1>3. BodyLenOf(k) = IF lengths = {} THEN 0
                     ELSE IF ret < 0 THEN Wrap + ret ELSE ret
  BY DEF BodyLenOf, http_request_determine_body_len
<1>4. lengths # {} => ret \in lengths
  OBVIOUS
<1>5. Wrap \in Nat /\ Wrap > 0
  BY StreamFacts, SizeFacts
<1> HIDE DEF ret, lengths
<1> QED
  BY <1>2, <1>3, <1>4, <1>5

\* A body of the client is shorter than half of Wrap.
LEMMA BodyIsShort ==
  ASSUME NEW k \in 1..Len(Reqs)
  PROVE  2 * BodyLen(k) < Wrap
<1>1. k + 1 \in 1..(Len(Reqs) + 1) /\ k \in 1..(Len(Reqs) + 1)
  BY StreamFacts
<1>2. /\ Start[k] \in Nat /\ Start[k + 1] \in Nat /\ Start[k + 1] <= StreamEnd
      /\ StreamEnd \in Nat
  BY <1>1, StreamFacts
<1>3. /\ HeadLen(k) \in Nat /\ BodyLen(k) \in Nat /\ ExtraLen(k) \in Nat
      /\ Length(k) = HeadLen(k) + BodyLen(k)
      /\ Start[k + 1] = Start[k] + Length(k) + ExtraLen(k)
  BY StreamFacts
<1> QED
  BY <1>2, <1>3, SizeFacts

\* A length announced the usual way is read as what it is.
LEMMA PlainIsAnnounced ==
  ASSUME NEW k \in 1..Len(Reqs), PlainLength(k)
  PROVE  BodyLenOf(k) = BodyLen(k)
<1> DEFINE headers == Reqs[k].headers
           alike == {j \in 1..Len(headers) : Matches(headers[j])}
           vals == {headers[j].val : j \in http_request_find_header(headers)}
           lengths == {strtoll(v) : v \in {v \in vals : v.whole[Base(v)]}}
           ret == CHOOSE n \in lengths : TRUE
<1>1. BodyLenOf(k) = IF lengths = {} THEN 0
                     ELSE IF ret < 0 THEN Wrap + ret ELSE ret
  BY DEF BodyLenOf, http_request_determine_body_len
<1>5. lengths # {} => ret \in lengths
  OBVIOUS
<1> HIDE DEF ret
<1>2. \/ alike = {} /\ BodyLen(k) = 0
      \/ \E j \in 1..Len(headers) :
           alike = {j} /\ Decimal(headers[j].val, BodyLen(k))
  BY DEF PlainLength, Matches, BodyLen
<1>3. CASE alike = {} /\ BodyLen(k) = 0
  <2>1. http_request_find_header(headers) = {}
    BY <1>3 DEF http_request_find_header
  <2> QED
    BY <1>1, <1>3, <2>1
<1>4. ASSUME NEW j \in 1..Len(headers),
             alike = {j}, Decimal(headers[j].val, BodyLen(k))
      PROVE  BodyLenOf(k) = BodyLen(k)
  <2> DEFINE v == headers[j].val
  <2>1. http_request_find_header(headers) = {j}
    <3>1. j \in Nat
      BY HeaderFacts
    <3> QED
      BY <1>4, <3>1 DEF http_request_find_header
  <2>2. vals = {v}
    BY <2>1
  <2>3. lengths = IF v.whole[Base(v)] THEN {strtoll(v)} ELSE {}
    BY <2>2
  <2>4. BodyLen(k) \in Nat /\ 2 * BodyLen(k) < Wrap
    BY BodyIsShort, StreamFacts
  <2>5. CASE BodyLen(k) = 0
    <3>1. ~v.neg /\ Base(v) = 8 /\ v.num[8] = 0
      BY <1>4, <2>5 DEF Decimal, Base
    <3>2. strtoll(v) = 0
      BY <2>4, <2>5, <3>1 DEF strtoll
    <3>3. lengths = {0} \/ lengths = {}
      BY <2>3, <3>2
    <3> HIDE DEF lengths
    <3> QED
      BY <1>1, <1>5, <2>5, <3>3
  <2>6. CASE BodyLen(k) # 0
    <3>1. ~v.neg /\ Base(v) = 10 /\ v.num[10] = BodyLen(k) /\ v.whole[10]
      BY <1>4, <2>6 DEF Decimal, Base
    <3>2. strtoll(v) = BodyLen(k)
      BY <2>4, <3>1 DEF strtoll
    <3>3. lengths = {strtoll(v)}
      BY <2>3, <3>1, Zenon
    <3> HIDE DEF lengths
    <3>4. lengths = {BodyLen(k)} /\ ~(BodyLen(k) < 0)
      BY <2>4, <3>2, <3>3
    <3> QED
      BY <1>1, <1>5, <3>4
  <2> QED
    BY <2>5, <2>6
<1> QED
  BY <1>2, <1>3, <1>4

\* At most one request starts where the buffer does.
LEMMA OneAtBegin ==
  ASSUME NEW k \in 1..Len(Reqs), base = Start[k]
  PROVE  AtBegin = {k}
<1>1. ASSUME NEW j \in 1..Len(Reqs), Start[j] = base
      PROVE  j = k
  <2>1. /\ k \in 1..(Len(Reqs) + 1) /\ j \in 1..(Len(Reqs) + 1)
        /\ j < k \/ k < j \/ j = k
    BY StreamFacts
  <2>2. Start[j] \in Nat /\ Start[k] \in Nat
    BY <2>1, StreamFacts
  <2>3. (j < k => Start[j] < Start[k]) /\ (k < j => Start[k] < Start[j])
    BY <2>1, StreamFacts
  <2> QED
    BY <1>1, <2>1, <2>2, <2>3
<1>2. AtBegin = {k}
  BY <1>1 DEF AtBegin
<1> QED
  BY <1>2

\* None starts among the bytes behind a request.
LEMMA NoneInJunk ==
  ASSUME TypeOK, Junk
  PROVE  AtBegin = {}
<1> SUFFICES ASSUME NEW j \in 1..Len(Reqs), Start[j] = base
             PROVE  FALSE
  BY DEF AtBegin
<1>1. PICK i \in 1..sent :
        Start[i] + HeadLen(i) + BodyLenOf(i) <= base /\ base < Start[i + 1]
  BY DEF Junk
<1>2. i \in 1..Len(Reqs) /\ Len(Reqs) \in Nat
  BY StreamFacts DEF TypeOK
<1>3. /\ i \in 1..(Len(Reqs) + 1) /\ i + 1 \in 1..(Len(Reqs) + 1)
      /\ j \in 1..(Len(Reqs) + 1)
      /\ j < i \/ j = i \/ j = i + 1 \/ i + 1 < j
  BY <1>2
<1>4. /\ Start[i] \in Nat /\ Start[j] \in Nat /\ Start[i + 1] \in Nat
      /\ HeadLen(i) \in Nat /\ HeadLen(i) > 0 /\ BodyLenOf(i) \in Nat
      /\ j < i => Start[j] < Start[i]
      /\ i + 1 < j => Start[i + 1] < Start[j]
  <2>1. HeadLen(i) \in Nat /\ HeadLen(i) > 0 /\ BodyLenOf(i) \in Nat
    BY <1>2, StreamFacts, AnnouncedFits
  <2>2. Start[i] \in Nat /\ Start[j] \in Nat /\ Start[i + 1] \in Nat
    BY <1>3, StreamFacts
  <2>3. /\ j < i => Start[j] < Start[i]
        /\ i + 1 < j => Start[i + 1] < Start[j]
    BY <1>3, StreamFacts
  <2> QED
    BY <2>1, <2>2, <2>3
<1> QED
  BY <1>1, <1>3, <1>4

-----------------------------------------------------------------------------
(* The types.                                                              *)

\* What a read does to the buffer.
ReadsInto(n) ==
  /\ n \in 1..StreamEnd
  /\ prev' = cur /\ cur' = cur + n
  /\ base + cur + n <= Start[sent + 1]
  /\ cap' = IF Grows THEN cur + GrowBy ELSE cap
  /\ UNCHANGED <<base, sent, answered>>

\* The types after a read.
LEMMA ReadTypes ==
  ASSUME SentInv, NEW n \in 1..StreamEnd, on_read(n)
  PROVE  SentInv' /\ ReadsInto(n) /\ cap' >= cap
<1>0. /\ TypeOK /\ base \in Nat /\ cur \in Nat /\ cap \in Nat /\ n \in Nat
      /\ body \in Nat /\ body_len \in Nat
  BY StreamFacts DEF SentInv, TypeOK
<1>1. ReadsInto(n)
  BY DEF on_read, ReadsInto, MayEndAt, membuf_grow
<1>2. /\ sent + 1 \in 1..(Len(Reqs) + 1) /\ sent \in Nat
      /\ Start[sent + 1] \in Nat /\ Start[sent + 1] <= StreamEnd
  BY <1>0, StreamFacts DEF TypeOK
<1>3. cap' \in Nat /\ cap' >= cap
  BY <1>0, <1>1, SizeFacts DEF ReadsInto, Grows
<1>4. /\ http_state' \in {"HTTP_PARSING_HEADER", "HTTP_RECEIVING_BODY"}
      /\ phase' \in {"read", "respond", "handoff", "eof", "aborted", "reused",
                     "overrun"}
  <2>1. phase \in {"read", "respond"} /\ http_state \in {"HTTP_PARSING_HEADER", "HTTP_RECEIVING_BODY"}
    BY <1>0 DEF on_read, TypeOK
  <2>2. ASSUME NEW end, NEW b, NEW len, NEW dangling,
               ReceivingBody(end, b, len, dangling)
        PROVE  /\ http_state' \in {"HTTP_PARSING_HEADER", "HTTP_RECEIVING_BODY"}
               /\ phase' \in {"read", "respond", "handoff", "eof", "aborted",
                              "reused", "overrun"}
    BY <2>1, <2>2 DEF ReceivingBody, CallHandler, Close, Wait
  <2>3. CASE http_state = "HTTP_RECEIVING_BODY"
    BY <2>2, <2>3 DEF on_read
  <2>4. CASE http_state = "HTTP_PARSING_HEADER"
    <3>1. ParsingHeader(cur + n)
      BY <2>4 DEF on_read
    <3> QED
      BY <2>1, <2>2, <3>1 DEF ParsingHeader, CallHandler, Close, Wait
  <2> QED
    BY <2>1, <2>3, <2>4
<1>5. body' \in Nat /\ body_len' \in Nat
  <2>1. CASE UNCHANGED <<body, body_len>>
    BY <1>0, <2>1
  <2>2. CASE \E nparsed \in http_parse_request(cur + n) :
               /\ nparsed > 0
               /\ body' = BodyPointer(nparsed)
               /\ \E k \in AtBegin : body_len' = BodyLenOf(k)
    <3>1. PICK nparsed \in http_parse_request(cur + n) :
            /\ nparsed > 0
            /\ body' = BodyPointer(nparsed)
            /\ \E k \in AtBegin : body_len' = BodyLenOf(k)
      BY <2>2
    <3>2. PICK k \in AtBegin : body_len' = BodyLenOf(k)
      BY <3>1
    <3>3. k \in 1..Len(Reqs) /\ base = Start[k]
      BY DEF AtBegin
    <3>4. AtBegin = {k}
      BY <3>3, OneAtBegin
    <3>5. nparsed = HeadLen(k)
      BY <3>1, <3>4 DEF http_parse_request, HeadLen
    <3>6. HeadLen(k) \in Nat /\ BodyLenOf(k) \in Nat
      BY <3>3, StreamFacts, AnnouncedFits
    <3> QED
      BY <1>0, <3>1, <3>2, <3>5, <3>6 DEF BodyPointer
  <2> QED
    BY <2>1, <2>2 DEF on_read, ParsingHeader, BodyLenOf
<1>6. moved' \in BOOLEAN /\ stale' \in BOOLEAN
  BY <1>0 DEF on_read, TypeOK
<1>7. BufferWasSent'
  BY <1>0, <1>1, <1>2 DEF BufferWasSent, ReadsInto
<1>8. cur' \in 0..StreamEnd /\ prev' \in 0..StreamEnd
  BY <1>0, <1>1, <1>2, StreamFacts DEF ReadsInto, TypeOK
<1>9. TypeOK'
  BY <1>0, <1>1, <1>3, <1>4, <1>5, <1>6, <1>8 DEF TypeOK, ReadsInto
<1> QED
  BY <1>1, <1>3, <1>7, <1>9 DEF SentInv

\* The types after the other steps.
LEMMA OtherTypes ==
  ASSUME SentInv,
         \/ ClientSend \/ on_read_eof \/ http_request_import
         \/ after_send_http_res \/ UNCHANGED vars
  PROVE  SentInv'
<1>0. /\ TypeOK /\ BufferWasSent
      /\ base \in Nat /\ cur \in Nat /\ cap \in Nat /\ sent \in Nat /\ answered \in Nat
      /\ body \in Nat /\ body_len \in Nat
      /\ StreamEnd \in Nat /\ Len(Reqs) \in Nat
  BY StreamFacts DEF SentInv, TypeOK
<1>1. CASE ClientSend
  <2>1. sent + 1 \in 0..Len(Reqs)
    BY <1>0, <1>1 DEF ClientSend, TypeOK
  <2>2. Start[sent + 1] < Start[sent + 2] /\ Start[sent + 1] \in Nat /\ Start[sent + 2] \in Nat
    <3>1. /\ sent + 1 \in 1..(Len(Reqs) + 1) /\ sent + 2 \in 1..(Len(Reqs) + 1)
          /\ sent + 1 < sent + 2
      BY <1>0, <2>1
    <3> QED
      BY <3>1, StreamFacts
  <2>3. sent' + 1 = sent + 2 /\ base' = base /\ cur' = cur
    BY <1>0, <1>1 DEF ClientSend
  <2>4. BufferWasSent'
    BY <1>0, <2>2, <2>3 DEF BufferWasSent
  <2>5. TypeOK'
    BY <1>0, <1>1, <2>1 DEF TypeOK, ClientSend
  <2> QED
    BY <2>4, <2>5 DEF SentInv
<1>2. CASE on_read_eof
  BY <1>0, <1>2 DEF on_read_eof, SentInv, TypeOK, BufferWasSent
<1>3. CASE http_request_import
  <2>1. ImportCap \in Nat
    BY <1>0, SizeFacts DEF ImportCap, membuf_grow
  <2>2. /\ cap' = ImportCap /\ phase' \in {"overrun", "respond"} /\ prev' = 0
        /\ body' \in Nat
        /\ UNCHANGED <<base, cur, http_state, body_len, moved, sent, answered, stale>>
    BY <1>0, <1>3 DEF http_request_import
  <2>3. 0 \in 0..StreamEnd
    BY <1>0
  <2> QED
    BY <1>0, <2>1, <2>2, <2>3 DEF SentInv, TypeOK, BufferWasSent
<1>4. CASE after_send_http_res
  <2>1. /\ Start[sent + 1] \in Nat /\ Start[sent + 1] <= StreamEnd
    BY <1>0, StreamFacts DEF TypeOK
  <2>2. /\ base' = base + cur /\ base' \in 0..StreamEnd /\ cur' = 0 /\ prev' = 0
        /\ 0 \in 0..StreamEnd
    BY <1>0, <1>4, <2>1 DEF after_send_http_res, BufferWasSent
  <2>3. BufferWasSent'
    BY <1>0, <1>4, <2>1, <2>2 DEF BufferWasSent, after_send_http_res
  <2>4. TypeOK'
    <3>1. /\ answered' \in Nat /\ body' = 0 /\ body_len' = 0 /\ moved' = FALSE
          /\ phase' = "read" /\ UNCHANGED <<cap, http_state, sent, stale>>
      BY <1>0, <1>4 DEF after_send_http_res
    <3> QED
      BY <1>0, <2>2, <3>1 DEF TypeOK
  <2> QED
    BY <2>3, <2>4 DEF SentInv
<1>5. CASE UNCHANGED vars
  BY <1>0, <1>5 DEF vars, SentInv, TypeOK, BufferWasSent
<1> QED
  BY <1>1, <1>2, <1>3, <1>4, <1>5

\* At the start.
LEMMA StartTypes ==
  ASSUME Init
  PROVE  SentInv
<1>1. /\ StreamEnd \in Nat /\ Len(Reqs) \in Nat
      /\ 0 \in 0..StreamEnd /\ 0 \in 0..Len(Reqs) /\ InitCap \in Nat
      /\ Start[1] = 0 /\ 0 + 1 = 1
  BY StreamFacts, SizeFacts, HttpReadAssumption
<1>2. TypeOK
  BY <1>1 DEF Init, TypeOK
<1>3. BufferWasSent
  BY <1>1 DEF Init, BufferWasSent
<1> QED
  BY <1>2, <1>3 DEF SentInv

\* The variables keep their types, and the buffer holds nothing that the
\* client has not sent: with headers cut or whole, and also when the buffer
\* has moved.
THEOREM HttpTypes == Spec => []TypeOK
<1>1. Init => SentInv
  BY StartTypes
<1>2. SentInv /\ [Next]_vars => SentInv'
  BY ReadTypes, OtherTypes DEF Next
<1>3. SentInv => TypeOK
  BY DEF SentInv
<1> QED
  BY <1>1, <1>2, <1>3, PTL DEF Spec

-----------------------------------------------------------------------------
(* Reading.                                                                *)

\* The lengths of a request.
LEMMA Lengths ==
  ASSUME NEW k \in 1..Len(Reqs)
  PROVE  /\ HeadLen(k) \in Nat /\ HeadLen(k) > 0 /\ BodyLenOf(k) \in Nat
         /\ BodyLen(k) \in Nat /\ ExtraLen(k) \in Nat /\ TotalLen(k) \in Nat
         /\ TotalLen(k) = HeadLen(k) + BodyLen(k) + ExtraLen(k)
         /\ Start[k + 1] = Start[k] + TotalLen(k)
         /\ Taken(k) = IF \/ BodyLenOf(k) = 0
                         \/ HeadLen(k) + BodyLenOf(k) > TotalLen(k)
                      THEN TotalLen(k) ELSE HeadLen(k) + BodyLenOf(k)
<1>1. /\ HeadLen(k) \in Nat /\ HeadLen(k) > 0 /\ BodyLenOf(k) \in Nat
      /\ BodyLen(k) \in Nat /\ ExtraLen(k) \in Nat
      /\ Length(k) = HeadLen(k) + BodyLen(k)
      /\ Start[k + 1] = Start[k] + Length(k) + ExtraLen(k)
  BY StreamFacts, AnnouncedFits
<1>2. TotalLen(k) = HeadLen(k) + BodyLen(k) + ExtraLen(k) /\ TotalLen(k) \in Nat
  BY <1>1 DEF TotalLen
<1>3. Start[k] \in Nat
  BY StreamFacts
<1>4. Taken(k) = IF BodyLenOf(k) = 0 \/ BodyLenOf(k) > BodyLen(k) + ExtraLen(k)
                 THEN TotalLen(k) ELSE HeadLen(k) + BodyLenOf(k)
  BY DEF Taken, BodyLenOf, TotalLen, HeadLen, BodyLen, ExtraLen
<1> QED
  BY <1>1, <1>2, <1>3, <1>4, SMTT(30)

\* The facts about the buffer and request k that the cases below use.
LEMMA RequestFacts ==
  ASSUME SentInv, NEW k \in 1..Len(Reqs), k = sent, base = Start[k]
  PROVE  /\ base \in Nat /\ cur \in Nat /\ cap \in Nat
         /\ Start[sent + 1] = base + TotalLen(k)
         /\ base + TotalLen(k) <= StreamEnd /\ StreamEnd \in Nat
<1>1. /\ base \in Nat /\ cur \in Nat /\ cap \in Nat /\ StreamEnd \in Nat
      /\ k \in 1..Len(Reqs) /\ Len(Reqs) \in Nat
  BY StreamFacts DEF SentInv, TypeOK
<1>2. Start[k + 1] = base + TotalLen(k)
  BY Lengths
<1>3. Start[k + 1] <= StreamEnd
  BY <1>1, StreamFacts
<1> QED
  BY <1>1, <1>2, <1>3

\* A read ends where the client has stopped sending.
LEMMA ReadEnds ==
  ASSUME SentInv, NEW k \in 1..Len(Reqs), k = sent, base = Start[k],
         NEW n, ReadsInto(n)
  PROVE  /\ n \in Nat /\ n > 0 /\ cur \in Nat
         /\ cur + n <= TotalLen(k)
<1>1. /\ base \in Nat /\ cur \in Nat /\ TotalLen(k) \in Nat
      /\ Start[sent + 1] = base + TotalLen(k)
  BY RequestFacts, Lengths
<1>2. n \in Nat /\ n > 0 /\ base + cur + n <= Start[sent + 1]
  BY StreamFacts DEF ReadsInto
<1> QED
  BY <1>1, <1>2, SMTT(30)

\* A request at the beginning of the buffer is to blame for what is sent beyond
\* the length found for it.
LEMMA Blames ==
  ASSUME NEW k \in 1..Len(Reqs), base = Start[k],
         BodyLenOf(k) < BodyLen(k) + ExtraLen(k)
  PROVE  Blamed(k)
<1>1. Start[k] \in Nat /\ Start[k] < Start[k + 1]
  BY StreamFacts
<1> QED
  BY <1>1 DEF Blamed

\* The first read of a request brings all of its header, and the rest is
\* looked at as the body.
LEMMA FirstRead ==
  ASSUME ReadInv, ~stale, ~SplitHeader, ShortTails, NEW n \in 1..StreamEnd,
         on_read(n), phase = "read", http_state = "HTTP_PARSING_HEADER", Empty
  PROVE  ReadInv'
<1> DEFINE k == answered + 1
<1>0. /\ SentInv' /\ ReadsInto(n) /\ cap' >= cap /\ SentInv /\ Orderly
      /\ n \in Nat /\ n > 0 /\ base \in Nat /\ cur = 0 /\ base = Start[k]
      /\ answered \in Nat /\ sent \in 0..Len(Reqs) /\ Len(Reqs) \in Nat
      /\ body_len = 0 /\ sent <= k /\ answered <= sent /\ cap \in Nat
  BY ReadTypes, StreamFacts
  DEF ReadInv, Orderly, SentInv, TypeOK, Empty, ParsingFits
<1>1. k = sent /\ k \in 1..Len(Reqs)
  <2>1. base + n <= Start[sent + 1]
    BY <1>0 DEF ReadsInto
  <2>2. sent + 1 \in 1..(Len(Reqs) + 1) /\ k \in 1..(Len(Reqs) + 1)
    BY <1>0
  <2>3. k # sent + 1
    BY <1>0, <2>1, <2>2, StreamFacts
  <2> QED
    BY <1>0, <2>3
<1>2. AtBegin = {k}
  BY <1>0, <1>1, OneAtBegin
<1> HIDE DEF k
<1>3. /\ HeadLen(k) \in Nat /\ HeadLen(k) > 0 /\ BodyLenOf(k) \in Nat
      /\ TotalLen(k) \in Nat
  BY <1>1, Lengths
<1>a. HeadLen(k) \in Nat /\ BodyLenOf(k) \in Nat /\ n \in Nat /\ base \in Nat
  BY <1>0, <1>3
<1>4. n >= HeadLen(k) /\ n <= TotalLen(k)
  <2>1. n <= TotalLen(k)
    <3>1. cur + n <= TotalLen(k) /\ cur + n = n
      BY <1>0, <1>1, ReadEnds
    <3> QED
      BY <3>1
  <2>3. base = Start[k] /\ n > 0
    BY <1>0
  <2>2. ~(Start[k] < base + n /\ base + n < Start[k] + HeadLen(k))
    BY <1>0, <1>1, SMTT(30) DEF on_read, MayEndAt, HeadLen
  <2> QED
    BY <1>a, <2>1, <2>2, <2>3
<1>5. /\ http_parse_request(cur + n) = {HeadLen(k)}
      /\ BodyPointer(HeadLen(k)) = HeadLen(k)
      /\ BodyReceived(cur + n, HeadLen(k), FALSE) = {n - HeadLen(k)}
  BY <1>0, <1>2, <1>3, <1>4
  DEF http_parse_request, BodyPointer, BodyReceived, HeadLen
<1>6. /\ ParsingHeader(cur + n) /\ ~moved' /\ ~stale'
      /\ cur' = n /\ UNCHANGED <<base, sent, answered>>
  <2>1. cur' = cur + n /\ UNCHANGED <<base, sent, answered>>
    BY <1>0 DEF ReadsInto
  <2>2. cur + n = n
    BY <1>0
  <2> QED
    BY <2>1, <2>2 DEF on_read
<1>7. InitCap <= cap'
  BY <1>0, SizeFacts DEF Orderly, EndFits, SentInv, TypeOK
<1>8. ASSUME \/ BodyLenOf(k) = 0 /\ phase' \in {"respond", "handoff"}
                  /\ UNCHANGED <<http_state, body, body_len>>
             \/ /\ n = HeadLen(k) + BodyLenOf(k) /\ phase' \in {"respond", "handoff"}
                /\ http_state' = "HTTP_PARSING_HEADER" /\ BodyLenOf(k) # 0
                /\ body' = HeadLen(k) /\ body_len' = BodyLenOf(k)
      PROVE  Orderly'
  <2>1. IF BodyLenOf(k) = 0 THEN n >= HeadLen(k)
        ELSE n = HeadLen(k) + BodyLenOf(k)
    BY <1>4, <1>8
  <2>2. /\ http_state' = "HTTP_PARSING_HEADER" /\ phase' \in {"respond", "handoff"}
        /\ body_len' = BodyLenOf(k) /\ (body_len' > 0 => body' = HeadLen(k))
    BY <1>0, <1>8
  <2>3. HandledFits'
    BY <1>0, <1>1, <1>6, <2>1, <2>2 DEF HandledFits, AtRequest, BodyOf, k
  <2> QED
    BY <1>0, <1>6, <1>7, <2>2, <2>3
    DEF Orderly, ParsingFits, ReceivingFits, EndFits
<1>9. ASSUME n > HeadLen(k) + BodyLenOf(k), phase' = "aborted"
      PROVE  Orderly'
  <2>1. \E i \in 1..sent : Blamed(i)
    <3>1. /\ BodyLen(k) \in Nat /\ ExtraLen(k) \in Nat
          /\ TotalLen(k) = HeadLen(k) + BodyLen(k) + ExtraLen(k)
      BY <1>1, Lengths
    <3>2. BodyLenOf(k) < BodyLen(k) + ExtraLen(k)
      BY <1>a, <1>4, <1>9, <3>1
    <3>3. k \in 1..sent /\ k \in 1..Len(Reqs) /\ base = Start[k]
      BY <1>0, <1>1
    <3> QED
      BY <3>2, <3>3, Blames
  <2> QED
    BY <1>0, <1>6, <1>7, <1>9, <2>1
    DEF Orderly, ParsingFits, ReceivingFits, HandledFits, EndFits, Blamed
<1>10. ASSUME n < HeadLen(k) + BodyLenOf(k), phase' = "read",
              http_state' = "HTTP_RECEIVING_BODY",
              body' = HeadLen(k), body_len' = BodyLenOf(k)
       PROVE  Orderly'
  <2>1. ReceivingFits'
    BY <1>0, <1>1, <1>4, <1>6, <1>10 DEF ReceivingFits, AtRequest, BodyOf, k
  <2> QED
    BY <1>0, <1>6, <1>7, <1>10, <2>1
    DEF Orderly, ParsingFits, HandledFits, EndFits
<1>11. Orderly'
  <2>1. PICK nparsed \in {HeadLen(k)} :
          \/ nparsed < 0
          \/ /\ BodyLenOf(k) = 0 /\ CallHandler
             /\ UNCHANGED <<http_state, body, body_len>>
          \/ /\ BodyLenOf(k) # 0
             /\ body' = BodyPointer(nparsed) /\ body_len' = BodyLenOf(k)
             /\ ReceivingBody(cur + n, BodyPointer(nparsed), BodyLenOf(k), FALSE)
    BY <1>2, <1>5, <1>6 DEF ParsingHeader, BodyLenOf
  <2>2. nparsed = HeadLen(k) /\ ~(nparsed < 0)
    BY <1>3, <2>1
  <2>3. CASE /\ BodyLenOf(k) = 0 /\ CallHandler
             /\ UNCHANGED <<http_state, body, body_len>>
    BY <1>0, <1>8, <2>3 DEF CallHandler
  <2>4. CASE /\ BodyLenOf(k) # 0
             /\ body' = BodyPointer(nparsed) /\ body_len' = BodyLenOf(k)
             /\ ReceivingBody(cur + n, BodyPointer(nparsed), BodyLenOf(k), FALSE)
    <3>1. body' = HeadLen(k) /\ body_len' = BodyLenOf(k)
      BY <1>5, <2>2, <2>4
    <3>2. ReceivingBody(cur + n, HeadLen(k), BodyLenOf(k), FALSE)
      BY <1>5, <2>2, <2>4
    <3>3. \/ /\ n - HeadLen(k) = BodyLenOf(k)
             /\ http_state' = "HTTP_PARSING_HEADER" /\ phase' \in {"respond", "handoff"}
          \/ n - HeadLen(k) > BodyLenOf(k) /\ phase' = "aborted"
          \/ /\ n - HeadLen(k) < BodyLenOf(k)
             /\ http_state' = "HTTP_RECEIVING_BODY" /\ phase' = "read"
      BY <1>0, <1>5, <3>2 DEF ReceivingBody, CallHandler, Close, Wait
    <3>4. /\ n - HeadLen(k) = BodyLenOf(k) => n = HeadLen(k) + BodyLenOf(k)
          /\ n - HeadLen(k) > BodyLenOf(k) => n > HeadLen(k) + BodyLenOf(k)
          /\ n - HeadLen(k) < BodyLenOf(k) => n < HeadLen(k) + BodyLenOf(k)
      BY <1>a, <1>3
    <3> QED
      BY <1>8, <1>9, <1>10, <2>4, <3>1, <3>3, <3>4
  <2> QED
    BY <2>1, <2>2, <2>3, <2>4
<1> QED
  BY <1>0, <1>6, <1>11 DEF ReadInv

\* Bytes that belong to no request do not become one.
LEMMA JunkRead ==
  ASSUME ReadInv, ~stale, NEW n \in 1..StreamEnd,
         on_read(n), phase = "read", http_state = "HTTP_PARSING_HEADER", Junk
  PROVE  ReadInv'
<1>0. SentInv' /\ ReadsInto(n) /\ cap' >= cap /\ SentInv /\ Orderly /\ TypeOK
  BY ReadTypes DEF ReadInv, SentInv
<1>1. AtBegin = {}
  BY <1>0, NoneInJunk
<1>2. /\ ParsingHeader(cur + n) /\ ~moved' /\ ~stale'
      /\ UNCHANGED <<base, sent, answered>>
  BY <1>0 DEF on_read, ReadsInto
<1>3. /\ phase' = "aborted" \/ phase' = "read"
      /\ UNCHANGED <<http_state, body, body_len>>
  <2>1. http_parse_request(cur + n) = {-1, -2}
    BY <1>1 DEF http_parse_request
  <2>2. PICK nparsed \in {-1, -2} :
          \/ /\ IF nparsed = -1 THEN Close ELSE Wait
             /\ UNCHANGED <<http_state, body, body_len>>
          \/ nparsed > 0
    BY <1>2, <2>1 DEF ParsingHeader
  <2> QED
    BY <2>2 DEF Close, Wait
<1>4. InitCap <= cap'
  BY <1>0, SizeFacts DEF Orderly, EndFits, SentInv, TypeOK
<1>5. \E i \in 1..sent : Blamed(i)
  <2>1. PICK i \in 1..sent :
          Start[i] + HeadLen(i) + BodyLenOf(i) <= base /\ base < Start[i + 1]
    BY DEF Junk
  <2>2. i \in 1..Len(Reqs) /\ base \in Nat
    BY <1>0, StreamFacts DEF TypeOK
  <2>3. /\ HeadLen(i) \in Nat /\ BodyLenOf(i) \in Nat
        /\ BodyLen(i) \in Nat /\ ExtraLen(i) \in Nat
        /\ TotalLen(i) = HeadLen(i) + BodyLen(i) + ExtraLen(i)
        /\ Start[i + 1] = Start[i] + TotalLen(i)
    BY <2>2, Lengths
  <2>4. Start[i] \in Nat
    BY <2>2, StreamFacts
  <2> QED
    BY <2>1, <2>2, <2>3, <2>4 DEF Blamed
<1>6. Junk'
  BY <1>2 DEF Junk
<1>7. Orderly'
  BY <1>0, <1>2, <1>3, <1>4, <1>5, <1>6
  DEF Orderly, ParsingFits, ReceivingFits, HandledFits, EndFits, Blamed
<1> QED
  BY <1>0, <1>2, <1>7 DEF ReadInv

\* More of a body.
LEMMA BodyRead ==
  ASSUME ReadInv, ~stale, NEW n \in 1..StreamEnd,
         on_read(n), phase = "read", http_state = "HTTP_RECEIVING_BODY"
  PROVE  ReadInv'
<1> DEFINE k == sent
           end == HeadLen(k) + BodyLenOf(k)
<1>0. /\ SentInv' /\ ReadsInto(n) /\ cap' >= cap /\ SentInv /\ Orderly /\ TypeOK
      /\ k \in 1..Len(Reqs) /\ AtRequest(k) /\ BodyOf(k)
      /\ HeadLen(k) <= cur /\ cur < end /\ n \in Nat
  BY ReadTypes DEF ReadInv, SentInv, Orderly, ReceivingFits
<1>1. /\ base \in Nat /\ cur \in Nat /\ cap \in Nat /\ base = Start[k]
      /\ cur + n <= TotalLen(k) /\ n > 0
  <2>1. base = Start[k]
    BY <1>0 DEF AtRequest
  <2> QED
    BY <1>0, <2>1, RequestFacts, ReadEnds
<1>a. /\ HeadLen(k) \in Nat /\ HeadLen(k) > 0 /\ BodyLenOf(k) \in Nat
      /\ TotalLen(k) \in Nat
      /\ n \in Nat /\ cur \in Nat /\ HeadLen(k) <= cur /\ cur < end
  BY <1>0, <1>1, Lengths
<1>2. /\ moved' \in {FALSE, Grows} /\ stale' = moved'
      /\ ReceivingBody(cur + n, body, body_len, moved')
      /\ UNCHANGED <<body, body_len, base, sent, answered>>
      /\ cur' = cur + n
  <2>1. moved = FALSE
    BY <1>0 DEF Orderly, TypeOK
  <2> QED
    BY <1>0, <2>1 DEF on_read, ReadsInto, TypeOK
<1>c. InitCap <= cap /\ InitCap \in Nat /\ MinAvail \in Nat
  BY <1>0, SizeFacts DEF Orderly, EndFits
<1>3. CASE moved' = TRUE
  <2>1. Grows
    BY <1>2, <1>3
  <2>2. Large(k)
    <3>1. Taken(k) = IF BodyLenOf(k) = 0 \/ end > TotalLen(k)
                     THEN TotalLen(k) ELSE end
      BY <1>0, Lengths
    <3>2. cur + 1 <= Taken(k) /\ Taken(k) \in Nat
      BY <1>a, <1>1, <3>1
    <3> QED
      BY <1>1, <1>c, <2>1, <3>2 DEF Grows, Large
  <2>3. stale' /\ \E i \in 1..sent' : Large(i)'
    <3>1. Large(k)' /\ stale'
      BY <1>2, <1>3, <2>2 DEF Large
    <3>2. k \in 1..sent'
      BY <1>0, <1>2, StreamFacts
    <3> QED
      BY <1>2, <3>1, <3>2
  <2> QED
    BY <1>0, <2>3 DEF ReadInv
<1>4. CASE moved' = FALSE
  <2>0. InitCap <= cap'
    BY <1>0, <1>1, <1>c DEF SentInv, TypeOK
  <2>1. /\ body = HeadLen(k) /\ body_len = BodyLenOf(k) /\ BodyLenOf(k) > 0
    BY <1>0, <1>a DEF BodyOf
  <2>2. BodyReceived(cur + n, body, FALSE) = {cur + n - HeadLen(k)}
    BY <1>a, <2>1 DEF BodyReceived
  <2>3. \/ /\ cur + n = end
           /\ http_state' = "HTTP_PARSING_HEADER" /\ phase' \in {"respond", "handoff"}
        \/ cur + n > end /\ phase' = "aborted"
        \/ /\ cur + n < end
           /\ http_state' = "HTTP_RECEIVING_BODY" /\ phase' = "read"
    <3>1. ReceivingBody(cur + n, body, body_len, FALSE)
      BY <1>2, <1>4
    <3>2. \/ /\ cur + n - HeadLen(k) = BodyLenOf(k)
             /\ http_state' = "HTTP_PARSING_HEADER" /\ phase' \in {"respond", "handoff"}
          \/ cur + n - HeadLen(k) > BodyLenOf(k) /\ phase' = "aborted"
          \/ /\ cur + n - HeadLen(k) < BodyLenOf(k)
             /\ http_state' = "HTTP_RECEIVING_BODY" /\ phase' = "read"
      BY <2>1, <2>2, <3>1 DEF ReceivingBody, CallHandler, Close, Wait
    <3> QED
      BY <1>a, <3>2
  <2>4. AtRequest(k)' /\ BodyOf(k)'
    BY <1>0, <1>2 DEF AtRequest, BodyOf
  <2>5. CASE /\ cur + n = end
             /\ http_state' = "HTTP_PARSING_HEADER" /\ phase' \in {"respond", "handoff"}
    <3>1. HandledFits'
      BY <1>0, <1>2, <2>1, <2>4, <2>5 DEF HandledFits
    <3> QED
      BY <1>0, <1>2, <1>4, <2>0, <2>5, <3>1
      DEF ReadInv, Orderly, ParsingFits, ReceivingFits, EndFits
  <2>6. CASE cur + n > end /\ phase' = "aborted"
    <3>1. /\ BodyLen(k) \in Nat /\ ExtraLen(k) \in Nat
          /\ TotalLen(k) = HeadLen(k) + BodyLen(k) + ExtraLen(k)
      BY <1>0, Lengths
    <3>2. BodyLenOf(k) < BodyLen(k) + ExtraLen(k)
      BY <1>a, <1>1, <2>6, <3>1
    <3>3. k \in 1..sent
      BY <1>0, StreamFacts
    <3>4. Blamed(k)
      BY <1>0, <1>1, <3>2, Blames
    <3>5. \E i \in 1..sent' : Blamed(i)'
      BY <1>2, <3>3, <3>4 DEF Blamed
    <3> QED
      BY <1>0, <1>2, <1>4, <2>0, <2>6, <3>5
      DEF ReadInv, Orderly, ParsingFits, ReceivingFits, HandledFits, EndFits
  <2>7. CASE /\ cur + n < end
             /\ http_state' = "HTTP_RECEIVING_BODY" /\ phase' = "read"
    <3>1. ReceivingFits'
      BY <1>0, <1>a, <1>2, <2>4, <2>7 DEF ReceivingFits
    <3> QED
      BY <1>0, <1>2, <1>4, <2>0, <2>7, <3>1
      DEF ReadInv, Orderly, ParsingFits, HandledFits, EndFits
  <2> QED
    BY <2>3, <2>5, <2>6, <2>7
<1>5. moved' \in BOOLEAN
  BY <1>0 DEF SentInv, TypeOK
<1> QED
  BY <1>3, <1>4, <1>5

\* Bytes that arrive while the response is written: the header is parsed again.
\* Without an announced length the handler is called again; with one, what
\* follows the header ends before it begins, and is an oversized body.
LEMMA LateRead ==
  ASSUME ReadInv, ~stale, ShortTails, NEW n \in 1..StreamEnd,
         on_read(n), phase = "respond"
  PROVE  ReadInv'
<1> DEFINE k == sent
<1>0. /\ SentInv' /\ ReadsInto(n) /\ cap' >= cap /\ SentInv /\ Orderly /\ TypeOK
      /\ k \in 1..Len(Reqs) /\ AtRequest(k) /\ BodyOf(k) /\ base = Start[k]
      /\ (IF BodyLenOf(k) = 0 THEN cur >= HeadLen(k)
          ELSE cur = HeadLen(k) + BodyLenOf(k))
      /\ n \in Nat /\ n > 0 /\ http_state = "HTTP_PARSING_HEADER"
  BY ReadTypes DEF ReadInv, SentInv, Orderly, HandledFits, AtRequest
<1>1. /\ base \in Nat /\ cur \in Nat /\ cap \in Nat
      /\ cur + n <= TotalLen(k)
      /\ base + TotalLen(k) <= StreamEnd /\ StreamEnd \in Nat
  BY <1>0, RequestFacts, ReadEnds
<1>2. AtBegin = {k}
  BY <1>0, OneAtBegin
<1>a. /\ HeadLen(k) \in Nat /\ HeadLen(k) > 0 /\ BodyLenOf(k) \in Nat
      /\ TotalLen(k) \in Nat /\ n \in Nat /\ cur \in Nat /\ cur >= HeadLen(k)
  <2>1. /\ HeadLen(k) \in Nat /\ HeadLen(k) > 0 /\ BodyLenOf(k) \in Nat
        /\ TotalLen(k) \in Nat
    BY <1>0, Lengths
  <2> QED
    BY <1>0, <1>1, <2>1
<1>4. /\ ParsingHeader(cur + n) /\ ~moved' /\ ~stale'
      /\ UNCHANGED <<base, sent, answered>>
  BY <1>0 DEF on_read, ReadsInto
<1>5. http_parse_request(cur + n) = {HeadLen(k)}
  <2>1. cur + n >= HeadLen(k)
    BY <1>a
  <2> QED
    BY <1>2, <2>1 DEF http_parse_request, HeadLen
<1>9. InitCap <= cap'
  BY <1>0, <1>1, SizeFacts DEF Orderly, EndFits, SentInv, TypeOK
<1>6. CASE BodyLenOf(k) = 0
  <2>1. CallHandler
    BY <1>a, <1>2, <1>4, <1>5, <1>6 DEF ParsingHeader, BodyLenOf
  <2>2. phase' = "reused"
    BY <2>1 DEF CallHandler
  <2>3. Orderly'
    BY <1>0, <1>4, <1>9, <2>2
    DEF Orderly, ParsingFits, ReceivingFits, HandledFits, EndFits
  <2> QED
    BY <1>0, <1>4, <2>3 DEF ReadInv
<1>7. CASE BodyLenOf(k) # 0
  <2> DEFINE g == Wrap + n - HeadLen(k)
  <2>1. n < HeadLen(k)
    <3>1. TotalLen(k) < BodyLenOf(k) + 2 * HeadLen(k)
      BY <1>0, <1>a, <1>7 DEF ShortTails
    <3>2. cur = HeadLen(k) + BodyLenOf(k)
      BY <1>0, <1>7
    <3> QED
      BY <1>a, <1>1, <3>1, <3>2
  <2>2. BodyPointer(HeadLen(k)) = cur + HeadLen(k)
    BY DEF BodyPointer
  <2>3. BodyReceived(cur + n, cur + HeadLen(k), FALSE) = {g}
    <3>1. /\ Wrap \in Nat /\ ~(cur + n >= cur + HeadLen(k))
          /\ Wrap + (cur + n) - (cur + HeadLen(k)) = g
      BY <1>a, <2>1, SizeFacts
    <3> QED
      BY <3>1 DEF BodyReceived
  <2>4. g \in Int /\ g > BodyLenOf(k)
    <3>1. HeadLen(k) + BodyLenOf(k) <= StreamEnd
      BY <1>0, <1>1, <1>7, <1>a
    <3>2. Wrap \in Nat /\ Wrap > StreamEnd
      BY <1>1, SizeFacts
    <3> QED
      BY <1>a, <1>1, <3>1, <3>2
  <2>5. ReceivingBody(cur + n, cur + HeadLen(k), BodyLenOf(k), FALSE)
    <3>1. ~(HeadLen(k) < 0)
      BY <1>a
    <3> QED
      BY <1>2, <1>4, <1>5, <1>7, <2>2, <3>1 DEF ParsingHeader, BodyLenOf
  <2> HIDE DEF g
  <2>6. ~(g = BodyLenOf(k)) /\ ~(g < BodyLenOf(k))
    BY <1>a, <2>4
  <2>7. phase' = "aborted"
    <3>1. PICK got \in {g} :
            \/ got = BodyLenOf(k)
            \/ got > BodyLenOf(k) /\ Close
            \/ got < BodyLenOf(k)
      BY <2>3, <2>5 DEF ReceivingBody
    <3> QED
      BY <2>6, <3>1 DEF Close
  <2>8. \E i \in 1..sent : Blamed(i)
    <3>1. /\ BodyLen(k) \in Nat /\ ExtraLen(k) \in Nat
          /\ TotalLen(k) = HeadLen(k) + BodyLen(k) + ExtraLen(k)
      BY <1>0, Lengths
    <3>2. BodyLenOf(k) < BodyLen(k) + ExtraLen(k)
      BY <1>0, <1>a, <1>1, <1>7, <3>1
    <3>3. k \in 1..sent
      BY <1>0, StreamFacts
    <3> QED
      BY <1>0, <3>2, <3>3, Blames
  <2>9. Orderly'
    BY <1>0, <1>4, <1>9, <2>7, <2>8
    DEF Orderly, ParsingFits, ReceivingFits, HandledFits, EndFits, Blamed
  <2> QED
    BY <1>0, <1>4, <2>9 DEF ReadInv
<1> QED
  BY <1>6, <1>7

-----------------------------------------------------------------------------
(* The steps.                                                              *)

\* phttp_on_read.
LEMMA ReadFits ==
  ASSUME ReadInv, ~SplitHeader, ShortTails, NEW n \in 1..StreamEnd, on_read(n)
  PROVE  ReadInv'
<1>0. SentInv' /\ ReadsInto(n) /\ TypeOK
  BY ReadTypes DEF ReadInv, SentInv
<1>1. CASE stale
  <2>1. stale' /\ sent' = sent
    BY <1>0, <1>1 DEF on_read, ReadsInto
  <2> QED
    BY <1>0, <1>1, <2>1 DEF ReadInv, Large
<1>2. CASE ~stale
  <2>1. phase \in {"read", "respond"} /\ http_state \in {"HTTP_PARSING_HEADER", "HTTP_RECEIVING_BODY"}
    BY <1>0 DEF on_read, TypeOK
  <2>2. phase = "read" /\ http_state = "HTTP_PARSING_HEADER" => Empty \/ Junk
    BY <1>2 DEF ReadInv, Orderly, ParsingFits
  <2> QED
    BY <1>2, <2>1, <2>2, FirstRead, JunkRead, BodyRead, LateRead
<1> QED
  BY <1>1, <1>2

\* The other steps.
LEMMA OtherFits ==
  ASSUME ReadInv,
         \/ ClientSend \/ on_read_eof \/ http_request_import
         \/ after_send_http_res \/ UNCHANGED vars
  PROVE  ReadInv'
<1>0. /\ SentInv' /\ SentInv /\ TypeOK
      /\ sent \in Nat /\ answered \in Nat /\ base \in Nat /\ cur \in Nat /\ cap \in Nat
      /\ Len(Reqs) \in Nat
  BY OtherTypes, StreamFacts DEF ReadInv, SentInv, TypeOK
<1>1. stale' = stale /\ 1..sent \subseteq 1..sent'
  BY <1>0 DEF ClientSend, on_read_eof, http_request_import, after_send_http_res, vars
<1>2. stale' => \E i \in 1..sent' : Large(i)'
  BY <1>1 DEF ReadInv, Large
<1>3. ASSUME ~stale PROVE Orderly'
  <2>0. Orderly
    BY <1>3 DEF ReadInv
  <2>1. CASE ClientSend
    <3>1. /\ sent = answered /\ sent' = sent + 1
          /\ UNCHANGED <<base, prev, cur, cap, http_state, body, body_len, moved,
                         phase, answered, stale>>
      BY <2>1 DEF ClientSend
    <3>2. /\ ~(phase = "read" /\ http_state = "HTTP_RECEIVING_BODY")
          /\ phase \notin {"respond", "handoff"}
      BY <1>0, <2>0, <3>1 DEF Orderly, ReceivingFits, HandledFits, AtRequest
    <3>3. ParsingFits'
      BY <1>1, <2>0, <3>1 DEF Orderly, ParsingFits, Empty, Junk
    <3>4. EndFits'
      BY <1>1, <2>0, <3>1 DEF Orderly, EndFits, Current, Blamed
    <3>5. answered' \in 0..sent' /\ sent' <= answered' + 1
      BY <1>0, <3>1
    <3>6. ReceivingFits' /\ HandledFits'
      BY <3>1, <3>2 DEF ReceivingFits, HandledFits
    <3> QED
      BY <2>0, <3>1, <3>3, <3>4, <3>5, <3>6 DEF Orderly
  <2>2. CASE on_read_eof
    BY <2>0, <2>2
    DEF on_read_eof, Orderly, ParsingFits, ReceivingFits, HandledFits, EndFits
  <2>3. CASE http_request_import
    <3>1. /\ phase = "handoff" /\ cap' = ImportCap
          /\ phase' = IF ImportCap < cur THEN "overrun" ELSE "respond"
          /\ body' = IF body_len = 0 THEN 0 ELSE body
          /\ UNCHANGED <<base, cur, http_state, body_len, moved, sent, answered>>
      BY <2>3 DEF http_request_import
    <3>2. /\ http_state = "HTTP_PARSING_HEADER"
          /\ sent \in 1..Len(Reqs) /\ AtRequest(sent) /\ BodyOf(sent)
          /\ (IF BodyLenOf(sent) = 0 THEN cur >= HeadLen(sent)
              ELSE cur = HeadLen(sent) + BodyLenOf(sent))
      BY <2>0, <3>1 DEF Orderly, HandledFits
    <3>3. /\ ImportCap < cur => InitCap < cur
          /\ InitCap <= ImportCap \/ ImportCap < cur
      BY <1>0, SizeFacts DEF ImportCap, membuf_grow
    <3>4. AtRequest(sent)' /\ BodyOf(sent)'
      BY <3>1, <3>2 DEF AtRequest, BodyOf
    <3>5. HandledFits'
      BY <3>1, <3>2, <3>4 DEF HandledFits
    <3>6. EndFits'
      <4>1. Current = sent /\ Current' = Current
        BY <1>0, <3>1, <3>2 DEF Current, AtRequest
      <4>0. cur <= Taken(sent) /\ Taken(sent) \in Nat
        <5>1. Start[sent + 1] = base + TotalLen(sent) /\ base + cur <= Start[sent + 1]
          BY <1>0, <3>2, RequestFacts DEF AtRequest, SentInv, BufferWasSent
        <5>2. /\ HeadLen(sent) \in Nat /\ BodyLenOf(sent) \in Nat /\ TotalLen(sent) \in Nat
              /\ Taken(sent) = IF \/ BodyLenOf(sent) = 0
                                  \/ HeadLen(sent) + BodyLenOf(sent) > TotalLen(sent)
                               THEN TotalLen(sent) ELSE HeadLen(sent) + BodyLenOf(sent)
          BY <3>2, Lengths
        <5>3. cur <= TotalLen(sent)
          BY <1>0, <5>1, <5>2
        <5> QED
          BY <1>0, <3>2, <5>2, <5>3
      <4>2. phase' = "overrun" => Taken(Current)' > InitCap
        BY <1>0, <3>1, <3>3, <4>0, <4>1, SizeFacts
      <4>3. phase' # "overrun" => InitCap <= cap'
        BY <3>1, <3>3
      <4> QED
        BY <3>1, <4>2, <4>3 DEF EndFits
    <3> QED
      BY <2>0, <3>1, <3>5, <3>6 DEF Orderly, ParsingFits, ReceivingFits
  <2>4. CASE after_send_http_res
    <3>1. /\ phase = "respond" /\ phase' = "read" /\ answered' = answered + 1
          /\ base' = base + cur /\ cur' = 0 /\ body_len' = 0 /\ moved' = FALSE
          /\ UNCHANGED <<cap, http_state, sent>>
      BY <2>4 DEF after_send_http_res
    <3>2. /\ http_state = "HTTP_PARSING_HEADER"
          /\ sent \in 1..Len(Reqs) /\ AtRequest(sent)
          /\ (IF BodyLenOf(sent) = 0 THEN cur >= HeadLen(sent)
              ELSE cur = HeadLen(sent) + BodyLenOf(sent))
      BY <2>0, <3>1 DEF Orderly, HandledFits
    <3>3. /\ sent = answered + 1 /\ base = Start[sent]
          /\ HeadLen(sent) \in Nat /\ BodyLenOf(sent) \in Nat
          /\ Start[sent + 1] \in Nat /\ base + cur <= Start[sent + 1]
      <4>1. Start[sent + 1] \in Nat
        BY <1>0, <3>2, StreamFacts
      <4> QED
        BY <1>0, <3>2, <4>1, Lengths DEF AtRequest, SentInv, BufferWasSent
    <3>4. Empty' \/ Junk'
      <4>1. CASE base' = Start[sent + 1]
        <5>1. answered' + 1 = sent + 1
          BY <1>0, <3>1, <3>3
        <5> QED
          BY <3>1, <4>1, <5>1 DEF Empty
      <4>2. CASE base' # Start[sent + 1]
        <5>1. /\ Start[sent] + HeadLen(sent) + BodyLenOf(sent) <= base'
              /\ base' < Start[sent + 1] /\ sent \in 1..sent
          BY <1>0, <3>1, <3>2, <3>3, <4>2
        <5> QED
          BY <3>1, <5>1 DEF Junk
      <4> QED
        BY <4>1, <4>2
    <3>5. ParsingFits'
      BY <3>1, <3>4 DEF ParsingFits
    <3>6. answered' \in 0..sent' /\ sent' <= answered' + 1
      BY <1>0, <3>1, <3>3
    <3>7. ReceivingFits' /\ HandledFits' /\ EndFits'
      BY <2>0, <3>1, <3>2 DEF Orderly, ReceivingFits, HandledFits, EndFits
    <3> QED
      BY <3>1, <3>5, <3>6, <3>7 DEF Orderly
  <2>5. CASE UNCHANGED vars
    BY <2>0, <2>5 DEF vars, Orderly, ParsingFits, ReceivingFits, HandledFits,
       EndFits, Empty, Junk, AtRequest, BodyOf, Current, Blamed
  <2> QED
    BY <2>1, <2>2, <2>3, <2>4, <2>5
<1> QED
  BY <1>0, <1>1, <1>2, <1>3 DEF ReadInv

\* At the start.
LEMMA StartFits ==
  ASSUME Init
  PROVE  ReadInv
<1>1. /\ SentInv /\ InitCap \in Nat /\ Start[1] = 0 /\ 0 + 1 = 1
  BY StartTypes, SizeFacts, HttpReadAssumption
<1>2. Orderly
  <2>1. Empty
    BY <1>1 DEF Init, Empty
  <2>2. ParsingFits /\ ReceivingFits /\ HandledFits /\ EndFits
    BY <1>1, <2>1 DEF Init, ParsingFits, ReceivingFits, HandledFits, EndFits
  <2> QED
    BY <2>2 DEF Init, Orderly
<1> QED
  BY <1>1, <1>2 DEF Init, ReadInv

-----------------------------------------------------------------------------
(* The theorems.                                                           *)

\* The inductive invariant holds in every reachable state.
THEOREM ReadInvariant ==
  ASSUME ~SplitHeader, ShortTails
  PROVE  Spec => []ReadInv
<1>1. Init => ReadInv
  BY StartFits
<1>2. ReadInv /\ [Next]_vars => ReadInv'
  BY ReadFits, OtherFits DEF Next
<1> QED
  BY <1>1, <1>2, PTL DEF Spec

\* However the kernel cuts the bodies, and wherever the request is handled:
\* the handler is given the client's next request with the body of the length
\* that http_request_determine_body_len finds in its headers, and that is the
\* client's when it is announced the usual way.
THEOREM HandlersSeeRequests ==
  ASSUME ~SplitHeader, ShortTails
  PROVE  Spec => []HandlerSeesRequest
<1>1. ReadInv => HandlerSeesRequest
  <2> SUFFICES ASSUME ReadInv, phase \in {"respond", "handoff"}, ~stale
               PROVE  HandlerSeesRequest
    BY DEF HandlerSeesRequest
  <2>1. /\ sent \in 1..Len(Reqs) /\ AtRequest(sent) /\ BodyOf(sent) /\ ~moved
        /\ (IF BodyLenOf(sent) = 0 THEN cur >= HeadLen(sent)
            ELSE cur = HeadLen(sent) + BodyLenOf(sent))
    BY DEF ReadInv, Orderly, HandledFits
  <2>2. /\ Current = sent /\ sent \in Nat /\ cur \in Nat /\ base \in Nat
        /\ base = Start[sent] /\ base + cur <= Start[sent + 1]
    BY <2>1, StreamFacts
    DEF Current, AtRequest, ReadInv, SentInv, TypeOK, BufferWasSent
  <2>3. /\ HeadLen(sent) \in Nat /\ BodyLenOf(sent) \in Nat /\ TotalLen(sent) \in Nat
        /\ Start[sent + 1] = Start[sent] + TotalLen(sent)
    BY <2>1, Lengths
  <2>4. cur <= TotalLen(sent)
    BY <2>2, <2>3
  <2>5. IF body_len > 0
        THEN body = HeadLen(sent) /\ cur = body + body_len /\ ~moved
        ELSE cur \in HeadLen(sent)..TotalLen(sent)
    BY <2>1, <2>2, <2>3, <2>4 DEF BodyOf
  <2>6. PlainLength(sent) => body_len = BodyLen(sent)
    BY <2>1, PlainIsAnnounced DEF BodyOf
  <2> QED
    BY <2>1, <2>2, <2>5, <2>6
    DEF HandlerSeesRequest, BodyOf, BodyLenOf, HeadLen, BodyLen, TotalLen, ExtraLen
<1> QED
  BY <1>1, ReadInvariant, PTL

\* realloc leaves the body pointer behind, and http_request_import writes
\* past its buffer, only for requests that are too large for the buffer.
THEOREM OnlyLargeAreLost ==
  ASSUME ~SplitHeader, ShortTails
  PROVE  Spec => []LosesOnlyLarge
<1>1. ReadInv => LosesOnlyLarge
  BY DEF ReadInv, Orderly, EndFits, LosesOnlyLarge, Large
<1> QED
  BY <1>1, ReadInvariant, PTL

\* phttp_on_read closes a connection only for bytes behind the request at the
\* beginning of the buffer that belong to none, or a body of this request that is
\* announced in an unusual way and found to be shorter than it is: no request
\* with a usual length is found oversized, nor is one rejected by the parser.
THEOREM OnlyOversizedAborted ==
  ASSUME ~SplitHeader, ShortTails
  PROVE  Spec => []AbortsOnlyOversized
<1>1. ReadInv => AbortsOnlyOversized
  <2> SUFFICES ASSUME ReadInv, phase = "aborted", ~stale
               PROVE  \E i \in 1..sent :
                        /\ Start[i] <= base /\ base < Start[i + 1]
                        /\ \/ ExtraLen(i) > 0
                           \/ ~PlainLength(i) /\ BodyLenOf(i) < BodyLen(i)
    BY DEF AbortsOnlyOversized, BodyLenOf, BodyLen, ExtraLen
  <2>1. PICK i \in 1..sent : Blamed(i)
    BY DEF ReadInv, Orderly, EndFits
  <2>2. i \in 1..Len(Reqs)
    BY StreamFacts DEF ReadInv, SentInv, TypeOK
  <2>3. BodyLenOf(i) \in Nat /\ BodyLen(i) \in Nat /\ ExtraLen(i) \in Nat
    BY <2>2, Lengths
  <2>4. PlainLength(i) => BodyLenOf(i) = BodyLen(i)
    BY <2>2, PlainIsAnnounced
  <2> QED
    BY <2>1, <2>3, <2>4 DEF Blamed
<1> QED
  BY <1>1, ReadInvariant, PTL

=============================================================================
