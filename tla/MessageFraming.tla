--------------------------- MODULE MessageFraming ---------------------------
(* How gRPC messages lie in byte streams: a flag, four bytes of length and   *)
(* the payload.  Here are the buffers and streams that take messages out of  *)
(* the client's body and put them into responses: the slices of              *)
(* NgxEspGrpcServerCall, NgxRequestZeroCopyInputStream                       *)
(* (nginx/zero_copy_stream.cc), GrpcMessageSerializer and                    *)
(* GrpcZeroCopyInputStream (grpc/).  A buffer or slice is the sequence of    *)
(* its bytes; reference counts are left out.                                 *)
EXTENDS Integers, Sequences, FiniteSets, SequencesExt

CONSTANT ByteValues     \* how many values a byte has, 256 in the code

ASSUME ByteAssumption == ByteValues \in Nat \ {0, 1}

DelimiterSize == 5

(* The delimiter, whose length wraps at 2^32 in the code: the length is      *)
(* shifted by one byte, two and three.  Reading it shifts back.              *)
NewFrame(flags, length) ==
  LET length8 == length \div ByteValues
      length16 == length8 \div ByteValues
      length24 == length16 \div ByteValues
  IN  <<flags, length24 % ByteValues, length16 % ByteValues, length8 % ByteValues, length % ByteValues>>
LengthOf(b1, b2, b3, b4) == ((b1 * ByteValues + b2) * ByteValues + b3) * ByteValues + b4
Frame(flags, payload) == NewFrame(flags, Len(payload)) \o payload

-----------------------------------------------------------------------------
(* downstream_slices_: a vector of slices seen as one run of bytes.          *)
Upto(slices, i) == Len(FlattenSeq(SubSeq(slices, 1, i)))
GetByte(slices, offset) ==
  IF offset < Upto(slices, Len(slices)) THEN FlattenSeq(slices)[offset + 1] ELSE 0

(* Slices that end within the first count bytes are erased; the loop ends    *)
(* with the last of these bytes, so that an empty slice behind it stays.     *)
Erased(slices, count) ==
  Cardinality({i \in 1..Len(slices) : Upto(slices, i - 1) < count /\ Upto(slices, i) <= count})

TrimFront(slices, count) ==
  LET k == Erased(slices, count)
      rest == SubSeq(slices, k + 1, Len(slices))
      part == count - Upto(slices, k)
  IN  IF part = 0 THEN rest
      ELSE <<SubSeq(Head(rest), part + 1, Len(Head(rest)))>> \o Tail(rest)

(* Faulty variant: the slice that a message shares with the next is erased.  *)
RemainderErased(body, msglen) ==
  LET k == Erased(body, msglen)
  IN  SubSeq(body, k + (IF Upto(body, k) < msglen THEN 2 ELSE 1), Len(body))

(* What is left once the message is taken: a slice used in part is replaced  *)
(* by its remainder.                                                         *)
Remainder(body, msglen) == TrimFront(body, msglen)

(* TryReadDownstreamMessage up to the decompression: {} if the message is    *)
(* not complete yet.                                                         *)
TryReadMessage(slices) ==
  LET buflen == Upto(slices, Len(slices))
      msglen == LengthOf(GetByte(slices, 1), GetByte(slices, 2), GetByte(slices, 3), GetByte(slices, 4))
      body == TrimFront(slices, DelimiterSize)
  IN  IF buflen < DelimiterSize \/ buflen - DelimiterSize < msglen THEN {}
      ELSE {[compressed_flag |-> GetByte(slices, 0),
             message |-> SubSeq(FlattenSeq(body), 1, msglen),
             rest |-> Remainder(body, msglen)]}

-----------------------------------------------------------------------------
(* NgxRequestZeroCopyInputStream over the chain of body buffers: cl is the   *)
(* position in the chain, 0 for null, and buf what is left of the current    *)
(* buffer, which for a file is a copy in memory.                             *)
NgxStream(bufs) == [bufs |-> bufs, cl |-> 0, buf |-> <<>>, ok |-> TRUE]

FindNonEmptyChainLink(bufs, from) ==
  LET found == {i \in from..Len(bufs) : bufs[i].data # <<>>}
  IN  IF found = {} THEN 0 ELSE CHOOSE i \in found : \A j \in found : i <= j

(* NextBuffer; ReadFileBuffer may fail.                                      *)
NextBuffer(t) ==
  LET left == IF t.cl # 0 /\ t.bufs[t.cl].file THEN [t.bufs EXCEPT ![t.cl].data = <<>>] ELSE t.bufs
      link == FindNonEmptyChainLink(left, t.cl + 1)
      moved == [t EXCEPT !.bufs = left, !.cl = link]
  IN  IF link = 0 THEN {moved}
      ELSE {[moved EXCEPT !.buf = left[link].data]}
           \union {[moved EXCEPT !.ok = FALSE] : f \in {link} \intersect {i \in DOMAIN left : left[i].file}}

(* Next: the data, none if there is none now, and the stream after it.       *)
NgxNext(t) ==
  LET Take(u) ==
        [data |-> u.buf,
         stream |-> IF u.buf = <<>> THEN u
                    ELSE [u EXCEPT !.buf = <<>>,
                                   !.bufs[u.cl].data = IF u.bufs[u.cl].file THEN @ ELSE <<>>]]
  IN  IF ~t.ok THEN {[data |-> <<>>, stream |-> t]}
      ELSE {Take(u) : u \in IF t.buf = <<>> THEN NextBuffer(t) ELSE {t}}

(* The transcoder calls Next as long as there is data: read[n] is what it    *)
(* may have got with n calls.  Each takes a buffer, but the last.            *)
NgxReadMore(r) ==
  IF ~r.more THEN {r}
  ELSE {[data |-> r.data \o next.data, stream |-> next.stream, more |-> next.data # <<>>] :
          next \in NgxNext(r.stream)}
NgxReadAll(t) ==
  LET read[n \in 0..(Len(t.bufs) + 1)] ==
        IF n = 0 THEN {[data |-> <<>>, stream |-> t, more |-> TRUE]}
        ELSE UNION {NgxReadMore(r) : r \in read[n - 1]}
  IN  read[Len(t.bufs) + 1]

-----------------------------------------------------------------------------
(* GrpcMessageSerializer: messages, each a sequence of slices, become one    *)
(* stream of delimiters and slices.                                          *)
SerializerState(messages, delimiter_consumed, current_slice_no, byte_count) ==
  [messages |-> messages, delimiter_consumed |-> delimiter_consumed,
   current_slice_no |-> current_slice_no, byte_count |-> byte_count]
Serializer == SerializerState(<<>>, FALSE, 0, 0)

WithMessage(z, message, bytes) ==
  SerializerState(Append(z.messages, message), z.delimiter_consumed, z.current_slice_no, z.byte_count + bytes)

(* Faulty variant: the delimiter is not counted.                             *)
AddMessageUndelimited(z, message) == WithMessage(z, message, Upto(message, Len(message)))

AddMessage(z, message) == WithMessage(z, message, Upto(message, Len(message)) + DelimiterSize)

(* The next buffer, if ok, and the serializer after it.                      *)
NextBufferOf(z) ==
  LET m == Head(z.messages)
      slice == m[z.current_slice_no + 1]
  IN  IF z.messages = <<>> THEN [ok |-> FALSE, data |-> <<>>, z |-> z]
      ELSE IF ~z.delimiter_consumed
      THEN [ok |-> TRUE, data |-> NewFrame(0, Upto(m, Len(m))),
            z |-> SerializerState(z.messages, TRUE, 0, z.byte_count - DelimiterSize)]
      ELSE [ok |-> TRUE, data |-> slice,
            z |-> SerializerState(z.messages, TRUE, z.current_slice_no + 1, z.byte_count - Len(slice))]
Exhausted(z) ==
  z.messages # <<>> /\ z.delimiter_consumed /\ z.current_slice_no >= Len(Head(z.messages))

NextInternal(z) ==
  NextBufferOf(IF Exhausted(z) THEN SerializerState(Tail(z.messages), FALSE, 0, z.byte_count) ELSE z)

(* GrpcMessageSerializer::Next skips empty buffers, which are slices:        *)
(* next[k] is the buffer at hand when the loop has run k times.              *)
SkipEmpty(n) == IF n.ok /\ n.data = <<>> THEN NextInternal(n.z) ELSE n
SerializerNext(z) ==
  LET slices == Len(FlattenSeq(z.messages))
      next[k \in 0..slices] == IF k = 0 THEN NextInternal(z) ELSE SkipEmpty(next[k - 1])
  IN  next[slices]

(* GrpcZeroCopyInputStream over a serializer.                                *)
StreamState(serializer, current_buffer, position, bytes_read, finished) ==
  [serializer |-> serializer, current_buffer |-> current_buffer, position |-> position,
   bytes_read |-> bytes_read, finished |-> finished]
GrpcStream == StreamState(Serializer, <<>>, 0, 0, FALSE)

(* Next: a buffer that is used up is replaced; all of the buffer is given.   *)
Refilled(g, n) ==
  StreamState(n.z, IF n.ok THEN n.data ELSE <<>>, 0, g.bytes_read, g.finished)
RestOfBuffer(g) ==
  [data |-> SubSeq(g.current_buffer, g.position + 1, Len(g.current_buffer)),
   stream |-> StreamState(g.serializer, g.current_buffer, Len(g.current_buffer),
                          g.bytes_read + Len(g.current_buffer) - g.position, g.finished)]
GrpcNext(g) ==
  RestOfBuffer(IF g.position < Len(g.current_buffer) THEN g
               ELSE Refilled(g, SerializerNext(g.serializer)))

BackUp(g, count) ==
  IF 0 < count /\ count <= g.position
  THEN StreamState(g.serializer, g.current_buffer, g.position - count, g.bytes_read - count, g.finished)
  ELSE g

BytesAvailable(g) == Len(g.current_buffer) - g.position + g.serializer.byte_count

(* The transcoder's MessageReader takes n bytes that are there, and gives    *)
(* back what Next returned beyond them; read[k] is what k calls of Next gave.*)
Joined(r, next) == [data |-> r.data \o next.data, stream |-> next.stream]
ReadMore(r, n) == IF Len(r.data) < n THEN Joined(r, GrpcNext(r.stream)) ELSE r
GivenBack(r, n) == [data |-> SubSeq(r.data, 1, n), stream |-> BackUp(r.stream, Len(r.data) - n)]
ReadStream(g, n) ==
  LET read[k \in 0..n] == IF k = 0 THEN [data |-> <<>>, stream |-> g] ELSE ReadMore(read[k - 1], n)
  IN  GivenBack(read[n], n)

(* Its next message, {} if there is none yet.                                *)
LengthIn(delimiter) == LengthOf(delimiter[2], delimiter[3], delimiter[4], delimiter[5])
MessageAfter(head) ==
  IF BytesAvailable(head.stream) < LengthIn(head.data) THEN {}
  ELSE {ReadStream(head.stream, LengthIn(head.data))}
NextMessage(g) ==
  IF BytesAvailable(g) < DelimiterSize THEN {}
  ELSE MessageAfter(ReadStream(g, DelimiterSize))
=============================================================================
