------------------------------- MODULE Framing -------------------------------
(***************************************************************************)
(* How messages travel over a connection (data_transfer.h, .cpp): a packet   *)
(* is the count of its messages, then for each one its id and size and its   *)
(* fields.  The stream is a sequence of such tokens; it may end anywhere, a  *)
(* token may come in part, and headers are read without asking whether       *)
(* there was anything to read.                                               *)
(***************************************************************************)
EXTENDS Integers, Sequences, SequencesExt

CONSTANTS
  message_ids,            \* the ids the factory knows; 0 is none of them
  Fields,                 \* what a field may hold
  MaxFields, MaxMessages, \* bounds on the packets sent
  max_messages_count      \* what a reader allows

\* An id fits into the byte that comes first, and a count into its four bytes.
ASSUME FramingAssumption ==
  /\ message_ids \subseteq 1 .. 255
  /\ MaxFields \in Nat /\ max_messages_count \in Nat
  /\ MaxMessages \in Nat /\ MaxMessages \div 65536 < 65536

VARIABLES
  packet,     \* the messages sent
  stream,     \* the tokens on their way
  received    \* what read returned or threw

framingVars == <<packet, stream, received>>

Thrown(error) == [error |-> error, msgs |-> <<>>]
Nothing == Thrown("not read yet")
FramingInit == packet = <<>> /\ stream = <<>> /\ received = Nothing

CountToken(n) == [kind |-> "count", n |-> n]
HeaderToken(id, size) == [kind |-> "header", id |-> id, size |-> size]
FieldToken(f) == [kind |-> "field", value |-> f]
TornField == [kind |-> "torn"]

\* write_n, write_any
Framed(msgs) ==
  <<CountToken(Len(msgs))>> \o
  FlattenSeq([n \in DOMAIN msgs |->
    <<HeaderToken(msgs[n].id, Len(msgs[n].fields))>> \o
    [k \in DOMAIN msgs[n].fields |-> FieldToken(msgs[n].fields[k])]])
Write(msgs) ==
  /\ packet = <<>> /\ stream = <<>>
  /\ packet' = msgs /\ stream' = Framed(msgs)
  /\ UNCHANGED received

\* The peer goes away: the stream ends with n whole tokens and perhaps a part
\* of the next.  The low bytes of a count or a header come first and the rest
\* is zeroes, so a count keeps its lowest one, two or three bytes, and a header
\* its id, but perhaps not its size.
PartsOf(token) ==
  CASE token.kind = "count" -> {CountToken(token.n % bytes) : bytes \in {256, 65536, 16777216}}
    [] token.kind = "header" -> {token, HeaderToken(token.id, 0)}
    [] token.kind = "field" -> {TornField}
Cut(n) ==
  /\ received = Nothing /\ stream = Framed(packet) /\ n < Len(stream)
  /\ \E part \in {<<>>} \cup {<<p>> : p \in PartsOf(stream[n + 1])} :
       stream' = SubSeq(stream, 1, n) \o part
  /\ UNCHANGED <<packet, received>>

\* read_any for the message whose header is at i of the stream (a zeroed header
\* when it has ended): ParseFromCodedStream reads fields up to the limit of the
\* header, or to the end of the stream, which is a legitimate end.
HeaderAt(i) == IF i <= Len(stream) THEN stream[i] ELSE HeaderToken(0, 0)
LowerOf(a, b) == IF a <= b THEN a ELSE b
\* Mutant of LimitOf: no limit is pushed.
LimitOf_None(i) == Len(stream)
LimitOf(i) == LowerOf(i + HeaderAt(i).size, Len(stream))
ReadAny(i) ==
  LET read == SubSeq(stream, i + 1, LimitOf(i)) IN
  IF HeaderAt(i).kind # "header" THEN [error |-> "transfer_error"]
  ELSE IF HeaderAt(i).id \notin message_ids THEN [error |-> "out_of_range"]
  ELSE IF \E k \in DOMAIN read : read[k].kind # "field" THEN [error |-> "transfer_error"]
  ELSE [error |-> "none", id |-> HeaderAt(i).id, fields |-> [k \in DOMAIN read |-> read[k].value],
        next |-> i + 1 + Len(read)]

\* read: as many messages as the packet's header announces, one after the
\* other, up to the first exception.
MessagesCount == IF stream = <<>> THEN 0 ELSE stream[1].n
ReadUpTo[n \in 0 .. MessagesCount] ==
  IF n = 0 THEN [error |-> "none", msgs |-> <<>>, next |-> 2]
  ELSE LET before == ReadUpTo[n - 1]
           m == ReadAny(before.next)
       IN  IF before.error # "none" THEN before
           ELSE IF m.error # "none" THEN [error |-> m.error, msgs |-> <<>>, next |-> 0]
           ELSE [error |-> "none", next |-> m.next,
                 msgs |-> Append(before.msgs, [id |-> m.id, fields |-> m.fields])]
Read ==
  /\ packet # <<>> /\ received = Nothing
  /\ received' = IF MessagesCount > max_messages_count THEN Thrown("transfer_error")
                 ELSE [error |-> ReadUpTo[MessagesCount].error, msgs |-> ReadUpTo[MessagesCount].msgs]
  /\ UNCHANGED <<packet, stream>>

FramingNext ==
  \/ \E n \in 1 .. MaxMessages :
       \E msgs \in [1 .. n -> [id : message_ids, fields : BoundedSeq(Fields, MaxFields)]] : Write(msgs)
  \/ \E n \in 0 .. Len(stream) : Cut(n)
  \/ Read
FramingSpec == FramingInit /\ [][FramingNext]_framingVars

-----------------------------------------------------------------------------
\* What a reader accepts: wherever the stream was cut, either an exception, or
\* no message at all (which callers treat as an error), or every message that
\* was sent, of the sent kind and in order, all whole but the last, which may
\* have lost its last fields and nothing else.  Without a cut a packet of an
\* allowed size is read as it was written (read and read_any, whose headers are
\* read unchecked).
CutIsNoticed ==
  /\ received.error = "none" /\ received.msgs # <<>> =>
       /\ Len(received.msgs) = Len(packet)
       /\ \A n \in DOMAIN packet :
            /\ received.msgs[n].id = packet[n].id
            /\ IF n < Len(packet) THEN received.msgs[n] = packet[n]
               ELSE IsPrefix(received.msgs[n].fields, packet[n].fields)
  /\ received # Nothing /\ stream = Framed(packet) /\ Len(packet) <= max_messages_count =>
       received = [error |-> "none", msgs |-> packet]
=============================================================================
