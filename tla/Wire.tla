-------------------------------- MODULE Wire --------------------------------
(***************************************************************************)
(* The messages of one connection: what a peer writes, how TCP cuts it up, *)
(* and how handlePeerMessages finds the messages again.                    *)
(*                                                                         *)
(* The stream is a line of units; a unit is what the code cannot tell      *)
(* apart any further.  A header is three of them: magic, command, length   *)
(* and a first byte of the checksum take two, the rest of the checksum is  *)
(* the third, because Decode is content with a checksum that is cut short. *)
(* A message lies at a place of the stream; what is read from elsewhere is *)
(* garbage, and garbage is never taken for a header (it would have to      *)
(* spell one of three magics).                                             *)
(***************************************************************************)
EXTENDS Naturals, Sequences

CONSTANTS
  Message,    \* what the peer may send: [command, n, type], n is what it
              \* counts, type the type of its filter
  MaxSent,    \* bound: messages on this connection
  Byte,       \* the values of a byte (256)
  Tip,        \* the height of the stored chain
  MaxRange,   \* getcfilters spans less than this (1000)
  Word        \* the values of a uint32

\* The commands with a handler, those that are skipped ("other") and those
\* that are in no list of the code ("unknown").
Command ==
  {"version", "verack", "ping", "pong", "inv", "tx", "block", "sendcmpct",
   "getheaders", "headers", "cfilter", "getcfilters", "other", "unknown"}

ASSUME WireAssumption ==
  /\ Message \subseteq [command : Command, n : Nat, type : Nat]
  /\ \A m \in Message : m.command = "cfilter" => m.n > 0  \* its own count is there
  /\ {MaxSent, Byte, Tip, MaxRange, Word} \subseteq Nat
  /\ Byte > 3
  /\ Tip < Word

-----------------------------------------------------------------------------
(* VarInt: the numbers that say how much follows. *)

\* As the protocol has a peer write it.  Only a uint16 is split, because only
\* a uint16 is read in two byte orders by pkg/binary.
VarInt(n) ==
  IF n < Byte - 3 THEN <<n>>
  ELSE IF n < Byte * Byte THEN <<Byte - 3, n % Byte, n \div Byte>>
  ELSE IF n < Word THEN <<Byte - 2, n>>
  ELSE <<Byte - 1, n>>

\* Little-endian; the mutant reads it like the port of an address.
DecodeUint16BigEndian(low, high) == high + Byte * low
DecodeUint16ForVarint(low, high) == low + Byte * high

UnmarshalVarInt(s) ==
  CASE s[1] < Byte - 3 -> s[1]
    [] s[1] = Byte - 3 -> DecodeUint16ForVarint(s[2], s[3])
    [] s[1] > Byte - 3 -> s[2]

\* What the decoder of a message takes its count to be; the user agent of a
\* version and the vectors of an inv are counted by a single byte.
Counted(m) ==
  CASE m.command \in {"headers", "cfilter", "getheaders"} ->
         UnmarshalVarInt(VarInt(m.n))
    [] m.command \in {"inv", "version"} -> VarInt(m.n)[1]
    [] OTHER -> m.n

-----------------------------------------------------------------------------
(* Layouts. *)

\* The payload as it was written, in units: a hash or an address is two, the
\* n bytes of a filter or a user agent are n, transactions, blocks and lists of
\* headers one or two.
Length(m) ==
  LET c == Len(VarInt(m.n)) IN
  CASE m.command = "verack" -> 0
    [] m.command \in {"ping", "pong"} -> 1
    [] m.command \in {"tx", "block", "sendcmpct", "other", "unknown"} -> 2
    [] m.command = "version" -> 7 + c + m.n
    [] m.command = "inv" -> c + 3 * m.n
    [] m.command = "headers" -> c + 1
    [] m.command = "cfilter" -> 3 + c + m.n
    [] m.command = "getheaders" -> 3 + c + 2 * m.n
    [] m.command = "getcfilters" -> 4

\* The ways to read: binary.Read waits for the whole field, decodeArray is one
\* call of Read, ReadUntilEOF goes on to the end of the message.
Full(end) == [how |-> "full", end |-> end]
Once(end) == [how |-> "once", end |-> end]
Rest(end) == [how |-> "rest", end |-> end]

\* A filter of another type than 0 is an error as soon as the type is read.
Refused(m) == m.command = "cfilter" /\ m.type # 0

\* The payload as its handler reads it: one field after the other, each up to
\* an offset.
Fields(m) ==
  LET c == Len(VarInt(m.n))
      count == Counted(m) IN
  CASE m.command = "verack" -> <<>>
    [] m.command \in {"ping", "pong"} -> <<Full(1)>>
    [] m.command = "sendcmpct" -> <<Full(1), Full(2)>>
    [] m.command \in {"tx", "block", "other"} -> <<Rest(2)>>
    [] m.command = "version" ->
         <<Full(1), Once(3), Full(4), Once(6), Full(7), Once(7 + count),
           Full(8 + count)>>
    [] m.command = "inv" ->
         [j \in 1..(2 * count + 1) |->
            IF j % 2 = 1 THEN IF j = 1 THEN Full(1) ELSE Once(1 + 3 * (j \div 2))
            ELSE Full(3 * (j \div 2) - 1)]
    [] m.command = "headers" -> <<Full(c), Rest(c + 1)>>
    [] m.command = "cfilter" ->
         IF Refused(m) THEN <<Full(1)>>
         ELSE <<Full(1), Once(3), Full(3 + c), Once(3 + c + count)>>
    [] m.command = "getheaders" ->
         [j \in 1..(count + 3) |->
            IF j = 1 THEN Full(1) ELSE IF j = 2 THEN Full(1 + c)
            ELSE Once(2 * j + c - 3)]
    [] m.command = "getcfilters" -> <<Full(1), Full(2), Once(4)>>

HasValidCommand(m) == m.command # "unknown"

-----------------------------------------------------------------------------
VARIABLES
  sent,      \* the messages, in order, each with its place in the stream
  open,      \* the connection is there
  arrived,   \* how much of the stream the node can read
  pos,       \* how much of it the node has read
  at,        \* where handlePeerMessages is
  cur,       \* the message whose header it has read
  field,     \* the field it reads next
  limit,     \* where the LimitReader of the handler ends
  height,    \* the loop variable of handleGetCFilters
  handled,   \* the messages handled: which, and whether as they were sent
  spoiled    \* history: what has brought the reader out of step

vars == <<sent, open, arrived, pos, at, cur, field, limit, height, handled,
          spoiled>>
peer == <<sent, open, arrived>>

HeaderLength == 3
Least(a, b) == IF a < b THEN a ELSE b

End == IF sent = <<>> THEN 0 ELSE sent[Len(sent)].end
Current == sent[cur].message
Available == arrived - pos
Placed == [message : Message, start : Nat, end : Nat]
Handled == [n : Nat, intact : BOOLEAN]
Cause == {"header", "field", "command", "count", "type", "error", "close"}

Init ==
  /\ sent = <<>> /\ open = TRUE /\ arrived = 0
  /\ pos = 0 /\ at = "header" /\ cur = 0 /\ field = 0 /\ limit = 0 /\ height = 0
  /\ handled = <<>> /\ spoiled = {}

-----------------------------------------------------------------------------
(* The peer and the network. *)

Send(m) ==
  /\ open
  /\ Len(sent) < MaxSent
  /\ sent' = Append(sent, [message |-> m, start |-> End,
                           end |-> End + HeaderLength + Length(m)])
  /\ UNCHANGED <<open, arrived, pos, at, cur, field, limit, height, handled, spoiled>>

\* Any piece of what is on its way.
Arrive ==
  /\ open
  /\ arrived < End
  /\ arrived' \in arrived + 1 .. End
  /\ UNCHANGED <<sent, open, pos, at, cur, field, limit, height, handled, spoiled>>

Close ==
  /\ open
  /\ open' = FALSE
  /\ UNCHANGED <<sent, arrived, pos, at, cur, field, limit, height, handled, spoiled>>

-----------------------------------------------------------------------------
(* The header: one Read of 24 bytes. *)

StartsHere(i) == i \in 1..Len(sent) /\ sent[i].start = pos

\* A whole header of a known command.
ReadHeader(i) ==
  /\ at = "header"
  /\ StartsHere(i) /\ HasValidCommand(sent[i].message)
  /\ Available >= HeaderLength
  /\ at' = "payload"
  /\ pos' = pos + HeaderLength
  /\ cur' = i
  /\ field' = 1
  /\ limit' = pos + HeaderLength + Length(sent[i].message)
  /\ UNCHANGED <<peer, height, handled, spoiled>>

\* The Read ends within the checksum, which nobody looks at: the handler
\* begins to read its payload there, and takes it for something else.
ReadCutHeader(i) ==
  /\ at = "header"
  /\ StartsHere(i) /\ HasValidCommand(sent[i].message)
  /\ Available = HeaderLength - 1
  /\ at' = "torn"
  /\ pos' = pos + Available
  /\ cur' = i
  /\ limit' \in pos + Available .. pos + Available + Length(sent[i].message)
  /\ spoiled' = spoiled \cup {"header"}
  /\ UNCHANGED <<peer, field, height, handled>>

Drops ==
  IF \E i \in 1..Len(sent) : StartsHere(i) /\ Available >= HeaderLength
  THEN {"command"} ELSE {"header"}

\* What was read is no header, too short for one, or has an unknown command:
\* it is dropped, and what follows is read as a header.
DropHeader ==
  /\ at = "header"
  /\ Available > 0
  /\ \A i \in 1..Len(sent) :
       StartsHere(i) /\ HasValidCommand(sent[i].message) => Available < HeaderLength - 1
  /\ pos' = pos + Least(Available, HeaderLength)
  /\ spoiled' = spoiled \cup Drops
  /\ UNCHANGED <<peer, at, cur, field, limit, height, handled>>

\* An error of the connection ends the loop; in the mutant the break leaves
\* the switch only.
AfterReadErrorLoops == "header"
AfterReadError == "off"

ReadError ==
  /\ at = "header"
  /\ ~open /\ Available = 0
  /\ at' = AfterReadError
  /\ UNCHANGED <<peer, pos, cur, field, limit, height, handled, spoiled>>

-----------------------------------------------------------------------------
(* The payload. *)

\* The handler is done, and the loop reads the next header.
Back == at' = "header" /\ cur' = 0 /\ field' = 0 /\ limit' = 0 /\ height' = 0

Reading(how) ==
  /\ at = "payload"
  /\ field <= Len(Fields(Current))
  /\ Fields(Current)[field].how = how

\* Where the field ends in the stream.
Goal == limit - Length(Current) + Fields(Current)[field].end

ReadFull ==
  /\ Reading("full")
  /\ Goal <= Least(limit, arrived)
  /\ pos' = Goal
  /\ field' = field + 1
  /\ UNCHANGED <<peer, at, cur, limit, height, handled, spoiled>>

\* One Read for the whole field, which takes what is there.  For an empty user
\* agent it does not wait.
ReadOnce ==
  /\ Reading("once")
  /\ Available > 0 \/ Goal = pos
  /\ Goal <= Least(limit, arrived)
  /\ pos' = Goal
  /\ field' = field + 1
  /\ UNCHANGED <<peer, at, cur, limit, height, handled, spoiled>>

\* Less was there than the field has, and nobody counts: the rest of the field
\* is zero, what is left of it is read as the next one, and the handler stops
\* somewhere before its limit.
ReadShort ==
  /\ Reading("once")
  /\ Available > 0 /\ pos < limit
  /\ Goal > Least(limit, arrived)
  /\ pos' = Least(limit, arrived)
  /\ at' = "torn"
  /\ field' = 0
  /\ limit' \in pos' .. limit
  /\ spoiled' = IF arrived < limit THEN spoiled \cup {"field"} ELSE spoiled
  /\ UNCHANGED <<peer, cur, height, handled>>

\* Where ReadUntilEOF finds an EOF: at the limit of its LimitReader, in the
\* mutant that reads the connection itself when that is closed.
EOFOfConnection == IF open THEN arrived + 1 ELSE arrived
EOF == limit

ReadUntilEOF ==
  /\ Reading("rest")
  /\ pos < Least(EOF, arrived)
  /\ pos' = Least(EOF, arrived)
  /\ field' = IF pos' = EOF THEN field + 1 ELSE field
  /\ UNCHANGED <<peer, at, cur, limit, height, handled, spoiled>>

ReadTorn ==
  /\ at = "torn"
  /\ pos < Least(limit, arrived)
  /\ pos' = Least(limit, arrived)
  /\ UNCHANGED <<peer, at, cur, field, limit, height, handled, spoiled>>

\* The connection breaks within a message: the handler fails.
Waiting ==
  \/ at = "torn" /\ pos < limit /\ Available = 0
  \/ Reading("full") /\ arrived < Goal
  \/ Reading("once") /\ Available = 0 /\ pos < Goal
  \/ Reading("rest") /\ Available = 0

PayloadError ==
  /\ ~open
  /\ Waiting
  /\ pos' = arrived
  /\ Back
  /\ spoiled' = spoiled \cup {"close"}
  /\ UNCHANGED <<peer, handled>>

\* handleBlock asks for the chain tip before it reads, and may fail there.
ChainTipFails ==
  /\ Reading("rest") /\ Current.command = "block"
  /\ pos = sent[cur].start + HeaderLength
  /\ Back
  /\ spoiled' = spoiled \cup {"error"}
  /\ UNCHANGED <<peer, pos, handled>>

-----------------------------------------------------------------------------
(* The end of a handler. *)

Decoded == at = "payload" /\ field > Len(Fields(Current))
Intact == Counted(Current) = Current.n /\ pos = limit

\* A count that is written in more than one byte leaves vectors, or bytes of a
\* version message, unread.
Leaves == IF pos < limit THEN {"count"} ELSE {}

Return ==
  /\ Decoded
  /\ ~Refused(Current)
  /\ Back
  /\ handled' = Append(handled, [n |-> cur, intact |-> Intact])
  /\ spoiled' = spoiled \cup Leaves
  /\ UNCHANGED <<peer, pos>>

\* The hash, the count and the filter stay in the stream.
RefuseFilter ==
  /\ Decoded
  /\ Refused(Current)
  /\ Back
  /\ spoiled' = spoiled \cup {"type"}
  /\ UNCHANGED <<peer, pos, handled>>

\* Garbage may decode, or be an error.
ReturnTorn ==
  /\ at = "torn" /\ pos = limit
  /\ Back
  /\ handled' \in {handled, Append(handled, [n |-> cur, intact |-> FALSE])}
  /\ UNCHANGED <<peer, pos, spoiled>>

\* The checks of handleGetCFilters, for a stop block at that height.
Answerable(stop) ==
  /\ Current.type = 0
  /\ stop >= Current.n
  /\ stop - Current.n < MaxRange

StartAnswer(stop) ==
  /\ Decoded /\ Current.command = "getcfilters"
  /\ Answerable(stop)
  /\ at' = "answer"
  /\ height' = stop
  /\ UNCHANGED <<peer, pos, cur, field, limit, handled, spoiled>>

\* Is a block of that height still to be answered?  The mutant answers for
\* StartHeight too, and a uint32 is never below 0.
AboveOrAt(h) == h >= Current.n
Above(h) == h > Current.n

\* One round of the loop; height is a uint32.
Answer ==
  /\ at = "answer" /\ Above(height)
  /\ height' = IF height = 0 THEN Word - 1 ELSE height - 1
  /\ UNCHANGED <<peer, pos, at, cur, field, limit, handled, spoiled>>

FinishAnswer ==
  /\ at = "answer" /\ ~Above(height)
  /\ Back
  /\ handled' = Append(handled, [n |-> cur, intact |-> Intact])
  /\ UNCHANGED <<peer, pos, spoiled>>

-----------------------------------------------------------------------------
Reader ==
  \/ \E i \in 1..Len(sent) : ReadHeader(i) \/ ReadCutHeader(i)
  \/ DropHeader \/ ReadError
  \/ ReadFull \/ ReadOnce \/ ReadShort \/ ReadUntilEOF \/ ReadTorn
  \/ PayloadError \/ ChainTipFails
  \/ Return \/ RefuseFilter \/ ReturnTorn
  \/ \E stop \in 0..Tip : StartAnswer(stop)
  \/ Answer \/ FinishAnswer

Next ==
  \/ \E m \in Message : Send(m)
  \/ Arrive
  \/ Close
  \/ Reader

\* What was sent arrives while the connection is there, and the goroutine of
\* the reader goes on when it can.
Spec == Init /\ [][Next]_vars /\ WF_vars(Arrive) /\ WF_vars(Reader)

-----------------------------------------------------------------------------
(* Properties. *)

\* Types.  What was read has arrived, and what has arrived was sent.
TypeOK ==
  /\ sent \in Seq(Placed)
  /\ open \in BOOLEAN
  /\ arrived \in 0..End
  /\ pos \in 0..arrived
  /\ at \in {"header", "payload", "torn", "answer", "off"}
  /\ cur \in 0..Len(sent)
  /\ field \in Nat
  /\ limit \in Nat
  /\ height \in 0..Tip
  /\ handled \in Seq(Handled)
  /\ spoiled \subseteq Cause

\* Where the next message starts once k of them have been handled.
NextStart(k) == IF k = 0 THEN 0 ELSE sent[k].end

\* handlePeerMessages never handles a message twice or after a later one, even
\* when it reads garbage between them.
HandledInOrder ==
  \A j, k \in 1..Len(handled) : j < k => handled[j].n < handled[k].n

\* The reader stays in step: every decoder reads as much as its message has,
\* and every message is handled, as it was sent, and before the next one is
\* looked at -- unless a Read has cut a header or a field short, the command
\* is unknown, the vectors of an inv or the user agent of a version take more
\* than one byte to count, a filter has another type than 0, the database fails
\* under a block, or the connection is lost (the causes in spoiled).
InStep ==
  /\ HandledInOrder
  /\ spoiled = {} =>
       /\ \A k \in 1..Len(handled) : handled[k] = [n |-> k, intact |-> TRUE]
       /\ at = "header" => pos = NextStart(Len(handled))

\* Every message is handled in the end, unless the reader is out of step or
\* the connection lost: no decoder waits for more than its message has, and
\* the loop of handleGetCFilters ends at every range.  What a handler sends on
\* a channel of the node is taken to be received.
Served ==
  \A i \in 1..MaxSent :
    Len(sent) >= i ~> (spoiled # {} \/ ~open \/ Len(handled) >= i)

\* A connection that is lost ends handlePeerMessages, wherever it was and
\* whatever it took for a header, if what its handlers send on the channels of
\* the node is received: this is what lets the peer be forgotten.
ReaderEnds == ~open ~> at = "off"

=============================================================================
