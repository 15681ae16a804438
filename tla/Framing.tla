------------------------------ MODULE Framing ------------------------------
(***************************************************************************)
(* The four byte-order cases of src/network/byte_order: a server that      *)
(* reads a Header and then a Body from a stream into C structs, and        *)
(* clients that lay the same fields out by hand.  The servers differ in    *)
(* whether the structs are packed (case 1) or aligned (cases 2, 3 and 4);  *)
(* the clients write the fields without gaps (cases 1 and 2) or at the     *)
(* aligned offsets (cases 3 and 4).                                        *)
(*                                                                         *)
(* The stream delivers bytes in portions of any size and may end after     *)
(* any byte.  A byte is a number; a field is the sequence of its bytes,    *)
(* most significant first.                                                 *)
(***************************************************************************)
EXTENDS Naturals, Sequences, FiniteSets, SequencesExt

CONSTANTS Conn,      \* the connections made to the server
          NoConn,    \* no connection
          Message,   \* the messages clients send
          Fields,    \* [Message -> its header and body fields]
          Layout,    \* [Message -> where the client puts them]
          Packings   \* the builds of the server: TRUE for packed structs

Width == [magic |-> 2, version |-> 2, command |-> 2, bodyLen |-> 4, checksum |-> 4,
          seqNum |-> 4, timestamp |-> 8, data |-> 4]

Align == [Width EXCEPT !.magic = 1, !.data = 1]  \* the others are integers

HeaderStruct == <<"magic", "version", "command", "bodyLen", "checksum">>
BodyStruct == <<"seqNum", "timestamp", "data">>

-----------------------------------------------------------------------------
(* A layout is the offset of each field and the size of the whole. *)

RoundUp(n, a) == ((n + a - 1) \div a) * a

(* Where the compiler puts the members of a struct. *)
Struct(members, packed) ==
    LET align(f) == IF packed THEN 1 ELSE Align[f]
        end[i \in 0 .. Len(members)] ==
            IF i = 0 THEN 0 ELSE RoundUp(end[i - 1], align(members[i])) + Width[members[i]]
        widest == CHOOSE a \in {align(f) : f \in ToSet(members)} :
                      \A f \in ToSet(members) : align(f) <= a
    IN  [at |-> [f \in ToSet(members) |->
                   LET i == CHOOSE j \in DOMAIN members : members[j] = f
                   IN  RoundUp(end[i - 1], align(f))],
         size |-> RoundUp(end[Len(members)], widest)]

(* The offsets the clients use. *)
Contiguous ==
    [header |-> [at |-> [magic |-> 0, version |-> 2, command |-> 4, bodyLen |-> 6,
                         checksum |-> 10], size |-> 14],
     body |-> [at |-> [seqNum |-> 0, timestamp |-> 4, data |-> 12], size |-> 16]]

Padded ==
    [header |-> [at |-> [magic |-> 0, version |-> 2, command |-> 4, bodyLen |-> 8,
                         checksum |-> 12], size |-> 16],
     body |-> [at |-> [seqNum |-> 0, timestamp |-> 8, data |-> 16], size |-> 24]]

ServerLayout ==
    [packed \in BOOLEAN |-> [header |-> Struct(HeaderStruct, packed),
                             body |-> Struct(BodyStruct, packed)]]

ASSUME FramingAssumption ==
    /\ NoConn \notin Conn
    /\ Layout \in [Message -> {Contiguous, Padded}]
    /\ Packings \subseteq BOOLEAN

(* The bytes of the fields at their offsets, the gaps filled with zeros. *)
Serialize(fields, layout) ==
    [i \in 1 .. layout.size |->
        LET here == {f \in DOMAIN layout.at : layout.at[f] < i /\ i <= layout.at[f] + Width[f]}
        IN  IF here = {} THEN 0
            ELSE LET f == CHOOSE g \in here : TRUE IN fields[f][i - layout.at[f]]]

Extract(bytes, layout) ==
    [f \in DOMAIN layout.at |-> SubSeq(bytes, layout.at[f] + 1, layout.at[f] + Width[f])]

(* ntohs, ntohl *)
Number(field) ==
    LET n[i \in 0 .. Len(field)] == IF i = 0 THEN 0 ELSE 256 * n[i - 1] + field[i]
    IN  n[Len(field)]

calculateChecksum(bytes) == FoldLeft(LAMBDA n, byte : n + byte, 0, bytes)

(* What a client writes: the header and as much body as it says. *)
Packet == [m \in Message |->
    Serialize(Fields[m].header, Layout[m].header)
        \o SubSeq(Serialize(Fields[m].body, Layout[m].body),
                  1, Number(Fields[m].header.bodyLen))]

(* Every field has the bytes of its type, and no client sends more body    *)
(* than it has.                                                            *)
ASSUME FieldsAssumption ==
    /\ Fields \in [Message -> [header : [ToSet(HeaderStruct) -> Seq(0 .. 255)],
                               body : [ToSet(BodyStruct) -> Seq(0 .. 255)]]]
    /\ \A m \in Message :
        /\ \A f \in ToSet(HeaderStruct) : Len(Fields[m].header[f]) = Width[f]
        /\ \A f \in ToSet(BodyStruct) : Len(Fields[m].body[f]) = Width[f]
        /\ Number(Fields[m].header.bodyLen) <= Layout[m].body.size

-----------------------------------------------------------------------------
VARIABLES packed,   \* which server runs
          message,  \* what each client sends
          backlog,  \* the connections to be accepted
          spc,      \* where the server is: accept, header or body
          cur,      \* its client_fd
          want,     \* how many bytes recvAll was asked for
          buf,      \* the bytes it has
          header,   \* the Header, in host byte order
          read,     \* how many bytes of its stream have been read
          buffers,  \* the bodyData buffers that were not deleted
          outcome,  \* what became of each connection
          printed   \* what printPacket was called with

vars == <<packed, message, backlog, spc, cur, want, buf, header, read, buffers, outcome, printed>>

Mine == ServerLayout[packed]
Stream == Packet[message[cur]]
Nothing == [header |-> << >>, body |-> << >>]

Init ==
    /\ packed \in Packings /\ message \in [Conn -> Message]
    /\ backlog = << >> /\ spc = "accept" /\ cur = NoConn
    /\ want = 0 /\ buf = << >> /\ header = << >>
    /\ read = 0 /\ buffers = 0
    /\ outcome = [c \in Conn |-> "none"]
    /\ printed = [c \in Conn |-> Nothing]

Connect(c) ==
    /\ outcome[c] = "none" /\ c # cur
    /\ ~ \E i \in DOMAIN backlog : backlog[i] = c
    /\ backlog' = Append(backlog, c)
    /\ UNCHANGED <<packed, message, spc, cur, want, buf, header, read, buffers, outcome, printed>>

Accept ==
    /\ spc = "accept" /\ backlog # << >>
    /\ cur' = Head(backlog) /\ backlog' = Tail(backlog)
    /\ spc' = "header" /\ want' = Mine.header.size /\ buf' = << >>
    /\ UNCHANGED <<packed, message, header, read, buffers, outcome, printed>>

-----------------------------------------------------------------------------
(* recvAll *)

(* Broken Recv: the length is not reduced by what has been received. *)
RecvTooMuch(n) ==
    /\ spc \in {"header", "body"} /\ Len(buf) < want
    /\ n <= want /\ read + n <= Len(Stream)
    /\ buf' = buf \o SubSeq(Stream, read + 1, read + n)
    /\ read' = read + n
    /\ UNCHANGED <<packed, message, backlog, spc, cur, want, header, buffers, outcome, printed>>

Recv(n) ==
    /\ spc \in {"header", "body"}
    /\ n <= want - Len(buf)
    /\ read + n <= Len(Stream)
    /\ buf' = buf \o SubSeq(Stream, read + 1, read + n)
    /\ read' = read + n
    /\ UNCHANGED <<packed, message, backlog, spc, cur, want, header, buffers, outcome, printed>>

(* close(client_fd) and on to the next connection. *)
Close(result) ==
    /\ outcome' = [outcome EXCEPT ![cur] = result]
    /\ spc' = "accept" /\ cur' = NoConn
    /\ want' = 0 /\ buf' = << >> /\ header' = << >> /\ read' = 0
    /\ UNCHANGED <<packed, message, backlog>>

(* Broken RecvFails: bodyData is not deleted. *)
RecvFailsLeaks ==
    /\ spc \in {"header", "body"} /\ Len(buf) < want
    /\ UNCHANGED buffers
    /\ Close("lost") /\ UNCHANGED printed

(* The stream ends, by an error or as its client closes. *)
RecvFails ==
    /\ spc \in {"header", "body"} /\ Len(buf) < want
    /\ buffers' = IF spc = "body" THEN buffers - 1 ELSE buffers
    /\ Close("lost") /\ UNCHANGED printed

-----------------------------------------------------------------------------
(* What the server does with what it received. *)

Received(state) == spc = state /\ Len(buf) = want

Parsed == Extract(buf, Mine.header)
GoodMagic == Parsed.magic = <<65, 66>>

BadMagic ==
    /\ Received("header") /\ ~GoodMagic
    /\ Close("magic") /\ UNCHANGED <<buffers, printed>>

HeaderDone ==
    /\ Received("header") /\ GoodMagic
    /\ header' = Parsed
    /\ spc' = "body" /\ want' = Number(Parsed.bodyLen) /\ buf' = << >>
    /\ buffers' = buffers + 1
    /\ UNCHANGED <<packed, message, backlog, cur, read, outcome, printed>>

(* Broken ChecksumHolds: only 16 bits of the field are converted. *)
ChecksumHoldsShort == Number(header.checksum) % 65536 = calculateChecksum(buf)

ChecksumHolds == Number(header.checksum) = calculateChecksum(buf)

(* Broken ChecksumFails: the server leaves its loop. *)
ChecksumFailsReturns ==
    /\ Received("body") /\ ~ChecksumHolds
    /\ outcome' = [outcome EXCEPT ![cur] = "checksum"]
    /\ spc' = "end" /\ cur' = NoConn
    /\ UNCHANGED <<packed, message, backlog, want, buf, header, read, buffers, printed>>

ChecksumFails ==
    /\ Received("body") /\ ~ChecksumHolds
    /\ buffers' = buffers - 1
    /\ Close("checksum") /\ UNCHANGED printed

(* bodyData is not deleted here. *)
TooSmall ==
    /\ Received("body") /\ ChecksumHolds
    /\ want < Mine.body.size
    /\ Close("small") /\ UNCHANGED <<buffers, printed>>

PrintPacket ==
    /\ Received("body") /\ ChecksumHolds
    /\ want >= Mine.body.size
    /\ printed' = [printed EXCEPT ![cur] =
                     [header |-> header, body |-> Extract(buf, Mine.body)]]
    /\ buffers' = buffers - 1
    /\ Close("printed")

Idle == (\A c \in Conn : outcome[c] # "none") /\ UNCHANGED vars

ServerStep ==
    \/ Accept \/ BadMagic \/ HeaderDone
    \/ ChecksumFails \/ TooSmall \/ PrintPacket

(* What a client makes recv return. *)
StreamStep ==
    \/ RecvFails
    \/ cur # NoConn /\ \E n \in 1 .. Len(Stream) : Recv(n)

Next == (\E c \in Conn : Connect(c)) \/ ServerStep \/ StreamStep \/ Idle

Spec == Init /\ [][Next]_vars

(* The server runs.  recv has no timeout: a client may stay and be silent. *)
FairSpec == Spec /\ WF_vars(ServerStep)

-----------------------------------------------------------------------------
(* The domains of the variables; recvAll never writes past the size it was *)
(* given.                                                                  *)
TypeOK ==
    /\ packed \in Packings /\ message \in [Conn -> Message] /\ backlog \in Seq(Conn)
    /\ spc \in {"accept", "header", "body"} /\ cur \in Conn \cup {NoConn}
    /\ want \in Nat /\ buf \in Seq(0 .. 255) /\ Len(buf) <= want
    /\ read \in Nat /\ buffers \in Nat
    /\ outcome \in [Conn -> {"none", "lost", "magic", "checksum", "small", "printed"}]
    /\ DOMAIN printed = Conn

(* A message is whole when its header describes its body. *)
Intact(m) ==
    LET body == Serialize(Fields[m].body, Layout[m].body) IN
    /\ Fields[m].header.magic = <<65, 66>>
    /\ Number(Fields[m].header.bodyLen) = Layout[m].body.size
    /\ Number(Fields[m].header.checksum) = calculateChecksum(body)

(* However the stream is cut into portions, a server that saw all of a     *)
(* message prints it exactly when it is whole and laid out as the server's *)
(* structs are, and prints the very fields that were sent.                 *)
Verdict ==
    \A c \in Conn : outcome[c] \notin {"none", "lost"} =>
        LET m == message[c] IN
        /\ outcome[c] = "printed" <=> Intact(m) /\ Layout[m] = Mine
        /\ outcome[c] = "printed" => printed[c] = Fields[m]

(* Between two connections only the bodies that were too small are left in *)
(* memory: every other path deletes its buffer.                            *)
BuffersFreed ==
    spc = "accept" => buffers = Cardinality({c \in Conn : outcome[c] = "small"})

(* A connection in the backlog is served and closed, whatever the clients  *)
(* before it send; only one of them that stays silent for ever with less   *)
(* sent than the server asked for can keep it waiting.                     *)
EveryoneServed ==
    \A c \in Conn :
        (\E i \in DOMAIN backlog : backlog[i] = c) ~>
            (outcome[c] # "none" \/ \E d \in Conn : [](cur = d /\ Len(buf) < want))
=============================================================================
