--------------------------- MODULE FramingProofs ---------------------------
(***************************************************************************)
(* The byte order servers, for any messages and however the streams are    *)
(* cut: what is left in memory, and what is printed.  Each theorem is      *)
(* about the program by itself and as Playground runs it.                  *)
(*                                                                         *)
(* What is printed depends on bytes: the lemmas about layouts say which    *)
(* fields a server reads from a packet that was laid out as its structs    *)
(* are (SameLayout) and what it takes for the length of the body in one    *)
(* that was not (OtherLayout).                                             *)
(***************************************************************************)
EXTENDS Playground, SequenceTheorems, FiniteSetTheorems, TLAPS

LEMMA FramingStep == [PlayNext]_playVars => [Next]_vars
  <1> SUFFICES ASSUME [PlayNext]_playVars PROVE [Next]_vars
    OBVIOUS
  <1>1. CASE InFraming(Next)
    BY <1>1 DEF InFraming
  <1>2. CASE UNCHANGED framingVars
    BY <1>2 DEF framingVars
  <1> QED
    BY <1>1, <1>2 DEF PlayNext, InBatch, InAsync, InMove, InClient, playVars

-----------------------------------------------------------------------------
Results == {"none", "lost", "magic", "checksum", "small", "printed"}

Small == {c \in Conn : outcome[c] = "small"}

(* A connection is at one place at a time: it waits in the backlog, is the *)
(* one that is served, or has its outcome.                                 *)
ServedInv ==
    /\ spc \in {"accept", "header", "body"}
    /\ outcome \in [Conn -> Results] /\ backlog \in Seq(Conn)
    /\ \A i, j \in DOMAIN backlog : backlog[i] = backlog[j] => i = j
    /\ \A i \in DOMAIN backlog : outcome[backlog[i]] = "none" /\ backlog[i] # cur
    /\ IF spc = "accept" THEN cur = NoConn ELSE cur \in Conn /\ outcome[cur] = "none"

BuffersInv ==
    /\ ServedInv
    /\ buffers = Cardinality(Small) + IF spc = "body" THEN 1 ELSE 0

LEMMA SmallIsFinite ==
    ASSUME IsFiniteSet(Conn)
    PROVE  IsFiniteSet(Small) /\ Cardinality(Small) \in Nat
  BY FS_Subset, FS_CardinalityType DEF Small

LEMMA Closed ==
    ASSUME ServedInv, spc # "accept", NEW result \in Results, Close(result)
    PROVE  /\ ServedInv' /\ spc' = "accept"
           /\ outcome' = [outcome EXCEPT ![cur] = result] /\ cur \in Conn /\ outcome[cur] = "none"
  <1>1. /\ cur \in Conn /\ outcome[cur] = "none" /\ cur' = NoConn /\ spc' = "accept"
        /\ outcome' = [outcome EXCEPT ![cur] = result] /\ backlog' = backlog
    BY DEF Close, ServedInv
  <1>2. \A i \in DOMAIN backlog : backlog[i] \in Conn /\ backlog[i] # cur /\ backlog[i] # NoConn
    BY FramingAssumption DEF ServedInv
  <1> QED
    BY <1>1, <1>2 DEF ServedInv

LEMMA ServedStep ==
    ASSUME ServedInv, [Next]_vars
    PROVE  ServedInv'
  <1>1. ASSUME NEW c \in Conn, Connect(c) PROVE ServedInv'
    <2>1. /\ backlog' = Append(backlog, c) /\ c # cur /\ outcome[c] = "none"
          /\ \A i \in DOMAIN backlog : backlog[i] # c
          /\ UNCHANGED <<spc, cur, outcome>>
      BY <1>1 DEF Connect
    <2>2. /\ Len(backlog) \in Nat /\ DOMAIN backlog = 1..Len(backlog) /\ backlog' \in Seq(Conn)
          /\ DOMAIN backlog' = 1..(Len(backlog) + 1) /\ backlog'[Len(backlog) + 1] = c
          /\ \A i \in 1..Len(backlog) : backlog'[i] = backlog[i]
      BY <2>1, AppendProperties DEF ServedInv
    <2>3. \A i, j \in DOMAIN backlog' : backlog'[i] = backlog'[j] => i = j
      BY <2>1, <2>2 DEF ServedInv
    <2>4. \A i \in DOMAIN backlog' : outcome[backlog'[i]] = "none" /\ backlog'[i] # cur
      BY <2>1, <2>2 DEF ServedInv
    <2> QED
      BY <2>1, <2>2, <2>3, <2>4 DEF ServedInv
  <1>2. CASE Accept
    <2>1. /\ spc = "accept" /\ backlog # << >> /\ cur' = Head(backlog) /\ backlog' = Tail(backlog)
          /\ spc' = "header" /\ UNCHANGED outcome
      BY <1>2 DEF Accept
    <2>2. /\ Len(backlog) \in Nat /\ Len(backlog) > 0 /\ DOMAIN backlog = 1..Len(backlog)
          /\ cur' = backlog[1] /\ cur' \in Conn /\ backlog' \in Seq(Conn)
          /\ DOMAIN backlog' = 1..(Len(backlog) - 1)
          /\ \A i \in 1..(Len(backlog) - 1) : backlog'[i] = backlog[i + 1]
      BY <2>1, HeadTailProperties DEF ServedInv
    <2>3. \A i, j \in DOMAIN backlog' : backlog'[i] = backlog'[j] => i = j
      <3> SUFFICES ASSUME NEW i \in DOMAIN backlog', NEW j \in DOMAIN backlog', backlog'[i] = backlog'[j]
                   PROVE  i = j
        OBVIOUS
      <3>1. i + 1 \in DOMAIN backlog /\ j + 1 \in DOMAIN backlog /\ backlog[i + 1] = backlog[j + 1]
        BY <2>2
      <3>2. i + 1 = j + 1
        BY <3>1 DEF ServedInv
      <3> QED
        BY <2>2, <3>2
    <2>4. \A i \in DOMAIN backlog' : outcome[backlog'[i]] = "none" /\ backlog'[i] # cur'
      <3> SUFFICES ASSUME NEW i \in DOMAIN backlog' PROVE outcome[backlog'[i]] = "none" /\ backlog'[i] # cur'
        OBVIOUS
      <3>1. /\ i + 1 \in DOMAIN backlog /\ 1 \in DOMAIN backlog /\ i + 1 # 1
            /\ backlog'[i] = backlog[i + 1]
        BY <2>2
      <3> QED
        BY <2>2, <3>1 DEF ServedInv
    <2>5. outcome[cur'] = "none"
      BY <2>2 DEF ServedInv
    <2> QED
      BY <2>1, <2>2, <2>3, <2>4, <2>5 DEF ServedInv
  <1>3. CASE HeaderDone
    BY <1>3 DEF HeaderDone, Received, ServedInv
  <1>4. ASSUME NEW n, Recv(n) PROVE ServedInv'
    BY <1>4 DEF Recv, ServedInv
  <1>5. CASE RecvFails \/ BadMagic \/ ChecksumFails \/ TooSmall \/ PrintPacket
    BY <1>5, Closed DEF RecvFails, BadMagic, ChecksumFails, TooSmall, PrintPacket, Received,
       Results
  <1>6. CASE Idle \/ UNCHANGED vars
    BY <1>6 DEF Idle, vars, ServedInv
  <1> QED
    BY <1>1, <1>2, <1>3, <1>4, <1>5, <1>6 DEF Next, ServerStep, StreamStep

LEMMA BuffersStep ==
    ASSUME IsFiniteSet(Conn), BuffersInv, [Next]_vars
    PROVE  BuffersInv'
  <1> USE DEF BuffersInv
  <1> ServedInv'
    BY ServedStep
  <1>1. ASSUME NEW c \in Conn, Connect(c) PROVE BuffersInv'
    BY <1>1 DEF Connect, Small
  <1>2. CASE Accept
    BY <1>2, SmallIsFinite DEF Accept, Small
  <1>3. CASE HeaderDone
    BY <1>3, SmallIsFinite DEF HeaderDone, Received, ServedInv, Small
  <1>4. ASSUME NEW n, Recv(n) PROVE BuffersInv'
    BY <1>4 DEF Recv, ServedInv, Small
  <1>5. ASSUME NEW result \in Results \ {"small"}, spc # "accept", Close(result),
               buffers' = IF spc = "body" THEN buffers - 1 ELSE buffers
        PROVE  BuffersInv'
    <2>1. /\ ServedInv' /\ spc' = "accept"
          /\ outcome' = [outcome EXCEPT ![cur] = result] /\ outcome[cur] = "none"
      BY <1>5, Closed
    <2>2. Small' = Small
      BY <2>1 DEF Small, ServedInv
    <2> QED
      BY <1>5, <2>1, <2>2, SmallIsFinite
  <1>6. CASE RecvFails
    BY <1>5, <1>6 DEF RecvFails, Results
  <1>7. CASE BadMagic
    BY <1>5, <1>7 DEF BadMagic, Received, Results
  <1>8. CASE ChecksumFails \/ PrintPacket
    BY <1>5, <1>8 DEF ChecksumFails, PrintPacket, Received, Results
  <1>9. CASE TooSmall
    <2>1. spc = "body" /\ Close("small") /\ buffers' = buffers
      BY <1>9 DEF TooSmall, Received
    <2>2. /\ ServedInv' /\ spc' = "accept" /\ cur \in Conn
          /\ outcome' = [outcome EXCEPT ![cur] = "small"] /\ outcome[cur] = "none"
      BY <2>1, Closed DEF Results
    <2>3. Small' = Small \cup {cur} /\ cur \notin Small
      BY <2>2 DEF Small, ServedInv
    <2>4. Cardinality(Small') = Cardinality(Small) + 1
      BY <2>3, SmallIsFinite, FS_AddElement
    <2> QED
      BY <2>1, <2>2, <2>4
  <1>10. CASE Idle \/ UNCHANGED vars
    BY <1>10 DEF Idle, vars, ServedInv, Small
  <1> QED
    BY <1>1, <1>2, <1>3, <1>4, <1>6, <1>7, <1>8, <1>9, <1>10 DEF Next, ServerStep, StreamStep

(* Between two connections only the bodies that were too small are left in *)
(* memory (the delete[] of each path of the servers' loops).               *)
THEOREM BuffersAreFreed ==
    ASSUME IsFiniteSet(Conn)
    PROVE  (Spec => []BuffersFreed) /\ (PlaySpec => []BuffersFreed)
  <1>1. Init \/ NoFraming => BuffersInv
    <2> SUFFICES ASSUME Init \/ NoFraming PROVE BuffersInv
      OBVIOUS
    <2>1. /\ backlog = << >> /\ spc = "accept" /\ cur = NoConn /\ buffers = 0
          /\ outcome = [c \in Conn |-> "none"]
      BY DEF Init, NoFraming
    <2>2. Small = {}
      BY <2>1 DEF Small
    <2> QED
      BY <2>1, <2>2, FS_EmptySet, EmptySeq DEF BuffersInv, ServedInv, Results
  <1>2. PlayInit => BuffersInv
    BY <1>1 DEF PlayInit
  <1>3. BuffersInv /\ [PlayNext]_playVars => BuffersInv'
    BY BuffersStep, FramingStep
  <1>4. BuffersInv => BuffersFreed
    BY SmallIsFinite DEF BuffersInv, BuffersFreed, Small
  <1>5. Spec => []BuffersFreed
    BY <1>1, <1>4, BuffersStep, PTL DEF Spec
  <1>6. PlaySpec => []BuffersFreed
    BY <1>2, <1>3, <1>4, PTL DEF PlaySpec
  <1> QED
    BY <1>5, <1>6

-----------------------------------------------------------------------------
(* Bytes and layouts. *)
Byte == 0 .. 255

LEMMA NumberOfFour ==
    ASSUME NEW f \in [1 .. 4 -> Byte]
    PROVE  /\ Number(f) = 16777216 * f[1] + 65536 * f[2] + 256 * f[3] + f[4]
           /\ Number(f) \in Nat
  <1> DEFINE n == CHOOSE n : n = [i \in 0 .. Len(f) |-> IF i = 0 THEN 0 ELSE 256 * n[i - 1] + f[i]]
             g == [i \in 0 .. 4 |->
                     IF i = 0 THEN 0 ELSE IF i = 1 THEN f[1] ELSE IF i = 2 THEN 256 * f[1] + f[2]
                     ELSE IF i = 3 THEN 256 * (256 * f[1] + f[2]) + f[3]
                     ELSE 256 * (256 * (256 * f[1] + f[2]) + f[3]) + f[4]]
  <1>1. Len(f) = 4
    BY DEF Byte
  <1>2. f[1] \in Nat /\ f[2] \in Nat /\ f[3] \in Nat /\ f[4] \in Nat
    BY DEF Byte
  <1>3. \A i \in 0 .. 4 : g[i] = IF i = 0 THEN 0 ELSE 256 * g[i - 1] + f[i]
    BY <1>2
  <1>4. g = [i \in 0 .. 4 |-> IF i = 0 THEN 0 ELSE 256 * g[i - 1] + f[i]]
    BY <1>3
  <1>5. n = [i \in 0 .. 4 |-> IF i = 0 THEN 0 ELSE 256 * n[i - 1] + f[i]]
    BY <1>1, <1>4
  <1>6. Number(f) = n[4]
    BY <1>1 DEF Number
  <1> HIDE DEF n
  <1>7. n[0] = 0 /\ n[1] = 256 * n[0] + f[1] /\ n[2] = 256 * n[1] + f[2] /\ n[3] = 256 * n[2] + f[3]
        /\ n[4] = 256 * n[3] + f[4]
    BY <1>5
  <1> QED
    BY <1>2, <1>6, <1>7

LEMMA SmallNumber ==
    ASSUME NEW f \in [1 .. 4 -> Byte], Number(f) <= 24
    PROVE  f[1] = 0 /\ f[2] = 0 /\ f[3] = 0 /\ f[4] = Number(f)
  <1>2. f[1] \in 0 .. 255 /\ f[2] \in 0 .. 255 /\ f[3] \in 0 .. 255 /\ f[4] \in 0 .. 255
    BY DEF Byte
  <1>3. 16777216 * f[1] + 65536 * f[2] + 256 * f[3] + f[4] <= 24
    BY NumberOfFour
  <1>4. f[1] = 0 /\ f[2] = 0 /\ f[3] = 0
    <2>1. PICK a, b, c, d : a = f[1] /\ b = f[2] /\ c = f[3] /\ d = f[4]
      OBVIOUS
    <2>2. a = 0 /\ b = 0 /\ c = 0
      <3>1. a \in 0 .. 255 /\ b \in 0 .. 255 /\ c \in 0 .. 255 /\ d \in 0 .. 255
            /\ 16777216 * a + 65536 * b + 256 * c + d <= 24
        BY <1>2, <1>3, <2>1
      <3> QED
        BY <3>1
    <2> QED
      BY <2>1, <2>2
  <1> QED
    BY <1>2, <1>4, NumberOfFour

LEMMA LargeNumber ==
    ASSUME NEW f \in [1 .. 4 -> Byte], f[1] = 0, f[2] >= 2
    PROVE  Number(f) >= 131072
  <1>1. Number(f) = 65536 * f[2] + 256 * f[3] + f[4]
    <2>1. f[2] \in Nat /\ f[3] \in Nat /\ f[4] \in Nat
      BY DEF Byte
    <2> QED
      BY <2>1, NumberOfFour
  <1>2. f[2] \in Nat /\ f[3] \in Nat /\ f[4] \in Nat
    BY DEF Byte
  <1>3. ASSUME NEW b \in Nat, NEW c \in Nat, NEW d \in Nat, b >= 2
        PROVE  65536 * b + 256 * c + d >= 131072
    BY <1>3
  <1> QED
    BY <1>1, <1>2, <1>3

(* Every field has its own bytes. *)
Fitted(layout) ==
    /\ layout.size \in Nat /\ DOMAIN layout.at \subseteq DOMAIN Width
    /\ \A f \in DOMAIN layout.at :
          layout.at[f] \in Nat /\ Width[f] \in Nat /\ layout.at[f] + Width[f] <= layout.size
    /\ \A f, g \in DOMAIN layout.at :
          f # g => layout.at[f] + Width[f] <= layout.at[g] \/ layout.at[g] + Width[g] <= layout.at[f]

HeaderFields == {"magic", "version", "command", "bodyLen", "checksum"}
BodyFields == {"seqNum", "timestamp", "data"}

LEMMA Widths ==
    /\ DOMAIN Width = HeaderFields \cup BodyFields
    /\ Width["magic"] = 2 /\ Width["version"] = 2 /\ Width["command"] = 2
    /\ Width["bodyLen"] = 4 /\ Width["checksum"] = 4
    /\ Width["seqNum"] = 4 /\ Width["timestamp"] = 8 /\ Width["data"] = 4
  BY DEF Width, HeaderFields, BodyFields

LEMMA Offsets ==
    /\ DOMAIN Contiguous.header.at = HeaderFields /\ DOMAIN Contiguous.body.at = BodyFields
    /\ DOMAIN Padded.header.at = HeaderFields /\ DOMAIN Padded.body.at = BodyFields
    /\ Contiguous.header.size = 14 /\ Contiguous.body.size = 16
    /\ Padded.header.size = 16 /\ Padded.body.size = 24
    /\ Contiguous.header.at["magic"] = 0 /\ Contiguous.header.at["version"] = 2
    /\ Contiguous.header.at["command"] = 4 /\ Contiguous.header.at["bodyLen"] = 6
    /\ Contiguous.header.at["checksum"] = 10
    /\ Padded.header.at["magic"] = 0 /\ Padded.header.at["version"] = 2
    /\ Padded.header.at["command"] = 4 /\ Padded.header.at["bodyLen"] = 8
    /\ Padded.header.at["checksum"] = 12
    /\ Contiguous.body.at["seqNum"] = 0 /\ Contiguous.body.at["timestamp"] = 4
    /\ Contiguous.body.at["data"] = 12
    /\ Padded.body.at["seqNum"] = 0 /\ Padded.body.at["timestamp"] = 8
    /\ Padded.body.at["data"] = 16
  BY DEF Contiguous, Padded, HeaderFields, BodyFields

LEMMA LayoutsFit ==
    /\ Fitted(Contiguous.header) /\ Fitted(Contiguous.body)
    /\ Fitted(Padded.header) /\ Fitted(Padded.body)
  <1>1. Fitted(Contiguous.header)
    BY Widths, Offsets DEF Fitted, HeaderFields
  <1>2. Fitted(Contiguous.body)
    BY Widths, Offsets DEF Fitted, BodyFields
  <1>3. Fitted(Padded.header)
    BY Widths, Offsets DEF Fitted, HeaderFields
  <1>4. Fitted(Padded.body)
    BY Widths, Offsets DEF Fitted, BodyFields
  <1> QED
    BY <1>1, <1>2, <1>3, <1>4

(* Fields that can be put into a layout. *)
Filled(fields, layout) ==
    DOMAIN fields = DOMAIN layout.at /\ \A f \in DOMAIN fields : fields[f] \in [1 .. Width[f] -> Byte]

LEMMA SerializeBytes ==
    ASSUME NEW layout, NEW fields, Fitted(layout), Filled(fields, layout)
    PROVE  /\ Serialize(fields, layout) \in [1 .. layout.size -> Byte]
           /\ \A f \in DOMAIN fields : \A k \in 1 .. Width[f] :
                 Serialize(fields, layout)[layout.at[f] + k] = fields[f][k]
           /\ \A i \in 1 .. layout.size :
                 (\A f \in DOMAIN fields : ~(layout.at[f] < i /\ i <= layout.at[f] + Width[f])) =>
                     Serialize(fields, layout)[i] = 0
  <1> DEFINE here(i) == {f \in DOMAIN layout.at : layout.at[f] < i /\ i <= layout.at[f] + Width[f]}
             byte(i) == IF here(i) = {} THEN 0
                        ELSE LET f == CHOOSE g \in here(i) : TRUE IN fields[f][i - layout.at[f]]
  <1>1. Serialize(fields, layout) = [i \in 1 .. layout.size |-> byte(i)]
    BY DEF Serialize
  <1>2. ASSUME NEW i \in Nat, NEW f \in here(i)
        PROVE  here(i) = {f} /\ i - layout.at[f] \in 1 .. Width[f] /\ byte(i) = fields[f][i - layout.at[f]]
    <2>1. \A g \in here(i) : g = f
      BY DEF Fitted
    <2>2. (CHOOSE g \in here(i) : TRUE) = f
      BY <2>1
    <2>3. i - layout.at[f] \in 1 .. Width[f]
      BY DEF Fitted
    <2> QED
      BY <2>1, <2>2, <2>3
  <1>3. ASSUME NEW i \in 1 .. layout.size PROVE byte(i) \in Byte
    <2>1. CASE here(i) = {}
      <3>1. byte(i) = 0
        BY <2>1
      <3> HIDE DEF byte
      <3> QED
        BY <3>1 DEF Byte
    <2>2. CASE here(i) # {}
      <3>1. PICK f \in here(i) : TRUE
        BY <2>2
      <3>2. i \in Nat
        BY DEF Fitted
      <3>3. i - layout.at[f] \in 1 .. Width[f] /\ byte(i) = fields[f][i - layout.at[f]]
        BY <1>2, <3>2
      <3>4. fields[f] \in [1 .. Width[f] -> Byte]
        BY DEF Filled
      <3> QED
        BY <3>3, <3>4
    <2> QED
      BY <2>1, <2>2
  <1>4. ASSUME NEW f \in DOMAIN fields, NEW k \in 1 .. Width[f]
        PROVE  Serialize(fields, layout)[layout.at[f] + k] = fields[f][k]
    <2>1. PICK i : i = layout.at[f] + k
      OBVIOUS
    <2>2. i \in 1 .. layout.size /\ i \in Nat /\ i - layout.at[f] = k
      BY <2>1 DEF Filled, Fitted
    <2>3. f \in here(i)
      BY <2>1 DEF Filled, Fitted
    <2>4. byte(i) = fields[f][k]
      BY <1>2, <2>2, <2>3
    <2> HIDE DEF byte, here
    <2> QED
      BY <1>1, <2>1, <2>2, <2>4
  <1>5. ASSUME NEW i \in 1 .. layout.size,
               \A f \in DOMAIN fields : ~(layout.at[f] < i /\ i <= layout.at[f] + Width[f])
        PROVE  Serialize(fields, layout)[i] = 0
    <2>1. here(i) = {}
      BY <1>5 DEF Filled
    <2> QED
      BY <1>1, <2>1
  <1>6. Serialize(fields, layout) \in [1 .. layout.size -> Byte]
    <2> HIDE DEF byte
    <2> QED
      BY <1>1, <1>3
  <1> QED
    BY <1>4, <1>5, <1>6

(* A field is read from its bytes. *)
LEMMA Extracted ==
    ASSUME NEW layout, Fitted(layout), NEW n \in Nat, layout.size <= n, NEW bytes \in [1 .. n -> Byte]
    PROVE  /\ DOMAIN Extract(bytes, layout) = DOMAIN layout.at
           /\ \A f \in DOMAIN layout.at :
                 /\ Extract(bytes, layout)[f] \in [1 .. Width[f] -> Byte]
                 /\ \A k \in 1 .. Width[f] : Extract(bytes, layout)[f][k] = bytes[layout.at[f] + k]
  <1>1. /\ DOMAIN Extract(bytes, layout) = DOMAIN layout.at
        /\ \A f \in DOMAIN layout.at :
              Extract(bytes, layout)[f] = SubSeq(bytes, layout.at[f] + 1, layout.at[f] + Width[f])
    BY DEF Extract
  <1>2. ASSUME NEW f \in DOMAIN layout.at
        PROVE  /\ Extract(bytes, layout)[f] \in [1 .. Width[f] -> Byte]
               /\ \A k \in 1 .. Width[f] : Extract(bytes, layout)[f][k] = bytes[layout.at[f] + k]
    <2> DEFINE a == layout.at[f]
               w == Width[f]
    <2>1. a \in Nat /\ w \in Nat /\ a + w <= n
      BY DEF Fitted
    <2> HIDE DEF a, w
    <2>2. SubSeq(bytes, a + 1, a + w) = [k \in 1 .. w |-> bytes[a + k]]
      BY <2>1
    <2>3. \A k \in 1 .. w : bytes[a + k] \in Byte
      BY <2>1
    <2> QED
      BY <1>1, <2>2, <2>3 DEF a, w
  <1> QED
    BY <1>1, <1>2

LEMMA RoundTrip ==
    ASSUME NEW layout, NEW fields, Fitted(layout), Filled(fields, layout),
           fields = [f \in DOMAIN fields |-> fields[f]]
    PROVE  Extract(Serialize(fields, layout), layout) = fields
  <1> DEFINE bytes == Serialize(fields, layout)
  <1>1. /\ bytes \in [1 .. layout.size -> Byte] /\ layout.size \in Nat
        /\ \A f \in DOMAIN fields : \A k \in 1 .. Width[f] : bytes[layout.at[f] + k] = fields[f][k]
    BY SerializeBytes DEF Fitted
  <1> HIDE DEF bytes
  <1>2. /\ DOMAIN Extract(bytes, layout) = DOMAIN layout.at
        /\ \A f \in DOMAIN layout.at :
              /\ Extract(bytes, layout)[f] \in [1 .. Width[f] -> Byte]
              /\ \A k \in 1 .. Width[f] : Extract(bytes, layout)[f][k] = bytes[layout.at[f] + k]
    BY <1>1, Extracted
  <1>3. Extract(bytes, layout) = [f \in DOMAIN layout.at |-> Extract(bytes, layout)[f]]
    BY DEF Extract
  <1>4. ASSUME NEW f \in DOMAIN fields PROVE Extract(bytes, layout)[f] = fields[f]
    <2>1. /\ fields[f] \in [1 .. Width[f] -> Byte]
          /\ Extract(bytes, layout)[f] \in [1 .. Width[f] -> Byte]
      BY <1>2 DEF Filled
    <2>2. \A k \in 1 .. Width[f] : Extract(bytes, layout)[f][k] = fields[f][k]
      BY <1>1, <1>2 DEF Filled
    <2> HIDE DEF bytes
    <2>3. /\ fields[f] = [k \in 1 .. Width[f] |-> fields[f][k]]
          /\ Extract(bytes, layout)[f] = [k \in 1 .. Width[f] |-> Extract(bytes, layout)[f][k]]
      BY <2>1
    <2> QED
      BY <2>2, <2>3, Zenon
  <1>5. DOMAIN fields = DOMAIN layout.at
    BY DEF Filled
  <1> QED
    BY <1>3, <1>4, <1>5 DEF bytes

-----------------------------------------------------------------------------
(* The structs of the server are laid out as one or the other client does. *)
LEMMA Members ==
    /\ ToSet(HeaderStruct) = HeaderFields /\ ToSet(BodyStruct) = BodyFields
    /\ DOMAIN HeaderStruct = 1 .. 5 /\ Len(HeaderStruct) = 5
    /\ HeaderStruct[1] = "magic" /\ HeaderStruct[2] = "version" /\ HeaderStruct[3] = "command"
    /\ HeaderStruct[4] = "bodyLen" /\ HeaderStruct[5] = "checksum"
    /\ DOMAIN BodyStruct = 1 .. 3 /\ Len(BodyStruct) = 3
    /\ BodyStruct[1] = "seqNum" /\ BodyStruct[2] = "timestamp" /\ BodyStruct[3] = "data"
  <1>1. DOMAIN HeaderStruct = 1 .. 5 /\ DOMAIN BodyStruct = 1 .. 3
    BY DEF HeaderStruct, BodyStruct
  <1>2. /\ HeaderStruct[1] = "magic" /\ HeaderStruct[2] = "version" /\ HeaderStruct[3] = "command"
        /\ HeaderStruct[4] = "bodyLen" /\ HeaderStruct[5] = "checksum"
        /\ BodyStruct[1] = "seqNum" /\ BodyStruct[2] = "timestamp" /\ BodyStruct[3] = "data"
    BY DEF HeaderStruct, BodyStruct
  <1>3. ToSet(HeaderStruct) = HeaderFields
    <2>1. \A i \in 1 .. 5 : i = 1 \/ i = 2 \/ i = 3 \/ i = 4 \/ i = 5
      OBVIOUS
    <2> QED
      BY <1>1, <1>2, <2>1 DEF ToSet, HeaderFields
  <1>4. ToSet(BodyStruct) = BodyFields
    <2>1. \A i \in 1 .. 3 : i = 1 \/ i = 2 \/ i = 3
      OBVIOUS
    <2> QED
      BY <1>1, <1>2, <2>1 DEF ToSet, BodyFields
  <1> QED
    BY <1>1, <1>2, <1>3, <1>4 DEF HeaderStruct, BodyStruct

LEMMA Aligns ==
    /\ Align["magic"] = 1 /\ Align["version"] = 2 /\ Align["command"] = 2
    /\ Align["bodyLen"] = 4 /\ Align["checksum"] = 4
    /\ Align["seqNum"] = 4 /\ Align["timestamp"] = 8 /\ Align["data"] = 1
    /\ Width["magic"] = 2 /\ Width["version"] = 2 /\ Width["command"] = 2
    /\ Width["bodyLen"] = 4 /\ Width["checksum"] = 4
    /\ Width["seqNum"] = 4 /\ Width["timestamp"] = 8 /\ Width["data"] = 4
  BY DEF Align, Width

LEMMA PackedHeader ==
    Struct(HeaderStruct, TRUE) = Contiguous.header
  <1> DEFINE align(f) == IF TRUE THEN 1 ELSE Align[f]
             end == CHOOSE e : e = [i \in 0 .. Len(HeaderStruct) |->
                      IF i = 0 THEN 0
                      ELSE RoundUp(e[i - 1], align(HeaderStruct[i])) + Width[HeaderStruct[i]]]
             g == [i \in 0 .. 5 |-> IF i = 0 THEN 0 ELSE IF i = 1 THEN 2 ELSE IF i = 2 THEN 4
                                    ELSE IF i = 3 THEN 6 ELSE IF i = 4 THEN 10 ELSE 14]
             widest == CHOOSE a \in {align(f) : f \in ToSet(HeaderStruct)} :
                              \A f \in ToSet(HeaderStruct) : align(f) <= a
             place(f) == CHOOSE j \in DOMAIN HeaderStruct : HeaderStruct[j] = f
             offsets == [f \in ToSet(HeaderStruct) |-> RoundUp(end[place(f) - 1], align(f))]
  <1>1. /\ align("magic") = 1 /\ align("version") = 1 /\ align("command") = 1
        /\ align("bodyLen") = 1 /\ align("checksum") = 1
    BY Members, Aligns DEF HeaderFields
  <1>2. /\ RoundUp(0, 1) = 0
        /\ RoundUp(2, 1) = 2
        /\ RoundUp(4, 1) = 4
        /\ RoundUp(6, 1) = 6
        /\ RoundUp(10, 1) = 10
        /\ RoundUp(14, 1) = 14
    BY DEF RoundUp
  <1> HIDE DEF align
  <1>3. /\ g[0] = 0
        /\ g[1] = RoundUp(g[0], align(HeaderStruct[1])) + Width[HeaderStruct[1]]
        /\ g[2] = RoundUp(g[1], align(HeaderStruct[2])) + Width[HeaderStruct[2]]
        /\ g[3] = RoundUp(g[2], align(HeaderStruct[3])) + Width[HeaderStruct[3]]
        /\ g[4] = RoundUp(g[3], align(HeaderStruct[4])) + Width[HeaderStruct[4]]
        /\ g[5] = RoundUp(g[4], align(HeaderStruct[5])) + Width[HeaderStruct[5]]
    BY Members, Aligns, <1>1, <1>2
  <1>4. \A i \in 0 .. 5 : i = 0 \/ i = 1 \/ i = 2 \/ i = 3 \/ i = 4 \/ i = 5
    OBVIOUS
  <1> HIDE DEF g
  <1>5. g = [i \in 0 .. 5 |-> IF i = 0 THEN 0
                              ELSE RoundUp(g[i - 1], align(HeaderStruct[i])) + Width[HeaderStruct[i]]]
    <2>1. \A i \in 0 .. 5 : g[i] = IF i = 0 THEN 0
                                   ELSE RoundUp(g[i - 1], align(HeaderStruct[i])) + Width[HeaderStruct[i]]
      BY <1>3, <1>4
    <2>2. g = [i \in 0 .. 5 |-> g[i]]
      BY DEF g
    <2> QED
      BY <2>1, <2>2, Zenon
  <1>6. end = [i \in 0 .. 5 |-> IF i = 0 THEN 0
                                ELSE RoundUp(end[i - 1], align(HeaderStruct[i])) + Width[HeaderStruct[i]]]
    BY <1>5, Members
  <1> HIDE DEF end
  <1>7. /\ end[0] = 0
        /\ end[1] = RoundUp(end[0], align(HeaderStruct[1])) + Width[HeaderStruct[1]]
        /\ end[2] = RoundUp(end[1], align(HeaderStruct[2])) + Width[HeaderStruct[2]]
        /\ end[3] = RoundUp(end[2], align(HeaderStruct[3])) + Width[HeaderStruct[3]]
        /\ end[4] = RoundUp(end[3], align(HeaderStruct[4])) + Width[HeaderStruct[4]]
        /\ end[5] = RoundUp(end[4], align(HeaderStruct[5])) + Width[HeaderStruct[5]]
    BY <1>6
  <1>8. end[1] = 2 /\ end[2] = 4 /\ end[3] = 6 /\ end[4] = 10 /\ end[5] = 14
    BY <1>1, <1>2, <1>7, Members, Aligns
  <1>9. widest = 1
    <2>1. {align(f) : f \in ToSet(HeaderStruct)} = {1}
      BY <1>1, Members DEF HeaderFields
    <2>2. \A f \in ToSet(HeaderStruct) : align(f) <= 1
      BY <1>1, Members DEF HeaderFields
    <2>3. \E f \in ToSet(HeaderStruct) : align(f) = 1
      BY <1>1, Members DEF HeaderFields
    <2>4. /\ widest \in {align(f) : f \in ToSet(HeaderStruct)}
          /\ \A f \in ToSet(HeaderStruct) : align(f) <= widest
      BY <2>1, <2>2, <2>3
    <2> QED
      BY <2>1, <2>2, <2>3, <2>4
  <1>10. Struct(HeaderStruct, TRUE) = [at |-> offsets, size |-> RoundUp(end[5], widest)]
    BY Members DEF Struct, align, end
  <1>11. /\ place("magic") = 1 /\ place("version") = 2 /\ place("command") = 3
         /\ place("bodyLen") = 4 /\ place("checksum") = 5
    BY Members
  <1> HIDE DEF widest, place
  <1>12. offsets = [f \in HeaderFields |-> RoundUp(end[place(f) - 1], align(f))]
    BY Members
  <1> HIDE DEF offsets
  <1>13. /\ offsets["magic"] = 0 /\ offsets["version"] = 2 /\ offsets["command"] = 4
         /\ offsets["bodyLen"] = 6 /\ offsets["checksum"] = 10
    BY <1>1, <1>2, <1>7, <1>8, <1>11, <1>12 DEF HeaderFields
  <1> QED
    <2>1. RoundUp(end[5], widest) = 14
      BY <1>2, <1>8, <1>9
    <2>2. Struct(HeaderStruct, TRUE) = [at |-> offsets, size |-> 14]
      BY <1>10, <2>1
    <2>3. offsets = Contiguous.header.at
      <3>1. /\ offsets = [f \in HeaderFields |-> offsets[f]]
            /\ Contiguous.header.at = [f \in HeaderFields |-> Contiguous.header.at[f]]
        BY <1>12 DEF Contiguous, HeaderFields
      <3>2. \A f \in HeaderFields : offsets[f] = Contiguous.header.at[f]
        BY <1>13 DEF Contiguous, HeaderFields
      <3> QED
        BY <3>1, <3>2, Zenon
    <2>4. Contiguous.header = [at |-> Contiguous.header.at, size |-> 14]
      BY DEF Contiguous
    <2> QED
      BY <2>2, <2>3, <2>4

LEMMA AlignedHeader ==
    Struct(HeaderStruct, FALSE) = Padded.header
  <1> DEFINE align(f) == IF FALSE THEN 1 ELSE Align[f]
             end == CHOOSE e : e = [i \in 0 .. Len(HeaderStruct) |->
                      IF i = 0 THEN 0
                      ELSE RoundUp(e[i - 1], align(HeaderStruct[i])) + Width[HeaderStruct[i]]]
             g == [i \in 0 .. 5 |-> IF i = 0 THEN 0 ELSE IF i = 1 THEN 2 ELSE IF i = 2 THEN 4
                                    ELSE IF i = 3 THEN 6 ELSE IF i = 4 THEN 12 ELSE 16]
             widest == CHOOSE a \in {align(f) : f \in ToSet(HeaderStruct)} :
                              \A f \in ToSet(HeaderStruct) : align(f) <= a
             place(f) == CHOOSE j \in DOMAIN HeaderStruct : HeaderStruct[j] = f
             offsets == [f \in ToSet(HeaderStruct) |-> RoundUp(end[place(f) - 1], align(f))]
  <1>1. /\ align("magic") = 1 /\ align("version") = 2 /\ align("command") = 2
        /\ align("bodyLen") = 4 /\ align("checksum") = 4
    BY Members, Aligns DEF HeaderFields
  <1>2. /\ RoundUp(0, 1) = 0
        /\ RoundUp(2, 2) = 2
        /\ RoundUp(4, 2) = 4
        /\ RoundUp(6, 4) = 8
        /\ RoundUp(12, 4) = 12
        /\ RoundUp(16, 4) = 16
    BY DEF RoundUp
  <1> HIDE DEF align
  <1>3. /\ g[0] = 0
        /\ g[1] = RoundUp(g[0], align(HeaderStruct[1])) + Width[HeaderStruct[1]]
        /\ g[2] = RoundUp(g[1], align(HeaderStruct[2])) + Width[HeaderStruct[2]]
        /\ g[3] = RoundUp(g[2], align(HeaderStruct[3])) + Width[HeaderStruct[3]]
        /\ g[4] = RoundUp(g[3], align(HeaderStruct[4])) + Width[HeaderStruct[4]]
        /\ g[5] = RoundUp(g[4], align(HeaderStruct[5])) + Width[HeaderStruct[5]]
    BY Members, Aligns, <1>1, <1>2
  <1>4. \A i \in 0 .. 5 : i = 0 \/ i = 1 \/ i = 2 \/ i = 3 \/ i = 4 \/ i = 5
    OBVIOUS
  <1> HIDE DEF g
  <1>5. g = [i \in 0 .. 5 |-> IF i = 0 THEN 0
                              ELSE RoundUp(g[i - 1], align(HeaderStruct[i])) + Width[HeaderStruct[i]]]
    <2>1. \A i \in 0 .. 5 : g[i] = IF i = 0 THEN 0
                                   ELSE RoundUp(g[i - 1], align(HeaderStruct[i])) + Width[HeaderStruct[i]]
      BY <1>3, <1>4
    <2>2. g = [i \in 0 .. 5 |-> g[i]]
      BY DEF g
    <2> QED
      BY <2>1, <2>2, Zenon
  <1>6. end = [i \in 0 .. 5 |-> IF i = 0 THEN 0
                                ELSE RoundUp(end[i - 1], align(HeaderStruct[i])) + Width[HeaderStruct[i]]]
    BY <1>5, Members
  <1> HIDE DEF end
  <1>7. /\ end[0] = 0
        /\ end[1] = RoundUp(end[0], align(HeaderStruct[1])) + Width[HeaderStruct[1]]
        /\ end[2] = RoundUp(end[1], align(HeaderStruct[2])) + Width[HeaderStruct[2]]
        /\ end[3] = RoundUp(end[2], align(HeaderStruct[3])) + Width[HeaderStruct[3]]
        /\ end[4] = RoundUp(end[3], align(HeaderStruct[4])) + Width[HeaderStruct[4]]
        /\ end[5] = RoundUp(end[4], align(HeaderStruct[5])) + Width[HeaderStruct[5]]
    BY <1>6
  <1>8. end[1] = 2 /\ end[2] = 4 /\ end[3] = 6 /\ end[4] = 12 /\ end[5] = 16
    BY <1>1, <1>2, <1>7, Members, Aligns
  <1>9. widest = 4
    <2>1. {align(f) : f \in ToSet(HeaderStruct)} = {1, 2, 4}
      BY <1>1, Members DEF HeaderFields
    <2>2. \A f \in ToSet(HeaderStruct) : align(f) <= 4
      BY <1>1, Members DEF HeaderFields
    <2>3. \E f \in ToSet(HeaderStruct) : align(f) = 4
      BY <1>1, Members DEF HeaderFields
    <2>4. /\ widest \in {align(f) : f \in ToSet(HeaderStruct)}
          /\ \A f \in ToSet(HeaderStruct) : align(f) <= widest
      BY <2>1, <2>2, <2>3
    <2> QED
      BY <2>1, <2>2, <2>3, <2>4
  <1>10. Struct(HeaderStruct, FALSE) = [at |-> offsets, size |-> RoundUp(end[5], widest)]
    BY Members DEF Struct, align, end
  <1>11. /\ place("magic") = 1 /\ place("version") = 2 /\ place("command") = 3
         /\ place("bodyLen") = 4 /\ place("checksum") = 5
    BY Members
  <1> HIDE DEF widest, place
  <1>12. offsets = [f \in HeaderFields |-> RoundUp(end[place(f) - 1], align(f))]
    BY Members
  <1> HIDE DEF offsets
  <1>13. /\ offsets["magic"] = 0 /\ offsets["version"] = 2 /\ offsets["command"] = 4
         /\ offsets["bodyLen"] = 8 /\ offsets["checksum"] = 12
    BY <1>1, <1>2, <1>7, <1>8, <1>11, <1>12 DEF HeaderFields
  <1> QED
    <2>1. RoundUp(end[5], widest) = 16
      BY <1>2, <1>8, <1>9
    <2>2. Struct(HeaderStruct, FALSE) = [at |-> offsets, size |-> 16]
      BY <1>10, <2>1
    <2>3. offsets = Padded.header.at
      <3>1. /\ offsets = [f \in HeaderFields |-> offsets[f]]
            /\ Padded.header.at = [f \in HeaderFields |-> Padded.header.at[f]]
        BY <1>12 DEF Padded, HeaderFields
      <3>2. \A f \in HeaderFields : offsets[f] = Padded.header.at[f]
        BY <1>13 DEF Padded, HeaderFields
      <3> QED
        BY <3>1, <3>2, Zenon
    <2>4. Padded.header = [at |-> Padded.header.at, size |-> 16]
      BY DEF Padded
    <2> QED
      BY <2>2, <2>3, <2>4

LEMMA PackedBody ==
    Struct(BodyStruct, TRUE) = Contiguous.body
  <1> DEFINE align(f) == IF TRUE THEN 1 ELSE Align[f]
             end == CHOOSE e : e = [i \in 0 .. Len(BodyStruct) |->
                      IF i = 0 THEN 0
                      ELSE RoundUp(e[i - 1], align(BodyStruct[i])) + Width[BodyStruct[i]]]
             g == [i \in 0 .. 3 |-> IF i = 0 THEN 0 ELSE IF i = 1 THEN 4 ELSE IF i = 2 THEN 12
                                    ELSE 16]
             widest == CHOOSE a \in {align(f) : f \in ToSet(BodyStruct)} :
                              \A f \in ToSet(BodyStruct) : align(f) <= a
             place(f) == CHOOSE j \in DOMAIN BodyStruct : BodyStruct[j] = f
             offsets == [f \in ToSet(BodyStruct) |-> RoundUp(end[place(f) - 1], align(f))]
  <1>1. align("seqNum") = 1 /\ align("timestamp") = 1 /\ align("data") = 1
    BY Members, Aligns DEF BodyFields
  <1>2. /\ RoundUp(0, 1) = 0
        /\ RoundUp(4, 1) = 4
        /\ RoundUp(12, 1) = 12
        /\ RoundUp(16, 1) = 16
    BY DEF RoundUp
  <1> HIDE DEF align
  <1>3. /\ g[0] = 0 /\ g[1] = RoundUp(g[0], align(BodyStruct[1])) + Width[BodyStruct[1]]
        /\ g[2] = RoundUp(g[1], align(BodyStruct[2])) + Width[BodyStruct[2]]
        /\ g[3] = RoundUp(g[2], align(BodyStruct[3])) + Width[BodyStruct[3]]
    BY Members, Aligns, <1>1, <1>2
  <1>4. \A i \in 0 .. 3 : i = 0 \/ i = 1 \/ i = 2 \/ i = 3
    OBVIOUS
  <1> HIDE DEF g
  <1>5. g = [i \in 0 .. 3 |-> IF i = 0 THEN 0
                              ELSE RoundUp(g[i - 1], align(BodyStruct[i])) + Width[BodyStruct[i]]]
    <2>1. \A i \in 0 .. 3 : g[i] = IF i = 0 THEN 0
                                   ELSE RoundUp(g[i - 1], align(BodyStruct[i])) + Width[BodyStruct[i]]
      BY <1>3, <1>4
    <2>2. g = [i \in 0 .. 3 |-> g[i]]
      BY DEF g
    <2> QED
      BY <2>1, <2>2, Zenon
  <1>6. end = [i \in 0 .. 3 |-> IF i = 0 THEN 0
                                ELSE RoundUp(end[i - 1], align(BodyStruct[i])) + Width[BodyStruct[i]]]
    BY <1>5, Members
  <1> HIDE DEF end
  <1>7. /\ end[0] = 0
        /\ end[1] = RoundUp(end[0], align(BodyStruct[1])) + Width[BodyStruct[1]]
        /\ end[2] = RoundUp(end[1], align(BodyStruct[2])) + Width[BodyStruct[2]]
        /\ end[3] = RoundUp(end[2], align(BodyStruct[3])) + Width[BodyStruct[3]]
    BY <1>6
  <1>8. end[1] = 4 /\ end[2] = 12 /\ end[3] = 16
    BY <1>1, <1>2, <1>7, Members, Aligns
  <1>9. widest = 1
    <2>1. {align(f) : f \in ToSet(BodyStruct)} = {1}
      BY <1>1, Members DEF BodyFields
    <2>2. \A f \in ToSet(BodyStruct) : align(f) <= 1
      BY <1>1, Members DEF BodyFields
    <2>3. \E f \in ToSet(BodyStruct) : align(f) = 1
      BY <1>1, Members DEF BodyFields
    <2>4. /\ widest \in {align(f) : f \in ToSet(BodyStruct)}
          /\ \A f \in ToSet(BodyStruct) : align(f) <= widest
      BY <2>1, <2>2, <2>3
    <2> QED
      BY <2>1, <2>2, <2>3, <2>4
  <1>10. Struct(BodyStruct, TRUE) = [at |-> offsets, size |-> RoundUp(end[3], widest)]
    BY Members DEF Struct, align, end
  <1>11. place("seqNum") = 1 /\ place("timestamp") = 2 /\ place("data") = 3
    BY Members
  <1> HIDE DEF widest, place
  <1>12. offsets = [f \in BodyFields |-> RoundUp(end[place(f) - 1], align(f))]
    BY Members
  <1> HIDE DEF offsets
  <1>13. offsets["seqNum"] = 0 /\ offsets["timestamp"] = 4 /\ offsets["data"] = 12
    BY <1>1, <1>2, <1>7, <1>8, <1>11, <1>12 DEF BodyFields
  <1> QED
    <2>1. RoundUp(end[3], widest) = 16
      BY <1>2, <1>8, <1>9
    <2>2. Struct(BodyStruct, TRUE) = [at |-> offsets, size |-> 16]
      BY <1>10, <2>1
    <2>3. offsets = Contiguous.body.at
      <3>1. /\ offsets = [f \in BodyFields |-> offsets[f]]
            /\ Contiguous.body.at = [f \in BodyFields |-> Contiguous.body.at[f]]
        BY <1>12 DEF Contiguous, BodyFields
      <3>2. \A f \in BodyFields : offsets[f] = Contiguous.body.at[f]
        BY <1>13 DEF Contiguous, BodyFields
      <3> QED
        BY <3>1, <3>2, Zenon
    <2>4. Contiguous.body = [at |-> Contiguous.body.at, size |-> 16]
      BY DEF Contiguous
    <2> QED
      BY <2>2, <2>3, <2>4

LEMMA AlignedBody ==
    Struct(BodyStruct, FALSE) = Padded.body
  <1> DEFINE align(f) == IF FALSE THEN 1 ELSE Align[f]
             end == CHOOSE e : e = [i \in 0 .. Len(BodyStruct) |->
                      IF i = 0 THEN 0
                      ELSE RoundUp(e[i - 1], align(BodyStruct[i])) + Width[BodyStruct[i]]]
             g == [i \in 0 .. 3 |-> IF i = 0 THEN 0 ELSE IF i = 1 THEN 4 ELSE IF i = 2 THEN 16
                                    ELSE 20]
             widest == CHOOSE a \in {align(f) : f \in ToSet(BodyStruct)} :
                              \A f \in ToSet(BodyStruct) : align(f) <= a
             place(f) == CHOOSE j \in DOMAIN BodyStruct : BodyStruct[j] = f
             offsets == [f \in ToSet(BodyStruct) |-> RoundUp(end[place(f) - 1], align(f))]
  <1>1. align("seqNum") = 4 /\ align("timestamp") = 8 /\ align("data") = 1
    BY Members, Aligns DEF BodyFields
  <1>2. /\ RoundUp(0, 4) = 0
        /\ RoundUp(4, 8) = 8
        /\ RoundUp(16, 1) = 16
        /\ RoundUp(20, 8) = 24
    BY DEF RoundUp
  <1> HIDE DEF align
  <1>3. /\ g[0] = 0 /\ g[1] = RoundUp(g[0], align(BodyStruct[1])) + Width[BodyStruct[1]]
        /\ g[2] = RoundUp(g[1], align(BodyStruct[2])) + Width[BodyStruct[2]]
        /\ g[3] = RoundUp(g[2], align(BodyStruct[3])) + Width[BodyStruct[3]]
    BY Members, Aligns, <1>1, <1>2
  <1>4. \A i \in 0 .. 3 : i = 0 \/ i = 1 \/ i = 2 \/ i = 3
    OBVIOUS
  <1> HIDE DEF g
  <1>5. g = [i \in 0 .. 3 |-> IF i = 0 THEN 0
                              ELSE RoundUp(g[i - 1], align(BodyStruct[i])) + Width[BodyStruct[i]]]
    <2>1. \A i \in 0 .. 3 : g[i] = IF i = 0 THEN 0
                                   ELSE RoundUp(g[i - 1], align(BodyStruct[i])) + Width[BodyStruct[i]]
      BY <1>3, <1>4
    <2>2. g = [i \in 0 .. 3 |-> g[i]]
      BY DEF g
    <2> QED
      BY <2>1, <2>2, Zenon
  <1>6. end = [i \in 0 .. 3 |-> IF i = 0 THEN 0
                                ELSE RoundUp(end[i - 1], align(BodyStruct[i])) + Width[BodyStruct[i]]]
    BY <1>5, Members
  <1> HIDE DEF end
  <1>7. /\ end[0] = 0
        /\ end[1] = RoundUp(end[0], align(BodyStruct[1])) + Width[BodyStruct[1]]
        /\ end[2] = RoundUp(end[1], align(BodyStruct[2])) + Width[BodyStruct[2]]
        /\ end[3] = RoundUp(end[2], align(BodyStruct[3])) + Width[BodyStruct[3]]
    BY <1>6
  <1>8. end[1] = 4 /\ end[2] = 16 /\ end[3] = 20
    BY <1>1, <1>2, <1>7, Members, Aligns
  <1>9. widest = 8
    <2>1. {align(f) : f \in ToSet(BodyStruct)} = {1, 4, 8}
      BY <1>1, Members DEF BodyFields
    <2>2. \A f \in ToSet(BodyStruct) : align(f) <= 8
      BY <1>1, Members DEF BodyFields
    <2>3. \E f \in ToSet(BodyStruct) : align(f) = 8
      BY <1>1, Members DEF BodyFields
    <2>4. /\ widest \in {align(f) : f \in ToSet(BodyStruct)}
          /\ \A f \in ToSet(BodyStruct) : align(f) <= widest
      BY <2>1, <2>2, <2>3
    <2> QED
      BY <2>1, <2>2, <2>3, <2>4
  <1>10. Struct(BodyStruct, FALSE) = [at |-> offsets, size |-> RoundUp(end[3], widest)]
    BY Members DEF Struct, align, end
  <1>11. place("seqNum") = 1 /\ place("timestamp") = 2 /\ place("data") = 3
    BY Members
  <1> HIDE DEF widest, place
  <1>12. offsets = [f \in BodyFields |-> RoundUp(end[place(f) - 1], align(f))]
    BY Members
  <1> HIDE DEF offsets
  <1>13. offsets["seqNum"] = 0 /\ offsets["timestamp"] = 8 /\ offsets["data"] = 16
    BY <1>1, <1>2, <1>7, <1>8, <1>11, <1>12 DEF BodyFields
  <1> QED
    <2>1. RoundUp(end[3], widest) = 24
      BY <1>2, <1>8, <1>9
    <2>2. Struct(BodyStruct, FALSE) = [at |-> offsets, size |-> 24]
      BY <1>10, <2>1
    <2>3. offsets = Padded.body.at
      <3>1. /\ offsets = [f \in BodyFields |-> offsets[f]]
            /\ Padded.body.at = [f \in BodyFields |-> Padded.body.at[f]]
        BY <1>12 DEF Padded, BodyFields
      <3>2. \A f \in BodyFields : offsets[f] = Padded.body.at[f]
        BY <1>13 DEF Padded, BodyFields
      <3> QED
        BY <3>1, <3>2, Zenon
    <2>4. Padded.body = [at |-> Padded.body.at, size |-> 24]
      BY DEF Padded
    <2> QED
      BY <2>2, <2>3, <2>4

LEMMA ServerLayouts ==
    ServerLayout[TRUE] = Contiguous /\ ServerLayout[FALSE] = Padded
  <1>1. /\ ServerLayout[TRUE] = [header |-> Contiguous.header, body |-> Contiguous.body]
        /\ ServerLayout[FALSE] = [header |-> Padded.header, body |-> Padded.body]
    BY PackedHeader, PackedBody, AlignedHeader, AlignedBody DEF ServerLayout
  <1>2. /\ Contiguous = [header |-> Contiguous.header, body |-> Contiguous.body]
        /\ Padded = [header |-> Padded.header, body |-> Padded.body]
    BY DEF Contiguous, Padded
  <1> QED
    BY <1>1, <1>2

-----------------------------------------------------------------------------
(* What a client sends. *)
BodyLen(m) == Number(Fields[m].header.bodyLen)
HeaderBytes(m) == Serialize(Fields[m].header, Layout[m].header)
BodyBytes(m) == Serialize(Fields[m].body, Layout[m].body)

LEMMA FieldsFill ==
    ASSUME NEW m \in Message
    PROVE  /\ Layout[m] \in {Contiguous, Padded}
           /\ Fields[m] = [header |-> Fields[m].header, body |-> Fields[m].body]
           /\ Fields[m].header = [f \in HeaderFields |-> Fields[m].header[f]]
           /\ Fields[m].body = [f \in BodyFields |-> Fields[m].body[f]]
           /\ Fitted(Layout[m].header) /\ Filled(Fields[m].header, Layout[m].header)
           /\ Fitted(Layout[m].body) /\ Filled(Fields[m].body, Layout[m].body)
           /\ BodyLen(m) \in Nat /\ BodyLen(m) <= Layout[m].body.size
  <1>1. Layout[m] \in {Contiguous, Padded}
    BY FramingAssumption
  <1>2. /\ Fields[m] \in [header : [HeaderFields -> Seq(Byte)], body : [BodyFields -> Seq(Byte)]]
        /\ \A f \in HeaderFields : Len(Fields[m].header[f]) = Width[f]
        /\ \A f \in BodyFields : Len(Fields[m].body[f]) = Width[f]
        /\ BodyLen(m) <= Layout[m].body.size
    BY FieldsAssumption, Members DEF Byte, BodyLen
  <1>3. /\ Fields[m] = [header |-> Fields[m].header, body |-> Fields[m].body]
        /\ Fields[m].header = [f \in HeaderFields |-> Fields[m].header[f]]
        /\ Fields[m].body = [f \in BodyFields |-> Fields[m].body[f]]
    BY <1>2
  <1>4. /\ \A f \in HeaderFields : Fields[m].header[f] \in [1 .. Width[f] -> Byte]
        /\ \A f \in BodyFields : Fields[m].body[f] \in [1 .. Width[f] -> Byte]
    BY <1>2, LenProperties
  <1>5. /\ DOMAIN Layout[m].header.at = HeaderFields /\ DOMAIN Layout[m].body.at = BodyFields
    BY <1>1, Offsets
  <1>6. BodyLen(m) \in Nat
    <2>1. Fields[m].header.bodyLen \in [1 .. 4 -> Byte]
      BY <1>4, Widths DEF HeaderFields
    <2> QED
      BY <2>1, NumberOfFour DEF BodyLen
  <1>7. Filled(Fields[m].header, Layout[m].header) /\ Filled(Fields[m].body, Layout[m].body)
    BY <1>3, <1>4, <1>5 DEF Filled
  <1> QED
    BY <1>1, <1>2, <1>3, <1>6, <1>7, LayoutsFit

(* The next n bytes after the first k. *)
Part(bytes, k, n) == SubSeq(bytes, k + 1, k + n)

First(bytes, n) == SubSeq(bytes, 1, n)

Appended(head, body) == head \o body

LEMMA AppendedParts ==
    ASSUME NEW head \in Seq(Byte), NEW body \in Seq(Byte)
    PROVE  /\ Appended(head, body) \in Seq(Byte)
           /\ Len(Appended(head, body)) = Len(head) + Len(body)
           /\ \A i \in 1 .. Len(head) : Appended(head, body)[i] = head[i]
           /\ First(Appended(head, body), Len(head)) = head
           /\ Part(Appended(head, body), Len(head), Len(body)) = body
  <1>1. PICK p, h, n : p = Appended(head, body) /\ h = Len(head) /\ n = Len(body)
    OBVIOUS
  <1>2. h \in Nat /\ n \in Nat
    BY <1>1
  <1>3. /\ p \in Seq(Byte) /\ Len(p) = h + n
        /\ \A i \in 1 .. h + n : p[i] = IF i <= h THEN head[i] ELSE body[i - h]
    BY <1>1, ConcatProperties DEF Appended
  <1>4. \A i \in 1 .. h : p[i] = head[i]
    BY <1>2, <1>3
  <1>5. \A i \in 1 .. n : p[h + i] = body[i]
    <2>1. ASSUME NEW i \in 1 .. n PROVE p[h + i] = body[i]
      <3>1. PICK j : j = h + i
        OBVIOUS
      <3>2. j \in 1 .. h + n /\ ~(j <= h) /\ j - h = i
        BY <1>2, <3>1
      <3> QED
        BY <1>3, <3>1, <3>2
    <2> QED
      BY <2>1
  <1>6. SubSeq(p, 1, h) = [i \in 1 .. h |-> p[i]]
    BY <1>2, <1>3
  <1>7. Part(p, h, n) = [i \in 1 .. n |-> p[h + i]]
    <2>1. Part(p, h, n) = [i \in 1 .. (h + n) - (h + 1) + 1 |-> p[(h + 1) + i - 1]]
      BY <1>2, <1>3 DEF Part
    <2>2. (h + n) - (h + 1) + 1 = n /\ \A i \in 1 .. n : (h + 1) + i - 1 = h + i
      BY <1>2
    <2> QED
      BY <2>1, <2>2
  <1>8. head = [i \in 1 .. h |-> head[i]] /\ body = [i \in 1 .. n |-> body[i]]
    BY <1>1
  <1>9. SubSeq(p, 1, h) = head
    BY <1>4, <1>6, <1>8
  <1>10. Part(p, h, n) = body
    BY <1>5, <1>7, <1>8
  <1> QED
    BY <1>1, <1>3, <1>4, <1>9, <1>10 DEF First

LEMMA PacketBytes ==
    ASSUME NEW m \in Message
    PROVE  /\ Layout[m].header.size \in {14, 16} /\ BodyLen(m) \in Nat
           /\ Packet[m] \in Seq(Byte) /\ Len(Packet[m]) = Layout[m].header.size + BodyLen(m)
           /\ HeaderBytes(m) \in [1 .. Layout[m].header.size -> Byte]
           /\ BodyBytes(m) \in [1 .. Layout[m].body.size -> Byte]
           /\ \A i \in 1 .. Layout[m].header.size : Packet[m][i] = HeaderBytes(m)[i]
           /\ First(Packet[m], Layout[m].header.size) = HeaderBytes(m)
           /\ Part(Packet[m], Layout[m].header.size, BodyLen(m)) = First(BodyBytes(m), BodyLen(m))
  <1>1. PICK h, b, n : h = Layout[m].header.size /\ b = Layout[m].body.size /\ n = BodyLen(m)
    OBVIOUS
  <1>2. n \in Nat /\ n <= b /\ h \in {14, 16} /\ h \in Nat /\ b \in Nat
    <2>1. n \in Nat /\ h \in {14, 16} /\ b \in {16, 24} /\ n <= b
      BY <1>1, FieldsFill, Offsets
    <2> QED
      BY <2>1
  <1>3. PICK head, all, body, p :
           /\ head = HeaderBytes(m) /\ all = BodyBytes(m) /\ body = First(all, n) /\ p = Packet[m]
    OBVIOUS
  <1>4. head \in [1 .. h -> Byte] /\ all \in [1 .. b -> Byte]
    BY <1>1, <1>3, FieldsFill, SerializeBytes DEF HeaderBytes, BodyBytes
  <1>5. body = [i \in 1 .. n |-> all[i]]
    BY <1>2, <1>3, <1>4 DEF First
  <1>6. body \in [1 .. n -> Byte]
    <2>1. \A i \in 1 .. n : all[i] \in Byte
      BY <1>2, <1>4
    <2> QED
      BY <1>5, <2>1
  <1>7. head \in Seq(Byte) /\ body \in Seq(Byte) /\ Len(head) = h /\ Len(body) = n
    BY <1>2, <1>4, <1>6
  <1>8. p = Appended(head, body)
    BY <1>1, <1>3 DEF Packet, HeaderBytes, BodyBytes, BodyLen, Appended, First
  <1>9. /\ p \in Seq(Byte) /\ Len(p) = Len(head) + Len(body)
        /\ \A i \in 1 .. Len(head) : p[i] = head[i]
        /\ First(p, Len(head)) = head /\ Part(p, Len(head), Len(body)) = body
    BY <1>7, <1>8, AppendedParts
  <1>10. /\ p \in Seq(Byte) /\ Len(p) = h + n /\ \A i \in 1 .. h : p[i] = head[i]
         /\ First(p, h) = head /\ Part(p, h, n) = body
    BY <1>7, <1>9
  <1> QED
    BY <1>1, <1>2, <1>3, <1>4, <1>10

(* A server whose structs are laid out as the message reads its fields. *)
LEMMA SameLayout ==
    ASSUME NEW m \in Message
    PROVE  /\ Extract(First(Packet[m], Layout[m].header.size), Layout[m].header) = Fields[m].header
           /\ BodyLen(m) = Layout[m].body.size =>
                 /\ Part(Packet[m], Layout[m].header.size, BodyLen(m)) = BodyBytes(m)
                 /\ Extract(BodyBytes(m), Layout[m].body) = Fields[m].body
  <1>1. Extract(HeaderBytes(m), Layout[m].header) = Fields[m].header
    <2>1. PICK fields : fields = Fields[m].header
      OBVIOUS
    <2>2. /\ Fitted(Layout[m].header) /\ Filled(fields, Layout[m].header)
          /\ fields = [f \in DOMAIN fields |-> fields[f]]
      BY <2>1, FieldsFill
    <2> QED
      BY <2>1, <2>2, RoundTrip DEF HeaderBytes
  <1>2. Extract(BodyBytes(m), Layout[m].body) = Fields[m].body
    <2>1. PICK fields : fields = Fields[m].body
      OBVIOUS
    <2>2. /\ Fitted(Layout[m].body) /\ Filled(fields, Layout[m].body)
          /\ fields = [f \in DOMAIN fields |-> fields[f]]
      BY <2>1, FieldsFill
    <2> QED
      BY <2>1, <2>2, RoundTrip DEF BodyBytes
  <1>3. ASSUME BodyLen(m) = Layout[m].body.size
        PROVE  First(BodyBytes(m), BodyLen(m)) = BodyBytes(m)
    <2>1. BodyLen(m) \in Nat /\ BodyBytes(m) \in [1 .. BodyLen(m) -> Byte]
      BY <1>3, PacketBytes
    <2> QED
      BY <2>1 DEF First
  <1> QED
    BY <1>1, <1>2, <1>3, PacketBytes

(* A server whose structs are laid out in the other way takes other bytes  *)
(* for the length of the body: one that the body does not have.            *)
LEMMA OtherLayout ==
    ASSUME NEW m \in Message, NEW L \in {Contiguous, Padded}, L # Layout[m],
           L.header.size <= Len(Packet[m]),
           NEW len, len = Number(Extract(First(Packet[m], L.header.size), L.header).bodyLen)
    PROVE  /\ len \in Nat
           /\ len < L.body.size \/ L.header.size + len > Len(Packet[m])
  <1> DEFINE p == Packet[m]
             n == BodyLen(m)
             h == Layout[m].header.size
             s == First(p, L.header.size)
             f == Extract(s, L.header).bodyLen
             bl == Fields[m].header["bodyLen"]
  <1>1. /\ n \in Nat /\ Len(p) = h + n /\ p \in Seq(Byte) /\ n <= Layout[m].body.size
        /\ \A i \in 1 .. h : p[i] = HeaderBytes(m)[i]
    BY PacketBytes, FieldsFill
  <1>2. Layout[m] \in {Contiguous, Padded} /\ Fitted(Layout[m].header)
        /\ Filled(Fields[m].header, Layout[m].header)
    BY FieldsFill
  <1>3. L.header.size \in {14, 16} /\ Fitted(L.header) /\ "bodyLen" \in DOMAIN L.header.at
        /\ DOMAIN Layout[m].header.at = HeaderFields
    BY <1>2, LayoutsFit, Offsets DEF HeaderFields
  <1>4. bl \in [1 .. 4 -> Byte] /\ n = Number(bl)
    <2>1. bl \in [1 .. 4 -> Byte]
      BY <1>2, <1>3, Widths DEF Filled, HeaderFields
    <2> QED
      BY <2>1 DEF BodyLen
  <1>5. bl[1] \in Byte /\ bl[2] \in Byte /\ bl[3] \in Byte /\ bl[4] \in Byte
    BY <1>4
  <1>6. /\ \A g \in HeaderFields : \A k \in 1 .. Width[g] :
               HeaderBytes(m)[Layout[m].header.at[g] + k] = Fields[m].header[g][k]
        /\ \A i \in 1 .. h :
              (\A g \in HeaderFields :
                  ~(Layout[m].header.at[g] < i /\ i <= Layout[m].header.at[g] + Width[g])) =>
                      HeaderBytes(m)[i] = 0
    BY <1>2, <1>3, SerializeBytes DEF HeaderBytes, Filled
  <1>7. /\ s \in [1 .. L.header.size -> Byte]
        /\ \A i \in 1 .. L.header.size : s[i] = p[i]
    <2> DEFINE z == L.header.size
    <2>1. z \in Nat /\ z <= Len(p) /\ Len(p) = h + n /\ h + n \in Nat
      BY <1>1, <1>3, PacketBytes
    <2> HIDE DEF z, p
    <2>2. First(p, z) = [i \in 1 .. z |-> p[i]]
      BY <1>1, <2>1 DEF First
    <2>3. \A i \in 1 .. z : p[i] \in Byte
      BY <1>1, <2>1
    <2> QED
      BY <2>2, <2>3 DEF z
  <1> HIDE DEF s, bl
  <1>8. f \in [1 .. 4 -> Byte] /\ \A k \in 1 .. 4 : f[k] = s[L.header.at["bodyLen"] + k]
    <2>1. Extract(s, L.header)["bodyLen"] \in [1 .. Width["bodyLen"] -> Byte]
          /\ \A k \in 1 .. Width["bodyLen"] :
                Extract(s, L.header)["bodyLen"][k] = s[L.header.at["bodyLen"] + k]
      <3>1. L.header.size \in Nat /\ L.header.size <= L.header.size
        BY <1>3
      <3> QED
        BY <1>3, <1>7, <3>1, Extracted
    <2> QED
      BY <2>1, Widths
  <1>9. len = 16777216 * f[1] + 65536 * f[2] + 256 * f[3] + f[4] /\ len \in Nat
        /\ f[1] \in Byte /\ f[2] \in Byte /\ f[3] \in Byte /\ f[4] \in Byte
    BY <1>8, NumberOfFour DEF s
  <1>10. len = Number(f)
    BY DEF s
  <1> HIDE DEF f, p
  <1>11. CASE L = Contiguous
    <2>1. Layout[m] = Padded /\ h = 16 /\ L.header.size = 14 /\ L.body.size = 16 /\ n <= 24
      BY <1>1, <1>2, <1>11, Offsets
    <2>2. f[1] = p[7] /\ f[2] = p[8] /\ f[3] = p[9] /\ f[4] = p[10]
      BY <1>7, <1>8, <1>11, <2>1, Offsets
    <2>3. p[7] = HeaderBytes(m)[7] /\ p[8] = HeaderBytes(m)[8] /\ p[9] = HeaderBytes(m)[9]
          /\ p[10] = HeaderBytes(m)[10]
      BY <1>1, <2>1
    <2>4. p[7] = 0 /\ p[8] = 0
      BY <1>6, <2>1, <2>3, Offsets, Widths, SMTT(30) DEF HeaderFields
    <2>5. p[9] = bl[1] /\ p[10] = bl[2]
      <3>1. \A k \in 1 .. 4 : HeaderBytes(m)[Layout[m].header.at["bodyLen"] + k] = bl[k]
        BY <1>6, Widths DEF HeaderFields, bl
      <3>2. HeaderBytes(m)[8 + 1] = bl[1] /\ HeaderBytes(m)[8 + 2] = bl[2]
        BY <2>1, <3>1, Offsets
      <3> QED
        BY <2>3, <3>2
    <2>6. bl[1] = 0 /\ bl[2] = 0
      BY <1>4, <2>1, SmallNumber
    <2>7. len = 0
      BY <1>9, <2>2, <2>4, <2>5, <2>6 DEF Byte
    <2> QED
      BY <2>1, <2>7
  <1>12. CASE L = Padded
    <2>1. Layout[m] = Contiguous /\ h = 14 /\ L.header.size = 16 /\ n <= 16 /\ n >= 2
      <3>1. Layout[m] = Contiguous /\ h = 14 /\ L.header.size = 16 /\ n <= 16
        BY <1>1, <1>2, <1>12, Offsets
      <3> QED
        BY <1>1, <3>1 DEF p
    <2>2. f[1] = p[9] /\ f[2] = p[10] /\ f[3] = p[11] /\ f[4] = p[12]
      BY <1>7, <1>8, <1>12, <2>1, Offsets
    <2>3. p[9] = HeaderBytes(m)[9] /\ p[10] = HeaderBytes(m)[10]
      BY <1>1, <2>1
    <2>4. p[9] = bl[3] /\ p[10] = bl[4]
      <3>1. \A k \in 1 .. 4 : HeaderBytes(m)[Layout[m].header.at["bodyLen"] + k] = bl[k]
        BY <1>6, Widths DEF HeaderFields, bl
      <3>2. HeaderBytes(m)[6 + 3] = bl[3] /\ HeaderBytes(m)[6 + 4] = bl[4]
        BY <2>1, <3>1, Offsets
      <3> QED
        BY <2>3, <3>2
    <2>5. bl[3] = 0 /\ bl[4] >= 2
      <3>1. Number(bl) <= 24
        BY <1>1, <1>4, <2>1
      <3> QED
        BY <1>4, <2>1, <3>1, SmallNumber
    <2>6. len >= 131072
      <3>1. f[1] = 0 /\ f[2] >= 2
        BY <2>2, <2>4, <2>5
      <3>2. PICK g : g = f
        OBVIOUS
      <3>3. g \in [1 .. 4 -> Byte] /\ g[1] = 0 /\ g[2] >= 2
        BY <1>8, <3>1, <3>2
      <3>4. Number(g) >= 131072
        BY <3>3, LargeNumber
      <3> QED
        <4>1. len = Number(g)
          BY <1>10, <3>2, Zenon
        <4> QED
          BY <3>4, <4>1
    <2>7. Len(Packet[m]) = 14 + n
      BY <1>1, <2>1 DEF p
    <2> QED
      <3>1. PICK t : t = Len(Packet[m])
        OBVIOUS
      <3>2. t = 14 + n /\ n \in Nat /\ n <= 16 /\ L.header.size = 16
        BY <1>1, <2>1, <2>7, <3>1
      <3>3. 16 + len > t
        BY <1>9, <2>6, <3>2
      <3> QED
        BY <1>9, <3>1, <3>2, <3>3
  <1> QED
    BY <1>9, <1>11, <1>12

LEMMA LengthIsNumber ==
    ASSUME NEW m \in Message, NEW L \in {Contiguous, Padded}, L.header.size <= Len(Packet[m])
    PROVE  Number(Extract(First(Packet[m], L.header.size), L.header).bodyLen) \in Nat
  <1>1. CASE Layout[m] = L
    <2>1. Extract(First(Packet[m], L.header.size), L.header) = Fields[m].header
      BY <1>1, SameLayout
    <2> QED
      BY <2>1, PacketBytes DEF BodyLen
  <1>2. CASE Layout[m] # L
    BY <1>2, OtherLayout
  <1> QED
    BY <1>1, <1>2

-----------------------------------------------------------------------------
(* What the server has of its stream: the first bytes in buf while it      *)
(* reads the header, the bytes after the header while it reads the body,   *)
(* and the header as it understands it.                                    *)
StreamInv ==
    LET size == Mine.header.size IN
    /\ spc = "accept" => read = 0
    /\ spc # "accept" => read \in Nat /\ read <= Len(Stream)
    /\ spc = "header" => want = size /\ read <= want /\ buf = First(Stream, read)
    /\ spc = "body" =>
          /\ header = Extract(First(Stream, size), Mine.header)
          /\ header.magic = <<65, 66>> /\ want = Number(header.bodyLen)
          /\ size <= read /\ read - size <= want
          /\ buf = Part(Stream, size, read - size)

VerdictInv ==
    /\ ServedInv /\ StreamInv /\ Verdict
    /\ packed \in BOOLEAN /\ message \in [Conn -> Message] /\ DOMAIN printed = Conn

LEMMA PartLength ==
    ASSUME NEW s \in Seq(Byte), NEW k \in Nat, NEW j \in Nat, k + j <= Len(s)
    PROVE  Len(Part(s, k, j)) = j
  <1>1. Part(s, k, j) = [i \in 1 .. (k + j) - (k + 1) + 1 |-> s[(k + 1) + i - 1]]
    BY DEF Part
  <1>2. (k + j) - (k + 1) + 1 = j
    OBVIOUS
  <1> QED
    BY <1>1, <1>2

LEMMA PartGrows ==
    ASSUME NEW s \in Seq(Byte), NEW k \in Nat, NEW j \in Nat, NEW n \in Nat, k + j + n <= Len(s)
    PROVE  Part(s, k, j) \o SubSeq(s, k + j + 1, k + j + n) = Part(s, k, j + n)
  <1>1. Len(s) \in Nat
    OBVIOUS
  <1>2. ASSUME NEW a \in Nat, NEW b \in Nat, a + b <= Len(s)
        PROVE  SubSeq(s, a + 1, a + b) = [i \in 1 .. b |-> s[a + i]]
    <2>1. SubSeq(s, a + 1, a + b) = [i \in 1 .. (a + b) - (a + 1) + 1 |-> s[(a + 1) + i - 1]]
      OBVIOUS
    <2>2. (a + b) - (a + 1) + 1 = b /\ \A i \in 1 .. b : (a + 1) + i - 1 = a + i
      OBVIOUS
    <2> QED
      BY <2>1, <2>2
  <1>3. PICK u, v, w : /\ u = Part(s, k, j) /\ v = SubSeq(s, k + j + 1, k + j + n)
                       /\ w = Part(s, k, j + n)
    OBVIOUS
  <1>4. u = [i \in 1 .. j |-> s[k + i]]
    BY <1>1, <1>2, <1>3 DEF Part
  <1>5. v = [i \in 1 .. n |-> s[k + j + i]]
    <2>1. PICK a : a = k + j
      OBVIOUS
    <2>2. a \in Nat /\ a + n <= Len(s)
      BY <2>1
    <2>3. v = SubSeq(s, a + 1, a + n)
      BY <1>3, <2>1
    <2>4. v = [i \in 1 .. n |-> s[a + i]]
      BY <1>2, <2>2, <2>3
    <2> QED
      BY <2>1, <2>4
  <1>6. w = [i \in 1 .. j + n |-> s[k + i]]
    <2>1. PICK b : b = j + n
      OBVIOUS
    <2>2. b \in Nat /\ k + b <= Len(s)
      BY <2>1
    <2>3. w = SubSeq(s, k + 1, k + b)
      BY <1>3, <2>1 DEF Part
    <2>4. w = [i \in 1 .. b |-> s[k + i]]
      BY <1>2, <2>2, <2>3
    <2> QED
      BY <2>1, <2>4
  <1>7. \A i \in 1 .. Len(s) : s[i] \in Byte
    OBVIOUS
  <1>8. u \in [1 .. j -> Byte] /\ v \in [1 .. n -> Byte]
    <2>1. \A i \in 1 .. j : s[k + i] \in Byte
      BY <1>1, <1>7
    <2>2. \A i \in 1 .. n : s[k + j + i] \in Byte
      BY <1>1, <1>7
    <2> QED
      BY <1>4, <1>5, <2>1, <2>2
  <1>9. u \in Seq(Byte) /\ v \in Seq(Byte) /\ Len(u) = j /\ Len(v) = n
    BY <1>8
  <1>10. u \o v = [i \in 1 .. j + n |-> IF i <= j THEN u[i] ELSE v[i - j]]
    <2>1. PICK x : x = u \o v
      OBVIOUS
    <2>2. /\ x \in Seq(Byte) /\ Len(x) = j + n
          /\ \A i \in 1 .. j + n : x[i] = IF i <= j THEN u[i] ELSE v[i - j]
      BY <1>9, <2>1, ConcatProperties
    <2>3. x = [i \in 1 .. j + n |-> x[i]]
      BY <2>2
    <2> QED
      BY <2>1, <2>2, <2>3
  <1>11. ASSUME NEW i \in 1 .. j + n PROVE (IF i <= j THEN u[i] ELSE v[i - j]) = s[k + i]
    <2>1. CASE i <= j
      BY <1>4, <2>1
    <2>2. CASE ~(i <= j)
      <3>1. PICK t : t = i - j
        OBVIOUS
      <3>2. t \in 1 .. n /\ k + j + t = k + i
        BY <2>2, <3>1
      <3>3. v[t] = s[k + j + t]
        BY <1>5, <3>2
      <3> QED
        BY <2>2, <3>1, <3>2, <3>3
    <2> QED
      BY <2>1, <2>2
  <1>12. u \o v = w
    BY <1>6, <1>10, <1>11
  <1> QED
    BY <1>3, <1>9, <1>12

LEMMA FirstIsPart ==
    ASSUME NEW s, NEW n \in Nat
    PROVE  First(s, n) = Part(s, 0, n)
  <1>1. 0 + 1 = 1 /\ 0 + n = n
    OBVIOUS
  <1> QED
    BY <1>1, Zenon DEF First, Part

(* The server that is at work and the packet it reads. *)
LEMMA AtWork ==
    ASSUME VerdictInv, spc # "accept", NEW m, m = message[cur]
    PROVE  /\ cur \in Conn /\ outcome[cur] = "none" /\ m \in Message
           /\ Stream = Packet[m] /\ Packet[m] \in Seq(Byte)
           /\ Mine \in {Contiguous, Padded} /\ Mine.header.size \in {14, 16}
           /\ Mine.header.size \in Nat /\ Mine.body.size \in {16, 24}
  <1>1. cur \in Conn /\ outcome[cur] = "none" /\ m \in Message
    BY DEF VerdictInv, ServedInv
  <1>2. Mine \in {Contiguous, Padded}
    BY ServerLayouts DEF VerdictInv, Mine
  <1>3. Stream = Packet[m]
    BY DEF Stream
  <1> QED
    BY <1>1, <1>2, <1>3, PacketBytes, Offsets

(* The connection is closed with the verdict the message deserves. *)
LEMMA ClosedRightly ==
    ASSUME VerdictInv, spc # "accept", NEW m, m = message[cur],
           NEW result \in Results \ {"none"}, Close(result),
           IF result = "printed"
           THEN Intact(m) /\ Layout[m] = Mine /\ printed' = [printed EXCEPT ![cur] = Fields[m]]
           ELSE printed' = printed /\ (result # "lost" => ~(Intact(m) /\ Layout[m] = Mine))
    PROVE  VerdictInv'
  <1>1. ServedInv' /\ spc' = "accept" /\ outcome' = [outcome EXCEPT ![cur] = result] /\ cur \in Conn
    BY Closed DEF VerdictInv
  <1>2. packed' = packed /\ message' = message /\ Mine' = Mine
    BY DEF Close, Mine
  <1>3. StreamInv'
    BY <1>1 DEF StreamInv, Close
  <1>4. Verdict'
    <2> SUFFICES ASSUME NEW c \in Conn, outcome'[c] \notin {"none", "lost"}
                 PROVE  /\ outcome'[c] = "printed" <=> Intact(message[c]) /\ Layout[message[c]] = Mine
                        /\ outcome'[c] = "printed" => printed'[c] = Fields[message[c]]
      BY <1>2 DEF Verdict
    <2>1. outcome \in [Conn -> Results] /\ DOMAIN printed = Conn
      BY DEF VerdictInv, ServedInv
    <2>2. CASE c = cur
      BY <1>1, <2>1, <2>2
    <2>3. CASE c # cur
      <3>1. outcome'[c] = outcome[c] /\ printed'[c] = printed[c]
        BY <1>1, <2>1, <2>3
      <3> QED
        BY <3>1 DEF VerdictInv, Verdict
    <2> QED
      BY <2>2, <2>3
  <1>5. DOMAIN printed' = Conn
    BY DEF VerdictInv
  <1> QED
    BY <1>1, <1>2, <1>3, <1>4, <1>5 DEF VerdictInv

LEMMA HeaderReceived ==
    ASSUME VerdictInv, Received("header"), NEW m, m = message[cur],
           NEW size, size = Mine.header.size
    PROVE  /\ read = size /\ size <= Len(Packet[m]) /\ Parsed = Extract(First(Packet[m], size), Mine.header)
           /\ Layout[m] = Mine => Parsed = Fields[m].header
           /\ Number(Parsed.bodyLen) \in Nat
  <1>1. spc = "header" /\ Len(buf) = want
    BY DEF Received
  <1>2. /\ m \in Message /\ Stream = Packet[m] /\ Packet[m] \in Seq(Byte)
        /\ Mine \in {Contiguous, Padded} /\ size \in Nat
    BY <1>1, AtWork
  <1>3. read \in Nat /\ read <= Len(Packet[m]) /\ want = size /\ buf = First(Packet[m], read)
    BY <1>1, <1>2 DEF VerdictInv, StreamInv
  <1>4. Len(buf) = read
    BY <1>2, <1>3 DEF First
  <1>5. read = size /\ buf = First(Packet[m], size)
    BY <1>1, <1>3, <1>4
  <1>6. Parsed = Extract(First(Packet[m], size), Mine.header)
    BY <1>5 DEF Parsed
  <1>7. Layout[m] = Mine => Parsed = Fields[m].header
    BY <1>2, <1>6, SameLayout
  <1>8. Number(Parsed.bodyLen) \in Nat
    <2>1. Mine.header.size <= Len(Packet[m])
      BY <1>3, <1>5
    <2> QED
      BY <1>2, <1>6, <2>1, LengthIsNumber
  <1> QED
    BY <1>3, <1>5, <1>6, <1>7, <1>8

LEMMA BodyReceived ==
    ASSUME VerdictInv, Received("body"), NEW m, m = message[cur],
           NEW size, size = Mine.header.size
    PROVE  /\ header.magic = <<65, 66>> /\ want = Number(header.bodyLen) /\ want \in Nat
           /\ buf = Part(Packet[m], size, want) /\ size + want <= Len(Packet[m])
           /\ Layout[m] = Mine => header = Fields[m].header /\ want = BodyLen(m)
           /\ Layout[m] # Mine => want < Mine.body.size
  <1>1. spc = "body" /\ Len(buf) = want
    BY DEF Received
  <1>2. /\ m \in Message /\ Stream = Packet[m] /\ Packet[m] \in Seq(Byte)
        /\ Mine \in {Contiguous, Padded} /\ size \in Nat
    BY <1>1, AtWork
  <1>3. /\ read \in Nat /\ read <= Len(Packet[m]) /\ size <= read
        /\ header = Extract(First(Packet[m], size), Mine.header)
        /\ header.magic = <<65, 66>> /\ want = Number(header.bodyLen)
        /\ buf = Part(Packet[m], size, read - size)
    BY <1>1, <1>2 DEF VerdictInv, StreamInv
  <1>4. PICK k \in Nat : k = read - size /\ size + k = read
    <2>1. \A a, b \in Nat : b <= a => a - b \in Nat /\ b + (a - b) = a
      OBVIOUS
    <2>2. read \in Nat /\ size \in Nat /\ size <= read
      BY <1>2, <1>3
    <2>3. read - size \in Nat /\ size + (read - size) = read
      BY <2>1, <2>2
    <2> QED
      BY <2>3
  <1>5. Len(buf) = k
    <2>1. PICK bytes : bytes = Packet[m]
      OBVIOUS
    <2>2. bytes \in Seq(Byte) /\ Len(bytes) \in Nat /\ size + k <= Len(bytes)
      BY <1>2, <1>3, <1>4, <2>1, LenProperties
    <2>3. Len(Part(bytes, size, k)) = k
      BY <1>2, <2>2, PartLength
    <2> QED
      BY <1>3, <1>4, <2>1, <2>3
  <1>6. /\ want = k /\ want \in Nat /\ buf = Part(Packet[m], size, want)
        /\ size + want <= Len(Packet[m])
    BY <1>1, <1>3, <1>4, <1>5
  <1>7. Layout[m] = Mine => header = Fields[m].header /\ want = BodyLen(m)
    BY <1>2, <1>3, SameLayout DEF BodyLen
  <1>8. ASSUME Layout[m] # Mine PROVE want < Mine.body.size
    <2>1. size <= Len(Packet[m]) /\ Len(Packet[m]) \in Nat
      <3>1. PICK count : count = Len(Packet[m])
        OBVIOUS
      <3>2. count \in Nat
        BY <1>2, <3>1, LenProperties
      <3> QED
        BY <1>2, <1>3, <3>1, <3>2
    <2>2. want < Mine.body.size \/ size + want > Len(Packet[m])
      BY <1>2, <1>3, <1>8, <2>1, OtherLayout
    <2> QED
      BY <1>2, <1>6, <2>1, <2>2
  <1> QED
    BY <1>3, <1>6, <1>7, <1>8

(* recv gives the server the next bytes of its stream. *)
LEMMA RecvStep ==
    ASSUME VerdictInv, NEW n \in Nat, Recv(n)
    PROVE  StreamInv'
  <1>1. /\ spc \in {"header", "body"} /\ n <= want - Len(buf) /\ read + n <= Len(Stream)
        /\ buf' = buf \o SubSeq(Stream, read + 1, read + n) /\ read' = read + n
        /\ UNCHANGED <<packed, message, spc, cur, want, header>>
    BY DEF Recv
  <1>2. PICK m, bytes, size : m = message[cur] /\ bytes = Packet[m] /\ size = Mine.header.size
    OBVIOUS
  <1>3. /\ m \in Message /\ Stream = bytes /\ bytes \in Seq(Byte) /\ size \in Nat
        /\ Len(bytes) \in Nat
    BY <1>1, <1>2, AtWork, LenProperties
  <1>4. Stream' = bytes /\ Mine' = Mine
    BY <1>1, <1>3 DEF Stream, Mine
  <1>5. read \in Nat /\ read <= Len(bytes) /\ read + n <= Len(bytes)
    BY <1>1, <1>3 DEF VerdictInv, StreamInv
  <1>6. CASE spc = "header"
    <2>1. want = size /\ read <= want /\ buf = First(bytes, read)
      BY <1>2, <1>3, <1>6 DEF VerdictInv, StreamInv
    <2>2. buf = Part(bytes, 0, read) /\ First(bytes, read + n) = Part(bytes, 0, read + n)
      <3>1. read + n \in Nat
        BY <1>5
      <3> QED
        BY <1>5, <2>1, <3>1, FirstIsPart
    <2>3. /\ 0 \in Nat /\ 0 + read + n <= Len(bytes) /\ 0 + read + 1 = read + 1
          /\ 0 + read + n = read + n
          /\ 0 + read <= Len(bytes)
      BY <1>3, <1>5
    <2>4. Len(buf) = read
      BY <1>3, <1>5, <2>2, <2>3, PartLength
    <2>5. buf \o SubSeq(bytes, read + 1, read + n) = Part(bytes, 0, read + n)
      <3>1. Part(bytes, 0, read) \o SubSeq(bytes, 0 + read + 1, 0 + read + n) = Part(bytes, 0, read + n)
        BY <1>3, <1>5, <2>3, PartGrows
      <3> QED
        BY <2>2, <2>3, <3>1
    <2>6. read' <= want /\ read' \in Nat /\ read' <= Len(bytes)
      BY <1>1, <1>3, <1>5, <2>1, <2>4
    <2>7. buf' = First(bytes, read')
      BY <1>1, <1>3, <2>2, <2>5
    <2> QED
      BY <1>1, <1>2, <1>4, <1>6, <2>1, <2>6, <2>7 DEF StreamInv
  <1>7. CASE spc = "body"
    <2>1. /\ header = Extract(First(bytes, size), Mine.header)
          /\ header.magic = <<65, 66>> /\ want = Number(header.bodyLen)
          /\ size <= read /\ read - size <= want /\ buf = Part(bytes, size, read - size)
      BY <1>2, <1>3, <1>7 DEF VerdictInv, StreamInv
    <2>2. PICK j \in Nat : j = read - size /\ size + j = read
      BY <1>3, <1>5, <2>1
    <2>3. /\ size + j + n <= Len(bytes) /\ size + j + 1 = read + 1 /\ size + j + n = read + n
          /\ size + j <= Len(bytes) /\ j + n = (read + n) - size /\ j <= want
      BY <1>3, <1>5, <2>1, <2>2
    <2>4. Len(buf) = j
      BY <1>3, <2>1, <2>2, <2>3, PartLength
    <2>5. buf \o SubSeq(bytes, read + 1, read + n) = Part(bytes, size, (read + n) - size)
      <3>1. Part(bytes, size, j) \o SubSeq(bytes, size + j + 1, size + j + n) = Part(bytes, size, j + n)
        <4>1. /\ bytes \in Seq(Byte) /\ size \in Nat /\ j \in Nat /\ n \in Nat
              /\ size + j + n <= Len(bytes)
          BY <1>3, <2>3
        <4> QED
          BY <4>1, PartGrows
      <3> QED
        BY <2>1, <2>2, <2>3, <3>1
    <2>6. want \in Nat
      <3>1. cur \in Conn /\ Mine \in {Contiguous, Padded}
        BY <1>1, AtWork
      <3>2. size <= Len(bytes)
        BY <1>3, <1>5, <2>1
      <3> QED
        BY <1>2, <1>3, <2>1, <3>1, <3>2, LengthIsNumber
    <2>7. size <= read' /\ read' - size <= want /\ read' \in Nat /\ read' <= Len(bytes)
      <3>1. n <= want - j /\ read' = read + n
        BY <1>1, <2>4
      <3>2. j + n <= want
        BY <2>2, <2>6, <3>1
      <3> QED
        BY <1>3, <1>5, <2>2, <2>3, <3>1, <3>2
    <2>8. buf' = Part(bytes, size, read' - size)
      BY <1>1, <1>3, <2>5
    <2> QED
      BY <1>1, <1>2, <1>4, <1>7, <2>1, <2>7, <2>8 DEF StreamInv
  <1> QED
    BY <1>1, <1>6, <1>7

LEMMA VerdictStep ==
    ASSUME VerdictInv, [Next]_vars
    PROVE  VerdictInv'
  <1> ServedInv'
    BY ServedStep DEF VerdictInv
  <1>1. ASSUME UNCHANGED <<packed, message, spc, cur, want, buf, header, read, outcome, printed>>
        PROVE  VerdictInv'
    <2>1. Mine' = Mine /\ Stream' = Stream
      BY <1>1 DEF Mine, Stream
    <2> QED
      BY <1>1, <2>1 DEF VerdictInv, StreamInv, Verdict
  <1>2. ASSUME StreamInv', UNCHANGED <<packed, message, outcome, printed>>
        PROVE  VerdictInv'
    <2>1. Mine' = Mine
      BY <1>2 DEF Mine
    <2> QED
      BY <1>2, <2>1 DEF VerdictInv, Verdict
  <1>3. ASSUME NEW c \in Conn, Connect(c) PROVE VerdictInv'
    BY <1>1, <1>3 DEF Connect
  <1>4. CASE Accept
    <2>1. /\ cur' = Head(backlog) /\ spc' = "header" /\ want' = Mine.header.size /\ buf' = << >>
          /\ UNCHANGED <<packed, message, read, outcome, printed>>
      BY <1>4 DEF Accept
    <2>2. Mine' = Mine
      BY <2>1 DEF Mine
    <2>3. read' = 0 /\ read' \in Nat
      BY <1>4, <2>1 DEF Accept, VerdictInv, StreamInv
    <2>4. Stream' \in Seq(Byte) /\ Len(Stream') \in Nat
      <3>1. backlog # << >> /\ backlog \in Seq(Conn)
        BY <1>4 DEF Accept, VerdictInv, ServedInv
      <3>2. cur' \in Conn
        BY <2>1, <3>1, HeadTailProperties
      <3>3. message[cur'] \in Message
        BY <3>2 DEF VerdictInv
      <3>4. Stream' = Packet[message[cur']]
        BY <2>1 DEF Stream
      <3> QED
        BY <3>3, <3>4, PacketBytes, LenProperties
    <2>5. First(Stream', 0) = << >>
      <3>1. PICK bytes : bytes = Stream'
        OBVIOUS
      <3>2. SubSeq(bytes, 1, 0) = << >>
        BY <2>4, <3>1
      <3> QED
        BY <3>1, <3>2 DEF First
    <2>6. Mine.header.size \in {14, 16}
      <3>1. Mine \in {Contiguous, Padded}
        BY ServerLayouts DEF VerdictInv, Mine
      <3> QED
        BY <3>1, Offsets
    <2>7. StreamInv'
      BY <2>1, <2>2, <2>3, <2>4, <2>5, <2>6 DEF StreamInv
    <2> QED
      BY <1>2, <2>1, <2>7
  <1>5. ASSUME NEW n \in Nat, Recv(n) PROVE VerdictInv'
    <2>1. UNCHANGED <<packed, message, outcome, printed>>
      BY <1>5 DEF Recv
    <2> QED
      BY <1>2, <1>5, <2>1, RecvStep
  <1>6. CASE RecvFails
    <2>1. spc # "accept" /\ Close("lost") /\ printed' = printed
      BY <1>6 DEF RecvFails
    <2> QED
      BY <2>1, ClosedRightly DEF Results
  <1>7. CASE BadMagic
    <2>1. spc # "accept" /\ Received("header") /\ ~GoodMagic /\ Close("magic") /\ printed' = printed
      BY <1>7 DEF BadMagic, Received
    <2>2. PICK m : m = message[cur]
      OBVIOUS
    <2>3. Layout[m] = Mine => Fields[m].header.magic # <<65, 66>>
      BY <2>1, <2>2, HeaderReceived DEF GoodMagic
    <2>4. ~(Intact(m) /\ Layout[m] = Mine)
      BY <2>3 DEF Intact
    <2> QED
      BY <2>1, <2>2, <2>4, ClosedRightly DEF Results
  <1>8. CASE HeaderDone
    <2>1. /\ Received("header") /\ GoodMagic /\ header' = Parsed
          /\ spc' = "body" /\ want' = Number(Parsed.bodyLen) /\ buf' = << >>
          /\ UNCHANGED <<packed, message, cur, read, outcome, printed>>
      BY <1>8 DEF HeaderDone
    <2>2. PICK m, size : m = message[cur] /\ size = Mine.header.size
      OBVIOUS
    <2>3. /\ spc # "accept" /\ read = size /\ size <= Len(Packet[m])
          /\ Parsed = Extract(First(Packet[m], size), Mine.header) /\ Number(Parsed.bodyLen) \in Nat
      BY <2>1, <2>2, HeaderReceived DEF Received
    <2>4. Stream = Packet[m] /\ size \in Nat /\ Packet[m] \in Seq(Byte)
      BY <2>2, <2>3, AtWork
    <2>5. Stream' = Packet[m] /\ Mine' = Mine
      BY <2>1, <2>4 DEF Stream, Mine
    <2>6. Part(Packet[m], size, 0) = << >>
      <3>1. PICK bytes : bytes = Packet[m]
        OBVIOUS
      <3>2. SubSeq(bytes, size + 1, size) = << >> /\ size + 0 = size
        BY <2>4, <3>1
      <3> QED
        BY <3>1, <3>2 DEF Part
    <2>7. read' - size = 0 /\ read' \in Nat
      BY <2>1, <2>3, <2>4
    <2>8. StreamInv'
      BY <2>1, <2>2, <2>3, <2>4, <2>5, <2>6, <2>7 DEF StreamInv, GoodMagic
    <2> QED
      BY <1>2, <2>1, <2>8
  <1>9. CASE ChecksumFails
    <2>1. /\ spc # "accept" /\ Received("body") /\ ~ChecksumHolds
          /\ Close("checksum") /\ printed' = printed
      BY <1>9 DEF ChecksumFails, Received
    <2>2. PICK m : m = message[cur]
      OBVIOUS
    <2>3. m \in Message
      BY <2>1, <2>2, AtWork
    <2>4. ASSUME Intact(m), Layout[m] = Mine PROVE FALSE
      <3>1. /\ header = Fields[m].header /\ want = BodyLen(m)
            /\ buf = Part(Packet[m], Mine.header.size, want)
        BY <2>1, <2>2, <2>4, BodyReceived
      <3>2. buf = BodyBytes(m)
        BY <2>3, <2>4, <3>1, SameLayout DEF Intact, BodyLen
      <3> QED
        BY <2>1, <2>4, <3>1, <3>2 DEF ChecksumHolds, Intact, BodyBytes
    <2> QED
      BY <2>1, <2>2, <2>4, ClosedRightly DEF Results
  <1>10. CASE TooSmall
    <2>1. /\ spc # "accept" /\ Received("body") /\ want < Mine.body.size
          /\ Close("small") /\ printed' = printed
      BY <1>10 DEF TooSmall, Received
    <2>2. PICK m : m = message[cur]
      OBVIOUS
    <2>3. Mine.body.size \in {16, 24} /\ want \in Nat
      BY <2>1, <2>2, AtWork, BodyReceived
    <2>4. ASSUME Intact(m), Layout[m] = Mine PROVE FALSE
      <3>1. want = BodyLen(m)
        BY <2>1, <2>2, <2>4, BodyReceived
      <3>2. want = Mine.body.size
        BY <2>4, <3>1 DEF Intact, BodyLen
      <3> QED
        BY <2>1, <2>3, <3>2
    <2> QED
      BY <2>1, <2>2, <2>4, ClosedRightly DEF Results
  <1>11. CASE PrintPacket
    <2>1. /\ spc # "accept" /\ Received("body") /\ ChecksumHolds /\ want >= Mine.body.size
          /\ Close("printed")
          /\ printed' = [printed EXCEPT ![cur] = [header |-> header, body |-> Extract(buf, Mine.body)]]
      BY <1>11 DEF PrintPacket, Received
    <2>2. PICK m : m = message[cur]
      OBVIOUS
    <2>3. m \in Message /\ Mine.body.size \in {16, 24} /\ want \in Nat
      BY <2>1, <2>2, AtWork, BodyReceived
    <2>4. Layout[m] = Mine
      BY <2>1, <2>2, <2>3, BodyReceived
    <2>5. /\ header.magic = <<65, 66>> /\ header = Fields[m].header /\ want = BodyLen(m)
          /\ buf = Part(Packet[m], Mine.header.size, want)
      BY <2>1, <2>2, <2>4, BodyReceived
    <2>6. BodyLen(m) = Mine.body.size
      <3>1. PICK n, size : n = BodyLen(m) /\ size = Mine.body.size
        OBVIOUS
      <3>2. n \in Nat /\ n <= size
        BY <2>3, <2>4, <3>1, FieldsFill
      <3>3. n >= size
        BY <2>1, <2>5, <3>1
      <3> QED
        BY <2>3, <3>1, <3>2, <3>3
    <2>7. buf = BodyBytes(m) /\ Extract(buf, Mine.body) = Fields[m].body
      BY <2>3, <2>4, <2>5, <2>6, SameLayout
    <2>8. Intact(m)
      BY <2>1, <2>4, <2>5, <2>6, <2>7 DEF Intact, ChecksumHolds, BodyBytes, BodyLen
    <2>9. [header |-> header, body |-> Extract(buf, Mine.body)] = Fields[m]
      BY <2>3, <2>5, <2>7, FieldsFill
    <2> QED
      BY <2>1, <2>2, <2>4, <2>8, <2>9, ClosedRightly DEF Results
  <1>12. CASE Idle \/ UNCHANGED vars
    BY <1>1, <1>12 DEF Idle, vars
  <1>13. ASSUME NEW n \in 1 .. Len(Stream), Recv(n) PROVE VerdictInv'
    <2>1. spc # "accept"
      BY <1>13 DEF Recv
    <2>2. Len(Stream) \in Nat
      BY <2>1, AtWork, LenProperties
    <2> QED
      BY <1>5, <1>13, <2>2
  <1> QED
    BY <1>3, <1>4, <1>6, <1>7, <1>8, <1>9, <1>10, <1>11, <1>12, <1>13 DEF Next, ServerStep,
       StreamStep

(* However the streams are cut into portions, a server that saw all of a   *)
(* message prints it exactly when the message is whole and laid out as the *)
(* server's structs are, and prints the very fields that were sent (the    *)
(* servers' loops, recvAll and the packed and aligned structs).            *)
THEOREM PrintedAsSent == (Spec => []Verdict) /\ (PlaySpec => []Verdict)
  <1>1. Init => VerdictInv
    <2> SUFFICES ASSUME Init PROVE VerdictInv
      OBVIOUS
    <2>1. ServedInv
      BY EmptySeq DEF Init, ServedInv, Results
    <2>2. StreamInv /\ Verdict
      BY DEF Init, StreamInv, Verdict
    <2> QED
      BY <2>1, <2>2, FramingAssumption DEF Init, VerdictInv
  <1>2. VerdictInv => Verdict
    BY DEF VerdictInv
  <1>3. Spec => []Verdict
    BY <1>1, <1>2, VerdictStep, PTL DEF Spec
  <1> DEFINE PlayInv == IF program = "framing" THEN VerdictInv ELSE outcome = [c \in Conn |-> "none"]
  <1>4. PlayInit => PlayInv
    BY <1>1 DEF PlayInit, NoFraming
  <1>5. PlayInv /\ [PlayNext]_playVars => PlayInv'
    <2> SUFFICES ASSUME PlayInv, [PlayNext]_playVars PROVE PlayInv'
      OBVIOUS
    <2>1. program' = program
      BY DEF PlayNext, InFraming, InBatch, InAsync, InMove, InClient, playVars
    <2>2. CASE program = "framing"
      BY <2>1, <2>2, FramingStep, VerdictStep
    <2>3. CASE program # "framing"
      <3>1. UNCHANGED framingVars
        BY <2>3 DEF PlayNext, InFraming, InBatch, InAsync, InMove, InClient, playVars
      <3>2. outcome' = outcome
        BY <3>1 DEF framingVars, vars
      <3> QED
        BY <2>1, <2>3, <3>2
    <2> QED
      BY <2>2, <2>3
  <1>6. PlayInv => Verdict
    BY <1>2 DEF Verdict
  <1>7. PlaySpec => []Verdict
    BY <1>4, <1>5, <1>6, PTL DEF PlaySpec
  <1> QED
    BY <1>3, <1>7
=============================================================================
