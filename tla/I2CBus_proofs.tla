---------------------------- MODULE I2CBus_proofs ----------------------------
(* Theorems about I2CBus, for every address, width and set of messages. *)
EXTENDS I2CBus, SequenceTheorems, TLAPS

States == {"idle", "address", "hello", "data", "ack"}
Slaves == [state : States, bits : Seq(Bit), pulls : BOOLEAN]
AByte == [1..ByteBits -> Bit]

(* A byte is one bit longer than an address. *)
LEMMA Width == Len(Own) \in Nat /\ ByteBits \in Nat /\ ByteBits >= 1
  BY OwnAssumption DEF ByteBits

(* The address with the R/W bit is a byte. *)
LEMMA AddressByte ==
  ASSUME NEW a \in [1..Len(Own) -> Bit]
  PROVE  Append(a, 0) \in AByte
  <1>1. Len(Own) \in Nat /\ 0 \in Bit
    BY Width DEF Bit
  <1>2. a \in Seq(Bit) /\ Len(a) = Len(Own)
    BY <1>1, LenProperties, IsASeq
  <1>3. Append(a, 0) \in Seq(Bit) /\ Len(Append(a, 0)) = Len(Own) + 1
    BY <1>1, <1>2, AppendProperties
  <1>4. Append(a, 0) \in [1..Len(Append(a, 0)) -> Bit]
    BY <1>3, LenProperties
  <1>5. QED  BY <1>3, <1>4 DEF AByte, ByteBits

Message == [addr : [1..Len(Own) -> Bit], buf : Seq(AByte)]

(* A list of messages is not empty. *)
LEMMA MessagesType ==
  ASSUME NEW ms \in Messages
  PROVE  ms \in Seq(Message) /\ Len(ms) \in Nat /\ Len(ms) >= 1
  <1>1. ms \in Seq(Message) /\ ms # <<>>
    BY MessagesAssumption DEF Message, AByte
  <1>2. QED  BY <1>1, EmptySeq, LenProperties

(* While a message is sent, the current byte is one. *)
LEMMA ByteType ==
  ASSUME TypeOK, Position, pc = "send"
  PROVE  /\ Byte \in AByte /\ msgs \in Messages /\ msg \in 1..Len(msgs)
         /\ Len(Current.buf) \in Nat /\ Current = msgs[msg]
  <1>1. msgs \in Messages /\ msg \in 1..Len(msgs) /\ byte \in Nat /\ byte <= Len(Current.buf)
    BY MessagesType DEF TypeOK, Position
  <1>2. Current \in Message
    BY <1>1, MessagesType, ElementOfSeq DEF Current
  <1>3. Current.addr \in [1..Len(Own) -> Bit] /\ Current.buf \in Seq(AByte)
    BY <1>2 DEF Message
  <1>4. Len(Current.buf) \in Nat
    BY <1>3, LenProperties
  <1>5. CASE byte = 0
    BY <1>1, <1>3, <1>4, <1>5, AddressByte DEF Byte, Current
  <1>6. CASE byte # 0
    <2>1. byte \in 1..Len(Current.buf)
      BY <1>1, <1>4, <1>6
    <2>2. Current.buf[byte] \in AByte
      BY <1>3, <2>1, ElementOfSeq
    <2>3. QED  BY <1>1, <1>4, <1>6, <2>2 DEF Byte, Current
  <1>7. QED  BY <1>5, <1>6

(* The slave starts and stops as one that has no bits. *)
LEMMA FreshType ==
  /\ Off \in Slaves /\ Len(Off.bits) = 0 /\ Off = Fresh("idle")
  /\ \A s \in States : Fresh(s) \in Slaves /\ Len(Fresh(s).bits) = 0
  BY EmptySeq DEF Off, Fresh, Slaves, States
-----------------------------------------------------------------------------
(* A write keeps the types of the lines and of the slave, if the slave has room for
   another bit and has a whole byte when it acknowledges. *)
LEMMA DriveType ==
  ASSUME TypeOK, NEW c \in Bit, NEW d \in Bit \cup {Input}, Drive(c, d),
         slave.state \in {"hello", "ack"} => slave.bits \in AByte,
         scl = 0 /\ c = 1 /\ slave.state \in {"address", "data"} => Len(slave.bits) < ByteBits
  PROVE  /\ scl' \in Bit /\ sda' \in Bit \cup {Input}
         /\ slave' \in Slaves /\ Len(slave'.bits) <= ByteBits
         /\ stored' \in Seq(AByte)
  <1>1. slave \in Slaves /\ slave.bits \in Seq(Bit) /\ Len(slave.bits) \in Nat /\ Len(slave.bits) <= ByteBits
    BY LenProperties DEF TypeOK, Slaves, States
  <1>2. stored \in Seq(AByte)
    BY DEF TypeOK, AByte
  <1>3. scl' \in Bit /\ sda' \in Bit \cup {Input}
    BY DEF Drive
  <1>4. <<>> \in Seq(Bit) /\ Len(<<>>) = 0 /\ 0 <= ByteBits
    BY EmptySeq, Width
  <1>5. CASE slave' \in {Off, Fresh("address"), Fresh("data")} /\ UNCHANGED stored
    BY <1>2, <1>3, <1>5, FreshType, Width DEF States
  <1>6. CASE scl = 0 /\ c = 1 /\ UNCHANGED stored
             /\ slave' = [slave EXCEPT !.bits = Append(@, Level(d))] /\ slave.state \in {"address", "data"}
    <2>1. Level(d) \in Bit
      BY DEF Level, Bit
    <2>2. Append(slave.bits, Level(d)) \in Seq(Bit) /\ Len(Append(slave.bits, Level(d))) = Len(slave.bits) + 1
      BY <1>1, <2>1, AppendProperties
    <2>3. slave'.bits = Append(slave.bits, Level(d)) /\ slave' \in Slaves
      BY <1>1, <1>6, <2>2 DEF Slaves
    <2>4. Len(slave.bits) < ByteBits
      BY <1>6
    <2>5. Len(slave'.bits) <= ByteBits
      BY <1>1, <2>2, <2>3, <2>4, Width
    <2>6. QED  BY <1>2, <1>3, <1>6, <2>3, <2>5
  <1>7. CASE slave' = slave /\ UNCHANGED stored
    BY <1>1, <1>2, <1>3, <1>7
  <1>8. CASE Answer
    <2>1. CASE /\ slave' = [slave EXCEPT !.state = IF @ = "address" THEN "hello" ELSE "ack", !.pulls = TRUE]
               /\ UNCHANGED stored
      <3>1. slave' \in Slaves /\ slave'.bits = slave.bits
        BY <1>1, <2>1 DEF Slaves, States
      <3>2. QED  BY <1>1, <1>2, <1>3, <2>1, <3>1
    <2>2. CASE /\ slave.state \in {"hello", "ack"}
               /\ slave' = Fresh("data")
               /\ stored' = IF slave.state = "ack" THEN Append(stored, slave.bits) ELSE stored
      <3>1. slave.bits \in AByte
        BY <2>2
      <3>2. Append(stored, slave.bits) \in Seq(AByte)
        BY <1>2, <3>1, AppendProperties
      <3>3. QED  BY <1>2, <1>3, <2>2, <3>2, FreshType, Width DEF States
    <2>3. QED  BY <1>5, <1>7, <1>8, <2>1, <2>2 DEF Answer, Fresh
  <1>9. QED  BY <1>5, <1>6, <1>7, <1>8 DEF Drive, Fresh

-----------------------------------------------------------------------------
(* What WriteNext does, write by write. *)
LEMMA WriteNextWrites ==
  ASSUME IInv, WriteNext
  PROVE  \/ pc = "configure" /\ step = 1 /\ Drive(1, sda) /\ step' = 2 /\ pc' = "configure"
         \/ pc = "configure" /\ step = 2 /\ Drive(scl, 1) /\ step' = 1 /\ pc' = "start"
         \/ pc = "start" /\ step = 1 /\ Drive(scl, 1) /\ step' = 2 /\ pc' = "start"
         \/ pc = "start" /\ step = 2 /\ Drive(1, sda) /\ step' = 3 /\ pc' = "start"
         \/ pc = "start" /\ step = 3 /\ Drive(scl, 0) /\ step' = 4 /\ pc' = "start"
         \/ pc = "start" /\ step = 4 /\ Drive(0, sda) /\ step' = 1 /\ pc' = "send"
         \/ pc = "stop" /\ step = 1 /\ Drive(scl, 0) /\ step' = 2 /\ pc' = "stop"
         \/ pc = "stop" /\ step = 2 /\ Drive(1, sda) /\ step' = 3 /\ pc' = "stop"
         \/ pc = "stop" /\ step = 3 /\ Drive(scl, 1) /\ step' = 4 /\ pc' = "stop"
         \/ pc = "stop" /\ step = 4 /\ Drive(0, sda) /\ step' = 1 /\ pc' = "free"
  <1>1. step \in 1..4 /\ (pc = "configure" => step <= 2) /\ pc \in {"configure", "start", "stop"}
    BY DEF IInv, TypeOK, Position, WriteNext, Writes
  <1>2. CASE pc = "configure"
    <2>1. step \in {1, 2} /\ Len(Writes[pc]) = 2 /\ After[pc] = "start"
      BY <1>1, <1>2 DEF Writes, After
    <2>2. /\ step = 1 => Write(<<"SCL", 1>>)
          /\ step = 2 => Write(<<"SDA", 1>>)
      BY <1>2, <2>1 DEF WriteNext, Writes
    <2>3. QED  BY <1>2, <2>1, <2>2 DEF WriteNext, Write
  <1>3. CASE pc = "start"
    <2>1. step \in {1, 2, 3, 4} /\ Len(Writes[pc]) = 4 /\ After[pc] = "send"
      BY <1>1, <1>3 DEF Writes, After
    <2>2. /\ step = 1 => Write(<<"SDA", 1>>)
          /\ step = 2 => Write(<<"SCL", 1>>)
          /\ step = 3 => Write(<<"SDA", 0>>)
          /\ step = 4 => Write(<<"SCL", 0>>)
      BY <1>3, <2>1 DEF WriteNext, Writes
    <2>3. QED  BY <1>3, <2>1, <2>2 DEF WriteNext, Write
  <1>4. CASE pc = "stop"
    <2>1. step \in {1, 2, 3, 4} /\ Len(Writes[pc]) = 4 /\ After[pc] = "free"
      BY <1>1, <1>4 DEF Writes, After
    <2>2. /\ step = 1 => Write(<<"SDA", 0>>)
          /\ step = 2 => Write(<<"SCL", 1>>)
          /\ step = 3 => Write(<<"SDA", 1>>)
          /\ step = 4 => Write(<<"SCL", 0>>)
      BY <1>4, <2>1 DEF WriteNext, Writes
    <2>3. QED  BY <1>4, <2>1, <2>2 DEF WriteNext, Write
  <1>5. QED  BY <1>1, <1>2, <1>3, <1>4

(* Outside a byte, the slave has room for a bit and acknowledges nothing. *)
LEMMA OutsideByte ==
  ASSUME IInv, pc \in {"configure", "start", "stop"},
         NEW c \in Bit, NEW d \in Bit \cup {Input}, Drive(c, d)
  PROVE  /\ scl' = c /\ sda' = d
         /\ scl' \in Bit /\ sda' \in Bit \cup {Input}
         /\ slave' \in Slaves /\ Len(slave'.bits) <= ByteBits
         /\ stored' \in Seq(AByte)
  <1>1. step \in {1, 2, 3, 4} /\ scl \in Bit
    BY DEF IInv, TypeOK
  <1>2. slave.state \notin {"hello", "ack"}
    BY <1>1 DEF IInv, Waiting, Off, Fresh
  <1>3. scl = 0 => slave.bits = <<>>
    BY <1>1 DEF IInv, Waiting, Off, Fresh
  <1>4. scl = 0 => Len(slave.bits) < ByteBits
    BY <1>3, EmptySeq, Width
  <1>5. TypeOK
    BY DEF IInv
  <1>6. QED  BY <1>2, <1>4, <1>5, DriveType DEF Drive

(* The parts of TypeOK that a step does not touch. *)
LEMMA TypeKept ==
  ASSUME TypeOK, UNCHANGED <<call, read, gpios>>,
         pc' \in {"configure", "start", "send", "stop", "free"}, step' \in 1..4,
         scl' \in Bit, sda' \in Bit \cup {Input}, slave' \in Slaves,
         Len(slave'.bits) <= ByteBits, stored' \in Seq(AByte)
  PROVE  TypeOK'
  <1>1. UNCHANGED <<msgs, msg, byte, bit, ret, read, requested, others, stolen>>
    BY DEF call, gpios
  <1>2. Current' = Current
    BY <1>1 DEF Current
  <1>3. pc' \in {"idle", "requestSCL", "requestSDA", "send", "free"} \cup DOMAIN Writes'
    BY DEF Writes
  <1>4. slave' \in [state : {"idle", "address", "hello", "data", "ack"}, bits : Seq(Bit), pulls : BOOLEAN]
    BY DEF Slaves, States
  <1>5. stored' \in Seq([1..ByteBits -> Bit])
    BY DEF AByte
  <1>6. QED  BY <1>1, <1>2, <1>3, <1>4, <1>5 DEF TypeOK

(* A slave that waits for a START waits on while SDA is not pulled down. *)
LEMMA DriveOff ==
  ASSUME slave = Off, sda # 0, NEW c \in Bit, NEW d \in {1, Input}, Drive(c, d)
  PROVE  slave' = Off
  <1>1. Level(d) = 1 /\ Level(sda) = 1 /\ slave.state = "idle"
    BY DEF Level, Off, Input
  <1>2. CASE Answer
    BY <1>1, <1>2 DEF Answer, Off
  <1>3. CASE ~Answer
    BY <1>1, <1>3 DEF Drive
  <1>4. QED  BY <1>2, <1>3

(* The slave after each write of WriteNext. *)
LEMMA WriteNextSlave ==
  ASSUME IInv, WriteNext
  PROVE  /\ pc = "configure" \/ (pc = "start" /\ step <= 2) => slave' = Off /\ sda' # 0
         /\ pc = "configure" /\ step = 1 => scl' = 1
         /\ pc = "start" /\ step = 2 => scl' = 1
         /\ pc = "configure" /\ step = 2 => scl' = 1
         /\ pc = "start" /\ step = 1 => scl' = 1
         /\ pc = "start" /\ step = 3 => slave' = Fresh("address") /\ sda' = 0 /\ scl' = 1
         /\ pc = "start" /\ step = 4 => slave' = Fresh("address") /\ scl' = 0
         /\ pc = "stop" /\ step = 1 => sda' = 0 /\ slave' \in {Off, Fresh("data"), Fresh("address")}
         /\ pc = "stop" /\ step = 2 => /\ sda' = 0 /\ scl' = 1 /\ ~slave'.pulls
                                      /\ slave'.state \notin {"hello", "ack"}
         /\ pc = "stop" /\ step = 3 => sda' = 1 /\ scl' = 1 /\ slave' = Off
         /\ pc = "stop" /\ step = 4 => slave' = Off /\ sda' # 0
  <1>1. scl \in {0, 1} /\ sda \in {0, 1, Input} /\ step \in {1, 2, 3, 4}
        /\ 0 \in Bit /\ 1 \in Bit /\ Bit = {0, 1} /\ Input = 2 /\ 0 # ByteBits
    BY Width DEF IInv, TypeOK, Bit, Input
  <1>2. Waiting /\ Len(<<>>) = 0
    BY EmptySeq DEF IInv
  <1>3. CASE pc = "configure"
    <2>1. slave = Off /\ sda # 0 /\ (step = 2 => scl = 1)
      BY <1>2, <1>3 DEF Waiting
    <2>2. PICK c \in Bit, d \in {1, Input} : Drive(c, d) /\ c = 1
      BY <1>1, <1>3, <2>1, WriteNextWrites
    <2>3. slave' = Off /\ sda' # 0 /\ scl' = 1
      <3>1. slave' = Off  BY <2>1, <2>2, DriveOff
      <3>2. QED  BY <1>1, <2>2, <3>1 DEF Drive
    <2>4. QED  BY <1>3, <2>3
  <1>4. CASE pc = "start" /\ step <= 2
    <2>1. slave = Off /\ sda # 0 /\ scl = 1
      BY <1>1, <1>2, <1>4 DEF Waiting
    <2>2. PICK c \in Bit, d \in {1, Input} : Drive(c, d) /\ c = 1
      BY <1>1, <1>4, <2>1, WriteNextWrites
    <2>3. slave' = Off /\ sda' # 0 /\ scl' = 1
      <3>1. slave' = Off  BY <2>1, <2>2, DriveOff
      <3>2. QED  BY <1>1, <2>2, <3>1 DEF Drive
    <2>4. QED  BY <1>1, <1>4, <2>3
  <1>5. CASE pc = "start" /\ step = 3
    <2>1. slave = Off /\ sda # 0 /\ scl = 1 /\ Drive(1, 0)
      BY <1>2, <1>5, WriteNextWrites DEF Waiting
    <2>2. Level(0) = 0 /\ Level(sda) = 1
      BY <2>1 DEF Level, Off
    <2>3. QED  BY <1>5, <2>1, <2>2 DEF Drive, Fresh
  <1>6. CASE pc = "start" /\ step = 4
    <2>1. slave = Fresh("address") /\ scl = 1 /\ Drive(0, sda)
      BY <1>2, <1>6, WriteNextWrites DEF Waiting
    <2>2. scl' = 0 /\ Answer
      BY <2>1 DEF Drive
    <2>3. slave' = slave
      BY <1>1, <1>2, <2>1, <2>2 DEF Answer, Fresh
    <2>4. QED  BY <1>6, <2>1, <2>2, <2>3
  <1>7. CASE pc = "stop" /\ step = 1
    <2>1. Drive(scl, 0) /\ (\/ slave = Off /\ (scl = 1 => sda # 0)
                            \/ slave = Fresh("data") /\ scl = 0)
      BY <1>2, <1>7, WriteNextWrites DEF Waiting
    <2>2. CASE scl = 0
      BY <1>7, <2>1, <2>2 DEF Drive
    <2>3. CASE scl = 1
      <3>1. slave = Off /\ Level(0) = 0 /\ Level(sda) = 1
        BY <2>1, <2>3 DEF Level, Off
      <3>2. QED  BY <1>7, <2>1, <2>3, <3>1 DEF Drive, Fresh
    <2>4. QED  BY <1>1, <2>2, <2>3
  <1>8. CASE pc = "stop" /\ step = 2
    <2>1. Drive(1, sda) /\ sda = 0 /\ slave \in {Off, Fresh("data"), Fresh("address")}
      BY <1>2, <1>8, WriteNextWrites DEF Waiting
    <2>2. slave' = slave \/ slave' = [slave EXCEPT !.bits = Append(@, Level(sda))]
      <3>1. ~(Level(sda) < Level(sda)) /\ ~(Level(sda) > Level(sda))
        BY DEF Level
      <3>2. QED  BY <1>1, <2>1, <3>1 DEF Drive
    <2>3. ~slave'.pulls /\ slave'.state \notin {"hello", "ack"}
      BY <2>1, <2>2 DEF Off, Fresh
    <2>4. QED  BY <1>8, <2>1, <2>3 DEF Drive
  <1>9. CASE pc = "stop" /\ step = 3
    <2>1. Drive(1, 1) /\ sda = 0 /\ scl = 1 /\ ~slave.pulls
      BY <1>2, <1>9, WriteNextWrites DEF Waiting
    <2>2. Level(1) = 1 /\ Level(sda) = 0
      BY <2>1 DEF Level
    <2>3. QED  BY <1>9, <2>1, <2>2 DEF Drive
  <1>10. CASE pc = "stop" /\ step = 4
    <2>1. Drive(0, sda) /\ sda = 1 /\ slave = Off
      BY <1>2, <1>10, WriteNextWrites DEF Waiting
    <2>2. slave' = Off
      BY <1>1, <2>1, DriveOff
    <2>3. QED  BY <1>10, <2>1, <2>2 DEF Drive
  <1>11. QED  BY <1>1, <1>3, <1>4, <1>5, <1>6, <1>7, <1>8, <1>9, <1>10 DEF WriteNext, Writes

(* The functions that only write keep the invariant. *)
LEMMA WriteNextInv == IInv /\ WriteNext => IInv'
  <1> SUFFICES ASSUME IInv, WriteNext PROVE IInv'
    OBVIOUS
  <1>1. UNCHANGED <<call, read, gpios>> /\ Len(msgs) \in Nat
    BY MessagesType, EmptySeq DEF WriteNext, IInv, TypeOK
  <1>2. UNCHANGED <<msgs, msg, byte, bit, ret>>
    BY <1>1 DEF call
  <1>3. scl \in {0, 1} /\ sda \in {0, 1, 2} /\ 0 \in Bit /\ 1 \in Bit /\ Bit = {0, 1} /\ Input = 2
    BY DEF IInv, TypeOK, Bit, Input
  <1>4. TypeOK'
    <2>1. PICK c \in Bit, d \in Bit \cup {Input} :
            Drive(c, d) /\ pc' \in {"configure", "start", "send", "stop", "free"} /\ step' \in 1..4
                        /\ pc \in {"configure", "start", "stop"}
      BY <1>3, WriteNextWrites
    <2>2. /\ scl' \in Bit /\ sda' \in Bit \cup {Input} /\ slave' \in Slaves
          /\ Len(slave'.bits) <= ByteBits /\ stored' \in Seq(AByte)
      BY <2>1, OutsideByte
    <2>3. TypeOK
      BY DEF IInv
    <2>4. QED  BY <1>1, <2>1, <2>2, <2>3, TypeKept
  <1>5. Position'
    BY <1>1, <1>2, WriteNextWrites, MessagesType DEF IInv, Position
  <1>6. CASE pc' # "send"
    <2>1. Listening' /\ Acknowledging'
      BY <1>6 DEF Listening, Acknowledging
    <2>2. Waiting'
      BY <1>3, <1>6, WriteNextWrites, WriteNextSlave DEF Waiting
    <2>3. QED  BY <1>4, <1>5, <2>1, <2>2 DEF IInv
  <1>7. CASE pc' = "send"
    <2>1. /\ pc = "start" /\ step = 4 /\ step' = 1
          /\ slave' = Fresh("address") /\ scl' = 0
      BY <1>7, WriteNextWrites, WriteNextSlave
    <2>2. First /\ bit = 1 /\ First' /\ bit' = 1
      BY <1>2, <2>1 DEF IInv, Position, First
    <2>3. Len(slave'.bits) = 0 /\ slave'.state = "address" /\ ~slave'.pulls
      BY <2>1, EmptySeq DEF Fresh
    <2>4. Listening'
      BY <2>1, <2>2, <2>3 DEF Listening
    <2>5. Acknowledging'
      BY <2>2, Width DEF Acknowledging
    <2>6. Waiting'
      BY <1>7 DEF Waiting
    <2>7. QED  BY <1>4, <1>5, <2>4, <2>5, <2>6 DEF IInv
  <1>8. QED  BY <1>6, <1>7

-----------------------------------------------------------------------------
(* The messages of a call are messages. *)
LEMMA MessageAt ==
  ASSUME NEW ms \in Messages, NEW i \in 1..Len(ms)
  PROVE  ms[i] \in Message /\ Len(ms[i].buf) \in Nat
  <1>1. ms[i] \in Message
    BY MessagesType, ElementOfSeq
  <1>2. QED  BY <1>1, LenProperties DEF Message

(* A new call keeps the invariant. *)
LEMMA CallInv == IInv /\ Call => IInv'
  <1> SUFFICES ASSUME IInv, Call PROVE IInv'
    OBVIOUS
  <1>1. /\ pc = "idle" /\ pc' = "requestSCL" /\ step' = 1 /\ msgs' \in Messages
        /\ msg' = 1 /\ byte' = 0 /\ bit' = 1 /\ ret' = 0 /\ stored' = <<>>
        /\ UNCHANGED <<scl, sda, slave, read, requested, others, stolen>>
    BY DEF Call, gpios
  <1>2. Len(msgs') \in Nat /\ Len(msgs') >= 1
    BY <1>1, MessagesType
  <1>3. Current' = msgs'[1] /\ Len(msgs'[1].buf) \in Nat
    BY <1>1, <1>2, MessageAt DEF Current
  <1>4. TypeOK'
    <2>1. /\ pc' \in {"idle", "requestSCL", "requestSDA", "send", "free"} \cup DOMAIN Writes'
          /\ step' \in 1..4 /\ msgs' \in Messages \cup {<<>>}
      BY <1>1
    <2>2. msg' \in 1..(Len(msgs') + 1)
      BY <1>1, <1>2
    <2>3. byte' \in Nat /\ (msg' <= Len(msgs') => byte' <= Len(Current'.buf))
      BY <1>1, <1>3
    <2>4. bit' \in 1..(ByteBits + 1) /\ ret' \in 0..Len(msgs')
      BY <1>1, <1>2, Width
    <2>5. stored' \in Seq([1..ByteBits -> Bit])
      BY <1>1, EmptySeq
    <2>6. QED  BY <1>1, <2>1, <2>2, <2>3, <2>4, <2>5 DEF TypeOK, IInv
  <1>5. Position'
    BY <1>1 DEF Position
  <1>6. Listening' /\ Acknowledging'
    BY <1>1 DEF Listening, Acknowledging
  <1>7. Waiting'
    BY <1>1 DEF Waiting, IInv
  <1>8. QED  BY <1>4, <1>5, <1>6, <1>7 DEF IInv

(* Steps that only request and free GPIOs: this driver's own, which end or begin a
   function that writes to no line, and those of other drivers. *)
Moves == {<<"requestSCL", "stop">>, <<"requestSCL", "requestSDA">>, <<"requestSDA", "stop">>,
          <<"requestSDA", "configure">>, <<"free", "idle">>}

LEMMA GpioInv ==
  ASSUME IInv, UNCHANGED <<step, call, lines, read>>, pc' = pc \/ <<pc, pc'>> \in Moves,
         requested' \subseteq Pins, others' \subseteq Pins, stolen' \subseteq Pins
  PROVE  IInv'
  <1>1. UNCHANGED <<step, msgs, msg, byte, bit, ret, scl, sda, slave, stored, read>>
    BY DEF call, lines
  <1>2. Current' = Current
    BY <1>1 DEF Current
  <1>3. TypeOK'
    <2>1. pc' \in {"idle", "requestSCL", "requestSDA", "send", "free"} \cup DOMAIN Writes'
      BY DEF IInv, TypeOK, Moves, Writes
    <2>2. QED  BY <1>1, <1>2, <2>1 DEF IInv, TypeOK
  <1>4. CASE pc' = pc
    <2>1. First' = First /\ Byte' = Byte
      BY <1>1, <1>2 DEF First, Byte
    <2>2. Position'
      BY <1>1, <1>4 DEF IInv, Position
    <2>3. Listening'
      BY <1>1, <1>4, <2>1 DEF IInv, Listening
    <2>4. Acknowledging'
      BY <1>1, <1>4, <2>1 DEF IInv, Acknowledging
    <2>5. Waiting'
      BY <1>1, <1>4 DEF IInv, Waiting
    <2>6. QED  BY <1>3, <2>2, <2>3, <2>4, <2>5 DEF IInv
  <1>5. CASE <<pc, pc'>> \in Moves
    <2>1. msgs \in Messages /\ Len(msgs) >= 1 /\ Len(msgs) \in Nat
      BY <1>5, MessagesType DEF IInv, Position, Moves
    <2>2. Position'
      BY <1>1, <1>5, <2>1 DEF IInv, Position, Moves
    <2>3. Listening' /\ Acknowledging'
      BY <1>5 DEF Listening, Acknowledging, Moves
    <2>4. Waiting'
      BY <1>1, <1>5 DEF IInv, Waiting, Position, Moves
    <2>5. QED  BY <1>3, <2>2, <2>3, <2>4 DEF IInv
  <1>6. QED  BY <1>4, <1>5

(* The requests, and the return, keep the invariant. *)
LEMMA RequestsInv ==
  IInv /\ (RequestSCL \/ RequestSDA \/ Return \/ \E p \in Pins : OtherRequests(p) \/ OtherFrees(p))
    => IInv'
  <1>1. IInv => requested \subseteq Pins /\ others \subseteq Pins /\ stolen \subseteq Pins
    BY DEF IInv, TypeOK
  <1>2. ASSUME IInv, RequestSCL PROVE IInv'
    BY <1>1, <1>2, GpioInv DEF RequestSCL, Moves, Pins
  <1>3. ASSUME IInv, RequestSDA PROVE IInv'
    BY <1>1, <1>3, GpioInv DEF RequestSDA, Moves, Pins
  <1>4. ASSUME IInv, Return PROVE IInv'
    BY <1>1, <1>4, GpioInv DEF Return, Moves, Pins
  <1>5. ASSUME IInv, NEW p \in Pins, OtherRequests(p) \/ OtherFrees(p) PROVE IInv'
    BY <1>1, <1>5, GpioInv DEF OtherRequests, OtherFrees
  <1>6. QED  BY <1>2, <1>3, <1>4, <1>5

-----------------------------------------------------------------------------
(* While a byte is sent the slave has room for the next bit, and has the whole byte
   when it acknowledges. *)
LEMMA InsideByte ==
  ASSUME IInv, pc = "send", NEW c \in Bit, NEW d \in Bit \cup {Input}, Drive(c, d)
  PROVE  /\ scl' = c /\ sda' = d
         /\ slave' \in Slaves /\ Len(slave'.bits) <= ByteBits /\ stored' \in Seq(AByte)
  <1>1. TypeOK /\ Position /\ Byte \in AByte /\ step \in {1, 2, 3} /\ bit \in 1..(ByteBits + 1)
        /\ ByteBits \in Nat
    BY ByteType, Width DEF IInv, TypeOK, Position
  <1>2. CASE bit <= ByteBits
    <2>1. slave.state \in {"address", "data"}
      BY <1>2 DEF IInv, Listening
    <2>2. scl = 0 => Len(slave.bits) < ByteBits
      BY <1>1, <1>2 DEF IInv, Listening
    <2>3. QED  BY <1>1, <2>1, <2>2, DriveType DEF Drive
  <1>3. CASE bit > ByteBits
    <2>1. slave = Off \/ (slave.state \in {"hello", "ack"} /\ slave.bits = Byte)
      BY <1>3 DEF IInv, Acknowledging
    <2>2. slave.state \notin {"address", "data"} /\ (slave.state \in {"hello", "ack"} => slave.bits \in AByte)
      BY <1>1, <2>1 DEF Off
    <2>3. QED  BY <1>1, <2>2, DriveType DEF Drive
  <1>4. QED  BY <1>1, <1>2, <1>3

(* The type invariant after a step that sends or acknowledges a bit. *)
LEMMA SendType ==
  ASSUME IInv, pc = "send", NEW c \in Bit, NEW d \in Bit \cup {Input}, Drive(c, d),
         pc' \in {"send", "stop"}, step' \in 1..3, UNCHANGED <<msgs, gpios>>,
         bit' \in 1..(ByteBits + 1), read' \in Bit,
         msg' \in 1..(Len(msgs) + 1), ret' \in 0..Len(msgs),
         byte' \in Nat, msg' <= Len(msgs) => byte' <= Len(msgs[msg'].buf)
  PROVE  TypeOK'
  <1>1. scl' \in Bit /\ sda' \in Bit \cup {Input} /\ slave' \in Slaves
        /\ Len(slave'.bits) <= ByteBits /\ stored' \in Seq(AByte)
    BY InsideByte
  <1>2. UNCHANGED <<requested, others, stolen>> /\ msgs' = msgs
    BY DEF gpios
  <1>3. pc' \in {"idle", "requestSCL", "requestSDA", "send", "free"} \cup DOMAIN Writes'
        /\ step' \in 1..4
    BY DEF Writes
  <1>4. Current' = msgs[msg'] /\ msgs' \in Messages \cup {<<>>}
    BY <1>2 DEF Current, IInv, TypeOK
  <1>5. slave' \in [state : {"idle", "address", "hello", "data", "ack"}, bits : Seq(Bit), pulls : BOOLEAN]
    BY <1>1 DEF Slaves, States
  <1>6. requested' \subseteq Pins /\ others' \subseteq Pins /\ stolen' \subseteq Pins
    BY <1>2 DEF IInv, TypeOK
  <1>7. QED  BY <1>1, <1>2, <1>3, <1>4, <1>5, <1>6 DEF TypeOK, AByte

(* One bit of a byte: the slave gets it, and with the last one the whole byte. *)
LEMMA SendBitInv == IInv /\ SendBit => IInv'
  <1> SUFFICES ASSUME IInv, SendBit PROVE IInv'
    OBVIOUS
  <1>1. /\ pc = "send" /\ pc' = "send" /\ bit <= ByteBits
        /\ UNCHANGED <<msgs, msg, byte, ret, read, gpios>>
    BY DEF SendBit
  <1>2. /\ TypeOK /\ Position /\ Byte \in AByte /\ msgs \in Messages
        /\ ByteBits \in Nat /\ bit \in Nat /\ bit >= 1 /\ step \in {1, 2, 3}
        /\ msg \in 1..(Len(msgs) + 1) /\ ret \in 0..Len(msgs) /\ read \in Bit
        /\ byte \in Nat /\ (msg <= Len(msgs) => byte <= Len(msgs[msg].buf))
    BY <1>1, ByteType, Width DEF IInv, TypeOK, Position, Current
  <1>3. Byte' = Byte /\ First' = First /\ bit \in 1..ByteBits /\ Byte[bit] \in Bit
    <2>1. Byte' = Byte /\ First' = First
      BY <1>1 DEF Byte, Current, First
    <2>2. bit \in 1..ByteBits
      BY <1>1, <1>2
    <2>3. QED  BY <1>2, <2>1, <2>2 DEF AByte
  <1>4. sda \in Bit \cup {Input} /\ scl \in Bit /\ 0 \in Bit /\ 1 \in Bit /\ Bit = {0, 1} /\ Input = 2
    BY <1>2 DEF TypeOK, Bit, Input
  <1>5. /\ slave.state = IF First THEN "address" ELSE "data"
        /\ ~slave.pulls /\ slave \in Slaves /\ slave.bits \in Seq(Bit)
        /\ Len(slave.bits) = (IF step = 3 THEN bit ELSE bit - 1)
        /\ \A i \in 1..Len(slave.bits) : slave.bits[i] = Byte[i]
        /\ scl = IF step = 3 THEN 1 ELSE 0
        /\ step > 1 => sda = Byte[bit]
    BY <1>1, <1>2 DEF IInv, Listening, TypeOK, Slaves, States
  <1>6. Position'
    <2>1. step' \in {1, 2, 3}
      BY <1>2 DEF SendBit
    <2>2. QED  BY <1>1, <1>2, <2>1 DEF Position
  <1>7. Waiting'
    BY <1>1 DEF Waiting
  <1>8. CASE step < 3
    <2>1. step' = step + 1 /\ bit' = bit /\ step \in {1, 2}
      BY <1>2, <1>8 DEF SendBit
    <2>2. PICK c \in Bit, d \in Bit \cup {Input} :
            Drive(c, d) /\ (step = 1 => c = scl /\ d = Byte[bit]) /\ (step = 2 => c = 1 /\ d = sda)
      <3>1. CASE step = 1
        BY <1>3, <1>4, <3>1 DEF SendBit, Write
      <3>2. CASE step = 2
        BY <1>3, <1>4, <3>2 DEF SendBit, Write
      <3>3. QED  BY <2>1, <3>1, <3>2
    <2>3. TypeOK'
      BY <1>1, <1>2, <1>3, <2>1, <2>2, SendType
    <2>4. scl' = c /\ sda' = d
      BY <2>2 DEF Drive
    <2>5. CASE step = 1
      <3>1. slave' = slave /\ scl' = 0 /\ sda' = Byte[bit]
        BY <1>5, <2>2, <2>4, <2>5 DEF Drive
      <3>2. Listening'
        BY <1>3, <1>5, <2>1, <2>5, <3>1 DEF Listening
      <3>3. Acknowledging'
        BY <1>1, <2>1, <1>2 DEF Acknowledging
      <3>4. QED  BY <1>6, <1>7, <2>3, <3>2, <3>3 DEF IInv
    <2>6. CASE step = 2
      <3>1. Level(sda) = Byte[bit] /\ sda' = Byte[bit] /\ scl' = 1
        BY <1>3, <1>4, <1>5, <2>2, <2>4, <2>6 DEF Level
      <3>2. slave' = [slave EXCEPT !.bits = Append(@, Byte[bit])]
        BY <1>4, <1>5, <2>2, <2>6, <3>1 DEF Drive
      <3>3. /\ slave'.bits = Append(slave.bits, Byte[bit]) /\ ~slave'.pulls
            /\ slave'.state = slave.state
        BY <1>5, <3>2 DEF Slaves
      <3>4. /\ Len(slave'.bits) = bit
            /\ \A i \in 1..(bit - 1) : slave'.bits[i] = slave.bits[i]
            /\ slave'.bits[bit] = Byte[bit]
        BY <1>2, <1>3, <1>5, <2>6, <3>3, AppendProperties
      <3>5. \A i \in 1..bit : slave'.bits[i] = Byte[i]
        <4>1. \A i \in 1..(bit - 1) : slave.bits[i] = Byte[i]
          BY <1>5, <2>6
        <4>2. \A i \in 1..bit : i \in 1..(bit - 1) \/ i = bit
          BY <1>2
        <4>3. QED  BY <3>4, <4>1, <4>2
      <3>6. Listening'
        BY <1>3, <1>5, <2>1, <2>6, <3>1, <3>3, <3>4, <3>5 DEF Listening
      <3>7. Acknowledging'
        BY <1>1, <2>1, <1>2 DEF Acknowledging
      <3>8. QED  BY <1>6, <1>7, <2>3, <3>6, <3>7 DEF IInv
    <2>7. QED  BY <2>1, <2>5, <2>6
  <1>9. CASE step = 3
    <2>1. step' = 1 /\ bit' = bit + 1 /\ bit' \in 1..(ByteBits + 1)
      BY <1>2, <1>3, <1>9 DEF SendBit
    <2>2. Drive(0, sda) /\ scl = 1 /\ scl' = 0
      BY <1>5, <1>9 DEF SendBit, Write, Drive
    <2>3. TypeOK'
      BY <1>1, <1>2, <1>4, <2>1, <2>2, SendType
    <2>4. Answer /\ Len(slave.bits) = bit
      BY <1>5, <1>9, <2>2 DEF Drive
    <2>5. CASE bit < ByteBits
      <3>1. slave' = slave
        BY <1>2, <1>5, <2>4, <2>5 DEF Answer
      <3>2. Listening'
        BY <1>2, <1>3, <1>5, <2>1, <2>2, <2>4, <3>1 DEF Listening
      <3>3. Acknowledging'
        BY <1>2, <2>1, <2>5 DEF Acknowledging
      <3>4. QED  BY <1>6, <1>7, <2>3, <3>2, <3>3 DEF IInv
    <2>6. CASE bit = ByteBits
      <3>1. slave.bits = Byte
        <4>1. slave.bits \in [1..ByteBits -> Bit]
          BY <1>5, <2>4, <2>6, LenProperties
        <4>2. \A i \in 1..ByteBits : slave.bits[i] = Byte[i]
          BY <1>5, <2>4, <2>6
        <4>3. QED  BY <1>2, <4>1, <4>2 DEF AByte
      <3>2. \/ slave' = Off
            \/ /\ First => slave.bits = Append(Own, 0)
               /\ slave' = [slave EXCEPT !.state = IF @ = "address" THEN "hello" ELSE "ack", !.pulls = TRUE]
        BY <1>5, <2>4, <2>6 DEF Answer
      <3>3. \/ slave' = Off
            \/ /\ slave'.state = IF First THEN "hello" ELSE "ack"
               /\ slave'.pulls /\ slave'.bits = Byte
               /\ First => Byte = Append(Own, 0)
        BY <1>5, <3>1, <3>2 DEF Slaves
      <3>4. ~(bit' <= ByteBits)
        BY <1>2, <2>1, <2>6
      <3>5. Listening'
        BY <3>4 DEF Listening
      <3>6. Acknowledging'
        BY <1>3, <2>1, <2>2, <3>3, <3>4 DEF Acknowledging
      <3>7. QED  BY <1>6, <1>7, <2>3, <3>5, <3>6 DEF IInv
    <2>7. QED  BY <1>2, <1>3, <2>5, <2>6
  <1>10. QED  BY <1>2, <1>8, <1>9

(* Reading the acknowledge: the driver sees what the slave does with SDA. *)
LEMMA ReadAckInv == IInv /\ ReadAck => IInv'
  <1> SUFFICES ASSUME IInv, ReadAck PROVE IInv'
    OBVIOUS
  <1>1. /\ pc = "send" /\ pc' = "send" /\ bit > ByteBits /\ step' = step + 1 /\ step < 3
        /\ UNCHANGED <<msgs, msg, byte, bit, ret, gpios>>
    BY DEF ReadAck, call
  <1>2. /\ Position /\ msgs \in Messages /\ ByteBits \in Nat /\ step \in {1, 2}
        /\ msg \in 1..(Len(msgs) + 1) /\ ret \in 0..Len(msgs) /\ read \in Bit
        /\ bit \in 1..(ByteBits + 1)
        /\ byte \in Nat /\ (msg <= Len(msgs) => byte <= Len(msgs[msg].buf))
    BY <1>1, ByteType, Width DEF IInv, TypeOK, Current
  <1>3. Byte' = Byte /\ First' = First
    BY <1>1 DEF Byte, Current, First
  <1>4. /\ sda \in Bit \cup {Input} /\ scl \in Bit /\ 0 \in Bit /\ 1 \in Bit /\ Bit = {0, 1} /\ Input = 2
        /\ Input \in Bit \cup {Input}
    BY DEF IInv, TypeOK, Bit, Input
  <1>5. /\ scl = (IF step = 1 THEN 0 ELSE 1)
        /\ \/ slave = Off
           \/ /\ slave.state = IF First THEN "hello" ELSE "ack"
              /\ slave.pulls /\ slave.bits = Byte
              /\ First => Byte = Append(Own, 0)
    BY <1>1, <1>2 DEF IInv, Acknowledging
  <1>6. Position'
    BY <1>1, <1>2 DEF Position
  <1>7. Waiting' /\ Listening'
    <2>1. ~(bit' <= ByteBits)
      BY <1>1, <1>2
    <2>2. QED  BY <1>1, <2>1 DEF Waiting, Listening
  <1>8. CASE step = 1
    <2>1. Drive(1, sda) /\ scl = 0 /\ read' = read /\ step' = 2
      BY <1>1, <1>5, <1>8 DEF ReadAck, Write
    <2>2. TypeOK'
      <3>1. step' \in 1..3
        BY <2>1
      <3>2. QED  BY <1>1, <1>2, <1>4, <2>1, <3>1, SendType
    <2>3. slave' = slave /\ scl' = 1
      BY <1>5, <2>1 DEF Drive, Off
    <2>4. Acknowledging'
      BY <1>3, <1>5, <2>1, <2>3 DEF Acknowledging
    <2>5. QED  BY <1>6, <1>7, <2>2, <2>4 DEF IInv
  <1>9. CASE step = 2
    <2>1. Drive(1, Input) /\ scl = 1 /\ read' = Level(Input) /\ step' = 3
      BY <1>1, <1>5, <1>9 DEF ReadAck, Write
    <2>2. TypeOK'
      <3>1. step' \in 1..3 /\ read' \in Bit
        BY <1>4, <2>1 DEF Level
      <3>2. QED  BY <1>1, <1>2, <1>4, <2>1, <3>1, SendType
    <2>3. scl' = 1 /\ sda' = Input
      BY <2>1 DEF Drive
    <2>4. ~(Level(Input) < Level(sda)) /\ (slave.pulls => Level(Input) = Level(sda))
      BY <1>4 DEF Level
    <2>5. slave' = slave
      <3>1. CASE slave = Off
        BY <2>1, <2>4, <3>1 DEF Drive
      <3>2. CASE slave.pulls
        <4>1. ~(Level(Input) > Level(sda))
          BY <2>4, <3>2 DEF Level
        <4>2. QED  BY <2>1, <2>4, <4>1 DEF Drive
      <3>3. QED  BY <1>5, <3>1, <3>2
    <2>6. read' = 0 <=> slave'.pulls
      BY <1>4, <2>1, <2>5 DEF Level
    <2>7. Acknowledging'
      BY <1>3, <1>5, <2>1, <2>3, <2>5, <2>6 DEF Acknowledging
    <2>8. QED  BY <1>6, <1>7, <2>2, <2>7 DEF IInv
  <1>10. QED  BY <1>2, <1>8, <1>9

(* After the acknowledge: the slave waits for the next byte if the driver sends one,
   and for a START if it refused this one. *)
LEMMA TakeAckInv == IInv /\ TakeAck => IInv'
  <1> SUFFICES ASSUME IInv, TakeAck PROVE IInv'
    OBVIOUS
  <1>1. /\ pc = "send" /\ bit > ByteBits /\ step = 3 /\ step' = 1 /\ bit' = 1
        /\ UNCHANGED <<msgs, read, gpios>>
    BY DEF TakeAck
  <1>2. /\ Position /\ msgs \in Messages /\ ByteBits \in Nat /\ ByteBits >= 1 /\ bit \in Nat
        /\ msg \in 1..Len(msgs) /\ ret = msg - 1 /\ read \in {0, 1} /\ Len(msgs) \in Nat
        /\ byte \in Nat /\ byte <= Len(msgs[msg].buf) /\ Current = msgs[msg]
        /\ Len(Current.buf) \in Nat /\ 0 \in Bit /\ 1 \in Bit /\ Input \in Bit \cup {Input}
    BY <1>1, ByteType, Width, MessagesType DEF IInv, TypeOK, Bit, Position
  <1>3. /\ scl = 1 /\ sda = Input /\ (read = 0 <=> slave.pulls)
        /\ \/ slave = Off
           \/ slave.state \in {"hello", "ack"} /\ slave.pulls
    BY <1>1, <1>2 DEF IInv, Acknowledging
  <1>4. Drive(0, Input) /\ Answer /\ scl' = 0
    BY <1>3 DEF TakeAck, Write, Drive
  <1>5. /\ read = 1 => slave = Off /\ slave' = Off
        /\ read = 0 => slave' = Fresh("data")
    BY <1>2, <1>3, <1>4 DEF Answer, Off, Fresh
  <1>6. step' \in 1..3 /\ bit' \in 1..(ByteBits + 1) /\ read' \in Bit
    BY <1>1, <1>2 DEF Bit
  <1>7. CASE read = 1 /\ pc' = "stop" /\ ret' = 0 /\ UNCHANGED <<msg, byte>>
    <2>1. msg' \in 1..(Len(msgs) + 1) /\ ret' \in 0..Len(msgs)
      BY <1>2, <1>7
    <2>2. TypeOK'
      BY <1>1, <1>2, <1>4, <1>6, <1>7, <2>1, SendType
    <2>3. Position'
      BY <1>1, <1>2, <1>7 DEF Position
    <2>4. Waiting'
      BY <1>1, <1>4, <1>5, <1>7 DEF Waiting
    <2>5. Listening' /\ Acknowledging'
      BY <1>7 DEF Listening, Acknowledging
    <2>6. QED  BY <2>2, <2>3, <2>4, <2>5 DEF IInv
  <1>8. ASSUME read = 0, pc' = "send", ~First', msg' \in 1..Len(msgs), ret' = msg' - 1,
               byte' \in Nat, byte' <= Len(msgs[msg'].buf)
        PROVE  IInv'
    <2>1. msg' \in 1..(Len(msgs) + 1) /\ ret' \in 0..Len(msgs)
      <3>1. Len(msgs) \in Nat
        BY <1>2
      <3>2. msg' \in 1..Len(msgs) /\ ret' = msg' - 1
        BY <1>8
      <3>3. \A n \in Nat : \A i \in 1..n : i \in 1..(n + 1) /\ i - 1 \in 0..n
        OBVIOUS
      <3>4. QED  BY <3>1, <3>2, <3>3
    <2>2. TypeOK'
      BY <1>1, <1>2, <1>4, <1>6, <1>8, <2>1, SendType
    <2>3. Position'
      BY <1>1, <1>2, <1>8 DEF Position
    <2>4. Waiting'
      BY <1>8 DEF Waiting
    <2>5. slave'.state = "data" /\ ~slave'.pulls /\ Len(slave'.bits) = 0
      BY <1>5, <1>8, EmptySeq DEF Fresh
    <2>6. Listening'
      BY <1>1, <1>4, <1>8, <2>5 DEF Listening
    <2>7. Acknowledging'
      BY <1>1, <1>2 DEF Acknowledging
    <2>8. QED  BY <2>2, <2>3, <2>4, <2>6, <2>7 DEF IInv
  <1>9. CASE read = 0 /\ byte < Len(Current.buf) /\ byte' = byte + 1 /\ UNCHANGED <<pc, msg, ret>>
    <2>1. ~First' /\ msg' \in 1..Len(msgs) /\ ret' = msg' - 1 /\ byte' \in Nat
          /\ byte' <= Len(msgs[msg'].buf) /\ pc' = "send"
      BY <1>1, <1>2, <1>9 DEF First
    <2>2. QED  BY <1>8, <1>9, <2>1
  <1>10. CASE /\ read = 0 /\ msg' = msg + 1 /\ byte' = 0 /\ ret' = ret + 1
              /\ pc' = IF msg < Len(msgs) THEN "send" ELSE "stop"
    <2>1. CASE msg < Len(msgs)
      <3>1. ~First' /\ msg' \in 1..Len(msgs) /\ ret' = msg' - 1 /\ pc' = "send"
        BY <1>2, <1>10, <2>1 DEF First
      <3>2. byte' \in Nat /\ byte' <= Len(msgs[msg'].buf)
        BY <1>2, <1>10, <3>1, MessageAt
      <3>3. QED  BY <1>8, <1>10, <3>1, <3>2
    <2>2. CASE msg = Len(msgs)
      <3>1. /\ pc' = "stop" /\ msg' = Len(msgs) + 1 /\ ret' = Len(msgs) /\ byte' = 0
            /\ msg' \in 1..(Len(msgs) + 1) /\ ret' \in 0..Len(msgs)
        BY <1>2, <1>10, <2>2
      <3>2. ~(msg' <= Len(msgs)) /\ byte' \in Nat
        BY <1>2, <3>1
      <3>3. TypeOK'
        BY <1>1, <1>2, <1>4, <1>6, <3>1, <3>2, SendType
      <3>4. Position'
        BY <1>1, <1>2, <3>1 DEF Position
      <3>5. Waiting'
        BY <1>1, <1>4, <1>5, <1>10, <3>1 DEF Waiting
      <3>6. Listening' /\ Acknowledging'
        BY <3>1 DEF Listening, Acknowledging
      <3>7. QED  BY <3>3, <3>4, <3>5, <3>6 DEF IInv
    <2>3. QED  BY <1>2, <2>1, <2>2
  <1>11. QED  BY <1>7, <1>9, <1>10 DEF TakeAck

-----------------------------------------------------------------------------
(* IInv is an invariant of the bus. *)
LEMMA InvInit == Init => IInv
  <1> SUFFICES ASSUME Init PROVE IInv
    OBVIOUS
  <1>1. /\ pc = "idle" /\ step = 1 /\ msgs = <<>> /\ msg = 1 /\ byte = 0 /\ bit = 1 /\ ret = 0
        /\ scl = 1 /\ sda = 2 /\ read = 1 /\ slave = Off /\ stored = <<>>
        /\ requested = {} /\ others = {} /\ stolen = {}
    BY DEF Init, Input
  <1>2. /\ msg \in 1..(Len(msgs) + 1) /\ ~(msg <= Len(msgs)) /\ ret \in 0..Len(msgs)
        /\ bit \in 1..(ByteBits + 1)
    BY <1>1, EmptySeq, Width
  <1>3. /\ slave \in [state : {"idle", "address", "hello", "data", "ack"}, bits : Seq(Bit), pulls : BOOLEAN]
        /\ Len(slave.bits) <= ByteBits /\ stored \in Seq([1..ByteBits -> Bit])
    BY <1>1, FreshType, EmptySeq, Width DEF Slaves, States
  <1>4. TypeOK
    BY <1>1, <1>2, <1>3 DEF TypeOK, Bit, Input
  <1>5. Position /\ Listening /\ Acknowledging
    BY <1>1 DEF Position, Listening, Acknowledging
  <1>6. Waiting
    BY <1>1 DEF Waiting
  <1>7. QED  BY <1>4, <1>5, <1>6 DEF IInv

LEMMA InvStep == IInv /\ [Next]_vars => IInv'
  <1>1. ASSUME IInv, UNCHANGED vars PROVE IInv'
    BY <1>1, GpioInv DEF vars, gpios, IInv, TypeOK
  <1>2. IInv /\ Next => IInv'
    BY CallInv, RequestsInv, WriteNextInv, SendBitInv, ReadAckInv, TakeAckInv DEF Next, Transfer
  <1>3. QED  BY <1>1, <1>2

LEMMA Invariance == Spec => []IInv
  BY InvInit, InvStep, PTL DEF Spec

(* The variables have their types, for every address, width and message list. *)
THEOREM TypeCorrect == Spec => []TypeOK
  <1>1. IInv => TypeOK
    BY DEF IInv
  <1>2. QED  BY <1>1, Invariance, PTL

(* Between two transfers of the driver the slave waits for a START and holds no
   line, however the transfer ended: refused by the kernel, by the slave or sent. *)
THEOREM AlwaysReleased == Spec => []SlaveReleased
  <1>1. IInv => SlaveReleased
    BY DEF IInv, Waiting, SlaveReleased
  <1>2. QED  BY <1>1, Invariance, PTL

(* The slave has exactly the bits that the driver clocked, most significant first. *)
THEOREM BitsAlwaysArrive == Spec => []BitsArrive
  <1>1. IInv => BitsArrive
    <2> SUFFICES ASSUME IInv, pc = "send", slave.state \in {"address", "data"}
                 PROVE  slave.bits = SubSeq(Byte, 1, IF step = 3 THEN bit ELSE bit - 1)
      BY DEF BitsArrive
    <2> DEFINE n == IF step = 3 THEN bit ELSE bit - 1
    <2>1. Byte \in AByte /\ ByteBits \in Nat /\ bit \in 1..(ByteBits + 1) /\ slave.bits \in Seq(Bit)
      BY ByteType, Width DEF IInv, TypeOK
    <2>2. bit <= ByteBits
      BY <2>1 DEF IInv, Acknowledging, Off
    <2>3. Len(slave.bits) = n /\ \A i \in 1..n : slave.bits[i] = Byte[i]
      BY <2>2 DEF IInv, Listening
    <2>4. n \in Nat /\ n <= ByteBits
      BY <2>1, <2>2
    <2>5. Byte \in Seq(Bit) /\ Len(Byte) = ByteBits
      BY <2>1, IsASeq, LenProperties DEF AByte
    <2>6. \A i \in 1..n : i \in 1..Len(Byte)
      BY <2>4, <2>5
    <2>7. SubSeq(Byte, 1, n) = [i \in 1..n |-> Byte[i]]
      <3> HIDE DEF n
      <3>1. n = 0 => SubSeq(Byte, 1, n) = <<>>
        BY <2>5, SubSeqEmpty
      <3>2. QED  BY <2>4, <2>5, SubSeqRestrict
    <2>8. slave.bits = [i \in 1..n |-> slave.bits[i]]
      BY <2>1, <2>3, LenProperties
    <2>9. QED  BY <2>3, <2>7, <2>8
  <1>2. QED  BY <1>1, Invariance, PTL

-----------------------------------------------------------------------------
(* Outside the acknowledge the slave takes nothing. *)
LEMMA StoredKept ==
  ASSUME NEW c, NEW d, Drive(c, d), slave.state \notin {"hello", "ack"} \/ c = 1
  PROVE  stored' = stored
  BY DEF Drive, Answer

(* The steps that are none of I2CTransfer. *)
LEMMA Stutters ==
  ASSUME IInv, WriteNext \/ SendBit \/ ReadAck
  PROVE  UNCHANGED Meaning!vars
  <1>1. UNCHANGED <<msgs, msg, byte, ret>>
    BY DEF WriteNext, SendBit, ReadAck, call
  <1>2. CASE WriteNext
    <2>1. step \in {1, 2, 3, 4} /\ pc \in {"configure", "start", "stop"}
      BY <1>2 DEF IInv, TypeOK, WriteNext, Writes
    <2>2. slave.state \notin {"hello", "ack"}
      BY <2>1 DEF IInv, Waiting, Off, Fresh
    <2>3. stored' = stored
      BY <1>2, <2>2, WriteNextWrites, StoredKept
    <2>4. QED  BY <1>1, <1>2, <2>3, WriteNextWrites DEF Meaning!vars
  <1>3. CASE SendBit
    <2>1. pc = "send" /\ pc' = "send" /\ slave.state \notin {"hello", "ack"} /\ step \in {1, 2, 3}
      BY <1>3 DEF SendBit, IInv, Listening, Position, TypeOK
    <2>2. stored' = stored
      <3>1. PICK c \in {0, 1, scl}, d \in {sda, Byte[bit]} : Drive(c, d)
        BY <1>3, <2>1 DEF SendBit, Write
      <3>2. QED  BY <2>1, <3>1, StoredKept
    <2>3. QED  BY <1>1, <2>1, <2>2 DEF Meaning!vars
  <1>4. CASE ReadAck
    <2>1. pc = "send" /\ pc' = "send" /\ bit > ByteBits /\ (step = 2 => scl = 1)
      BY <1>4 DEF ReadAck, IInv, Acknowledging
    <2>2. stored' = stored
      <3>1. PICK d : Drive(1, d)
        BY <1>4, <2>1 DEF ReadAck, Write
      <3>2. QED  BY <3>1, StoredKept
    <2>3. QED  BY <1>1, <2>1, <2>2 DEF Meaning!vars
  <1>5. QED  BY <1>2, <1>3, <1>4

(* The acknowledge is the step at which the slave accepts or refuses a byte. *)
LEMMA AckImplements ==
  ASSUME IInv, TakeAck
  PROVE  Meaning!Accept \/ Meaning!Refuse
  <1>1. pc = "send" /\ bit > ByteBits /\ step = 3 /\ UNCHANGED msgs
    BY DEF TakeAck
  <1>2. /\ msgs \in Messages /\ msg \in 1..Len(msgs) /\ ret = msg - 1 /\ Current = msgs[msg]
        /\ Len(msgs) \in Nat /\ msg <= Len(msgs) /\ ret + 1 # 0 /\ read \in {0, 1}
    BY <1>1, ByteType, MessagesType DEF IInv, Position, TypeOK, Bit
  <1>3. /\ scl = 1 /\ (read = 0 <=> slave.pulls)
        /\ \/ slave = Off
           \/ /\ slave.state = IF First THEN "hello" ELSE "ack"
              /\ slave.pulls /\ slave.bits = Byte
              /\ First => Byte = Append(Own, 0)
    BY <1>1 DEF IInv, Acknowledging
  <1>4. Drive(0, sda)
    BY DEF TakeAck, Write
  <1>5. Answer
    BY <1>3, <1>4 DEF Drive
  <1>6. CASE read = 1
    <2>1. slave = Off /\ pc' = "stop" /\ ret' = 0 /\ UNCHANGED <<msg, byte>>
      BY <1>3, <1>6 DEF TakeAck, Off
    <2>2. stored' = stored
      BY <1>4, <2>1, StoredKept DEF Off
    <2>3. QED  BY <1>1, <1>2, <2>1, <2>2 DEF Meaning!Refuse
  <1>7. CASE read = 0
    <2>1. /\ slave.state = (IF First THEN "hello" ELSE "ack") /\ slave.bits = Byte
          /\ First => Byte = Append(Own, 0)
      BY <1>3, <1>7 DEF Off
    <2>2. stored' = IF First THEN stored ELSE Append(stored, Byte)
      BY <1>5, <2>1 DEF Answer
    <2>3. First => msgs[1].addr = Own
      <3> SUFFICES ASSUME First PROVE msgs[1].addr = Own
        OBVIOUS
      <3>1. msgs[1].addr \in [1..Len(Own) -> Bit] /\ Len(Own) \in Nat
        BY <1>2, MessageAt, Width DEF Message, First
      <3>2. msgs[1].addr \in Seq(Bit) /\ Own \in Seq(Bit) /\ 0 \in Bit
        BY <3>1, IsASeq, OwnAssumption DEF Bit
      <3>3. Append(msgs[1].addr, 0) = Append(Own, 0)
        BY <1>2, <2>1 DEF Byte, First
      <3>4. QED  BY <3>2, <3>3, AppendInjective
    <2>4. Byte = Meaning!Bytes(msgs[msg])
      BY <1>2 DEF Byte, Meaning!Bytes
    <2>5. \/ byte < Len(msgs[msg].buf) /\ byte' = byte + 1 /\ UNCHANGED <<pc, msg, ret>>
          \/ /\ byte = Len(msgs[msg].buf) /\ byte' = 0 /\ msg' = msg + 1 /\ ret' = ret + 1
             /\ pc' \in {"send", "stop"}
      BY <1>2, <1>7 DEF TakeAck
    <2>6. pc' = "send" \/ (pc' = "stop" /\ ret' # 0)
      BY <1>1, <1>2, <2>5
    <2>7. QED  BY <1>1, <1>2, <2>2, <2>3, <2>4, <2>5, <2>6 DEF Meaning!Accept, First
  <1>8. QED  BY <1>2, <1>6, <1>7

(* Every step is one of I2CTransfer or changes nothing there. *)
LEMMA StepImplements == IInv /\ [Next]_vars => [Meaning!Next]_(Meaning!vars)
  <1> SUFFICES ASSUME IInv, [Next]_vars PROVE [Meaning!Next]_(Meaning!vars)
    OBVIOUS
  <1>1. CASE Call
    BY <1>1 DEF Call, Meaning!Next, Meaning!Call
  <1>2. CASE RequestSCL \/ RequestSDA
    <2>1. /\ UNCHANGED <<msgs, msg, byte, ret, stored>>
          /\ pc \in {"requestSCL", "requestSDA"} /\ pc' \in {"requestSDA", "configure", "stop"}
      BY <1>2 DEF RequestSCL, RequestSDA, call, lines
    <2>2. ret = 0 /\ msg <= Len(msgs)
      BY <2>1, MessagesType DEF IInv, Position
    <2>3. CASE pc' = "stop"
      BY <2>1, <2>2, <2>3 DEF Meaning!Next, Meaning!Refuse
    <2>4. CASE pc' # "stop"
      BY <2>1, <2>4 DEF Meaning!vars
    <2>5. QED  BY <2>3, <2>4
  <1>3. CASE WriteNext \/ SendBit \/ ReadAck
    BY <1>3, Stutters
  <1>4. CASE TakeAck
    BY <1>4, AckImplements DEF Meaning!Next
  <1>5. CASE Return
    <2>1. pc = "free" /\ pc' = "idle" /\ UNCHANGED <<msgs, msg, byte, ret, stored>>
      BY <1>5 DEF Return, call, lines
    <2>2. ret = 0 \/ (ret # 0 /\ msg > Len(msgs))
      BY <2>1, MessagesType DEF IInv, Position
    <2>3. QED  BY <2>1, <2>2 DEF Meaning!Next, Meaning!Return
  <1>6. CASE \E p \in Pins : OtherRequests(p) \/ OtherFrees(p)
    BY <1>6 DEF OtherRequests, OtherFrees, call, lines, Meaning!vars
  <1>7. CASE UNCHANGED vars
    BY <1>7 DEF vars, call, lines, Meaning!vars
  <1>8. QED  BY <1>1, <1>2, <1>3, <1>4, <1>5, <1>6, <1>7 DEF Next, Transfer

(* The writes to two GPIOs send messages as I2CTransfer says: the slave takes the
   bytes it acknowledges, whole, in order and once. *)
THEOREM BusImplements == Spec => ImplementsTransfer
  <1>1. Init => Meaning!Init
    BY DEF Init, Meaning!Init
  <1>2. IInv /\ [Next]_vars => [Meaning!Next]_(Meaning!vars)
    BY StepImplements
  <1>3. QED  BY <1>1, <1>2, Invariance, PTL DEF Spec, ImplementsTransfer, Meaning!Spec

-----------------------------------------------------------------------------
(* While bits are sent this driver has its GPIOs to itself, but for those it has
   freed although another driver had them. *)
THEOREM PinsAlwaysRequested == Spec => []PinsRequested
  <1>1. Init => Requested
    BY DEF Init, Requested
  <1>2. Requested /\ [Next]_vars => Requested'
    <2> SUFFICES ASSUME Requested, [Next]_vars PROVE Requested'
      OBVIOUS
    <2>1. CASE Call
      BY <2>1 DEF Call, gpios, Requested
    <2>2. CASE RequestSCL
      BY <2>2 DEF RequestSCL, Requested, Pins
    <2>3. CASE RequestSDA
      BY <2>3 DEF RequestSDA, Requested, Pins
    <2>4. CASE WriteNext
      <3>1. pc \in {"start", "configure"} => pc' \in {"configure", "start", "send"}
        BY <2>4 DEF WriteNext, After
      <3>2. pc \in {"start", "configure", "stop"} /\ (pc = "stop" => pc' \in {"stop", "free"})
        BY <2>4 DEF WriteNext, Writes, After
      <3>3. QED  BY <2>4, <3>1, <3>2 DEF WriteNext, gpios, Requested
    <2>5. CASE SendBit \/ ReadAck
      BY <2>5 DEF SendBit, ReadAck, gpios, Requested
    <2>6. CASE TakeAck
      BY <2>6 DEF TakeAck, gpios, Requested
    <2>7. CASE Return
      BY <2>7 DEF Return, Requested, Pins
    <2>8. CASE \E p \in Pins : OtherRequests(p) \/ OtherFrees(p)
      BY <2>8 DEF OtherRequests, OtherFrees, Requested
    <2>9. CASE UNCHANGED vars
      BY <2>9 DEF vars, gpios, Requested
    <2>10. QED  BY <2>1, <2>2, <2>3, <2>4, <2>5, <2>6, <2>7, <2>8, <2>9 DEF Next, Transfer
  <1>3. Requested => PinsRequested
    BY DEF Requested, PinsRequested
  <1>4. QED  BY <1>1, <1>2, <1>3, PTL DEF Spec

(* SDA is stable while SCL is up, but for START, STOP and the read of a NACK. *)
THEOREM AlwaysStable == Spec => StableWhileHigh
  <1> DEFINE Stable == scl = 1 /\ scl' = 1 /\ Level(sda)' # Level(sda)
                         => pc \in {"start", "stop"} \/ (pc = "send" /\ step = 2 /\ slave.state = "idle")
  <1>1. ASSUME IInv, [Next]_vars PROVE [Stable]_vars
    <2>1. CASE pc \in {"start", "stop"}
      BY <2>1
    <2>2. CASE WriteNext /\ pc = "configure"
      <3>1. Level(sda) = 1
        BY <1>1, <2>2 DEF IInv, Waiting, Level, Off
      <3>2. slave' = Off /\ sda' # 0
        BY <1>1, <2>2, WriteNextSlave
      <3>3. Level(sda)' = 1
        BY <3>2 DEF Level, Off
      <3>4. QED  BY <3>1, <3>3
    <2>3. CASE SendBit
      <3>1. step \in {1, 2, 3} /\ scl = (IF step = 3 THEN 1 ELSE 0) /\ (step = 3 => scl' = 0)
        BY <1>1, <2>3 DEF IInv, Listening, TypeOK, Position, SendBit, Write, Drive
      <3>2. QED  BY <3>1
    <2>4. CASE ReadAck
      <3>1. /\ pc = "send" /\ bit > ByteBits /\ step < 3 /\ step \in {1, 2, 3}
            /\ scl = (IF step = 1 THEN 0 ELSE 1)
            /\ (slave = Off \/ slave.pulls)
        BY <1>1, <2>4 DEF IInv, Acknowledging, TypeOK, Position, ReadAck
      <3>2. step = 2 => Drive(1, Input)
        BY <2>4, <3>1 DEF ReadAck, Write
      <3>3. scl = 1 /\ slave.pulls => slave' = slave
        <4> SUFFICES ASSUME scl = 1, slave.pulls PROVE slave' = slave
          OBVIOUS
        <4>1. Level(Input) = 0 /\ Level(sda) = 0 /\ Drive(1, Input)
          BY <3>1, <3>2 DEF Level
        <4>2. QED  BY <4>1 DEF Drive
      <3>4. scl = 1 /\ slave.pulls => Level(sda) = 0 /\ Level(sda)' = 0
        BY <3>3 DEF Level
      <3>5. QED  BY <3>1, <3>4 DEF Off
    <2>5. CASE TakeAck
      <3>1. scl' = 0
        BY <2>5 DEF TakeAck, Write, Drive
      <3>2. QED  BY <3>1
    <2>6. CASE ~(WriteNext \/ SendBit \/ ReadAck \/ TakeAck)
      <3>1. UNCHANGED <<sda, slave>>
        BY <1>1, <2>6 DEF Next, Transfer, Call, RequestSCL, RequestSDA, Return,
           OtherRequests, OtherFrees, lines, vars
      <3>2. Level(sda)' = Level(sda)
        BY <3>1 DEF Level
      <3>3. QED  BY <3>2
    <2>7. WriteNext => pc \in {"configure", "start", "stop"}
      BY DEF WriteNext, Writes
    <2>8. QED  BY <2>1, <2>2, <2>3, <2>4, <2>5, <2>6, <2>7
  <1>2. QED  BY <1>1, Invariance, PTL DEF Spec, StableWhileHigh
=============================================================================
