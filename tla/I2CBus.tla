------------------------------- MODULE I2CBus -------------------------------
(***************************************************************************)
(* hwm_i2c_xfer of i2c_bus_driver.c: the two GPIO lines, write by write,   *)
(* with a slave that answers to the edges of the lines (the delays of the  *)
(* driver leave it the time) and other drivers that use the same GPIOs.    *)
(* The I2C core serialises the transfers.  The slave pulls SDA down or     *)
(* lets go of it, and wins against a driver that writes a 1.               *)
(***************************************************************************)
EXTENDS Integers, Sequences

CONSTANTS
  Own,       \* the address of the slave, a sequence of bits
  Messages   \* the sequences of messages that callers send

Bit == {0, 1}
Input == 2   \* the direction of SDA, next to the bits it may write
ByteBits == Len(Own) + 1   \* an address and the R/W bit make a byte

ASSUME OwnAssumption == Own \in Seq(Bit)
ASSUME MessagesAssumption ==
  \A ms \in Messages :
    /\ ms # <<>>
    /\ ms \in Seq([addr : [1..Len(Own) -> Bit], buf : Seq([1..ByteBits -> Bit])])

Pins == {"SCL", "SDA"}

VARIABLES
  pc,         \* the function that runs
  step,       \* its next write to a line
  msgs,       \* the messages of the call
  msg, byte,  \* i of hwm_i2c_xfer and num of HWM_I2C_Send, from 1; byte 0 is the address
  bit,        \* i of HWM_I2C_Send_Byte, from 1; ByteBits + 1 is the acknowledge
  ret,        \* the result
  scl, sda,   \* what the driver writes; sda may be an input
  read,       \* what HWM_I2C_Read_SDA returned
  slave,      \* the slave
  stored,     \* the bytes the slave has taken as data
  requested,  \* the GPIOs that the kernel has marked as requested
  others,     \* the GPIOs that another driver has requested and not freed
  stolen      \* those that this driver freed although another had requested them

call == <<msgs, msg, byte, bit, ret>>
lines == <<scl, sda, slave, stored>>
gpios == <<requested, others, stolen>>
vars == <<pc, step, call, lines, read, gpios>>

Current == msgs[msg]
Byte == IF byte = 0 THEN Append(Current.addr, 0) ELSE Current.buf[byte]

Off == [state |-> "idle", bits |-> <<>>, pulls |-> FALSE]

Init ==
  /\ pc = "idle" /\ step = 1
  /\ msgs = <<>> /\ msg = 1 /\ byte = 0 /\ bit = 1 /\ ret = 0
  /\ scl = 1 /\ sda = Input /\ read = 1
  /\ slave = Off /\ stored = <<>>
  /\ requested = {} /\ others = {} /\ stolen = {}

-----------------------------------------------------------------------------
(* The level of SDA when the driver writes d. *)
Level(d) == IF d = 0 \/ slave.pulls THEN 0 ELSE 1

(* The slave at a falling SCL: after the last bit of a byte it acknowledges the
   byte or ignores the bus, and after the acknowledge it takes the next one. *)
Answer ==
  \/ /\ slave.state \in {"address", "data"} /\ Len(slave.bits) = ByteBits
     /\ \/ /\ slave.state = "address" => slave.bits = Append(Own, 0)
           /\ slave' = [slave EXCEPT !.state = IF @ = "address" THEN "hello" ELSE "ack",
                                     !.pulls = TRUE]
        \/ slave' = Off
     /\ UNCHANGED stored
  \/ /\ slave.state \in {"hello", "ack"}
     /\ slave' = [state |-> "data", bits |-> <<>>, pulls |-> FALSE]
     /\ stored' = IF slave.state = "ack" THEN Append(stored, slave.bits) ELSE stored
  \/ /\ slave.state = "idle" \/ (slave.state \in {"address", "data"} /\ Len(slave.bits) # ByteBits)
     /\ UNCHANGED <<slave, stored>>

(* The driver writes c to SCL and d to SDA, one of which is new. *)
Drive(c, d) ==
  /\ scl' = c /\ sda' = d
  /\ \/ /\ scl = 1 /\ c = 1 /\ Level(d) < Level(sda)           \* START
        /\ slave' = [state |-> "address", bits |-> <<>>, pulls |-> FALSE]
        /\ UNCHANGED stored
     \/ /\ scl = 1 /\ c = 1 /\ Level(d) > Level(sda)           \* STOP
        /\ slave' = Off
        /\ UNCHANGED stored
     \/ /\ scl = 0 /\ c = 1                                    \* a bit
        /\ slave' = IF slave.state \in {"address", "data"}
                    THEN [slave EXCEPT !.bits = Append(@, Level(d))] ELSE slave
        /\ UNCHANGED stored
     \/ scl = 1 /\ c = 0 /\ Answer
     \/ /\ scl = c /\ (c = 0 \/ Level(d) = Level(sda))
        /\ UNCHANGED <<slave, stored>>

Write(w) ==
  \/ w[1] = "SCL" /\ Drive(w[2], sda)
  \/ w[1] = "SDA" /\ Drive(scl, w[2])

-----------------------------------------------------------------------------
(* Mutant: num is not reset. *)
Call_KeepsByte ==
  /\ pc = "idle"
  /\ pc' = "requestSCL" /\ step' = 1
  /\ msgs' \in Messages /\ msg' = 1 /\ byte' = byte /\ bit' = 1 /\ ret' = 0
  /\ stored' = <<>>
  /\ UNCHANGED <<scl, sda, slave, read, gpios>>

Call ==
  /\ pc = "idle"
  /\ pc' = "requestSCL" /\ step' = 1
  /\ msgs' \in Messages /\ msg' = 1 /\ byte' = 0 /\ bit' = 1 /\ ret' = 0
  /\ stored' = <<>>
  /\ UNCHANGED <<scl, sda, slave, read, gpios>>

(* Mutant: wait for the GPIO. *)
RequestSCL_Waits ==
  /\ pc = "requestSCL"
  /\ "SCL" \notin requested /\ pc' = "requestSDA"
  /\ requested' = requested \cup {"SCL"} /\ stolen' = stolen \ ({"SCL"} \ others)
  /\ UNCHANGED <<step, call, lines, read, others>>

(* HWM_I2C_Init.  Without a GPIO the transfer goes on with the STOP. *)
RequestSCL ==
  /\ pc = "requestSCL"
  /\ \/ "SCL" \in requested /\ pc' = "stop" /\ UNCHANGED <<requested, stolen>>
     \/ /\ "SCL" \notin requested /\ pc' = "requestSDA"
        /\ requested' = requested \cup {"SCL"} /\ stolen' = stolen \ ({"SCL"} \ others)
  /\ UNCHANGED <<step, call, lines, read, others>>

(* Mutant: the result of the second gpio_request is not tested. *)
RequestSDA_Unchecked ==
  /\ pc = "requestSDA" /\ pc' = "configure"
  /\ requested' = requested \cup {"SDA"} /\ stolen' = stolen \ ({"SDA"} \ others)
  /\ UNCHANGED <<step, call, lines, read, others>>

RequestSDA ==
  /\ pc = "requestSDA"
  /\ \/ "SDA" \in requested /\ pc' = "stop" /\ requested' = requested \ {"SCL"}
     \/ "SDA" \notin requested /\ pc' = "configure" /\ requested' = requested \cup {"SDA"}
  /\ UNCHANGED <<step, call, lines, read, others, stolen>>

(* Mutant: the STOP raises SDA before SCL. *)
Writes_NoStop ==
  [configure |-> << <<"SCL", 1>>, <<"SDA", 1>> >>,
   start     |-> << <<"SDA", 1>>, <<"SCL", 1>>, <<"SDA", 0>>, <<"SCL", 0>> >>,
   stop      |-> << <<"SDA", 0>>, <<"SDA", 1>>, <<"SCL", 1>>, <<"SCL", 0>> >>]

(* The writes of the functions that only write. *)
Writes ==
  [configure |-> << <<"SCL", 1>>, <<"SDA", 1>> >>,
   start     |-> << <<"SDA", 1>>, <<"SCL", 1>>, <<"SDA", 0>>, <<"SCL", 0>> >>,
   stop      |-> << <<"SDA", 0>>, <<"SCL", 1>>, <<"SDA", 1>>, <<"SCL", 0>> >>]

After == [configure |-> "start", start |-> "send", stop |-> "free"]

WriteNext ==
  /\ pc \in DOMAIN Writes
  /\ Write(Writes[pc][step])
  /\ \/ step < Len(Writes[pc]) /\ step' = step + 1 /\ UNCHANGED pc
     \/ step = Len(Writes[pc]) /\ step' = 1 /\ pc' = After[pc]
  /\ UNCHANGED <<call, read, gpios>>

(* Mutant: SCL up before the bit is on SDA. *)
SendBit_ClockFirst ==
  /\ pc = "send" /\ bit <= ByteBits
  /\ Write(<< <<"SCL", 1>>, <<"SDA", Byte[bit]>>, <<"SCL", 0>> >>[step])
  /\ \/ step < 3 /\ step' = step + 1 /\ UNCHANGED bit
     \/ step = 3 /\ step' = 1 /\ bit' = bit + 1
  /\ UNCHANGED <<pc, msgs, msg, byte, ret, read, gpios>>

(* Mutant: the least significant bit first. *)
SendBit_LSB ==
  /\ pc = "send" /\ bit <= ByteBits
  /\ Write(<< <<"SDA", Byte[ByteBits + 1 - bit]>>, <<"SCL", 1>>, <<"SCL", 0>> >>[step])
  /\ \/ step < 3 /\ step' = step + 1 /\ UNCHANGED bit
     \/ step = 3 /\ step' = 1 /\ bit' = bit + 1
  /\ UNCHANGED <<pc, msgs, msg, byte, ret, read, gpios>>

(* HWM_I2C_Send_Addr and HWM_I2C_Send_Byte: SDA, SCL up, SCL down for each bit. *)
SendBit ==
  /\ pc = "send" /\ bit <= ByteBits
  /\ Write(<< <<"SDA", Byte[bit]>>, <<"SCL", 1>>, <<"SCL", 0>> >>[step])
  /\ \/ step < 3 /\ step' = step + 1 /\ UNCHANGED bit
     \/ step = 3 /\ step' = 1 /\ bit' = bit + 1
  /\ UNCHANGED <<pc, msgs, msg, byte, ret, read, gpios>>

(* HWM_I2C_Read_NACK_ACK: SCL up, SDA becomes an input and is read. *)
ReadAck ==
  /\ pc = "send" /\ bit > ByteBits /\ step < 3
  /\ \/ step = 1 /\ Write(<<"SCL", 1>>) /\ UNCHANGED read
     \/ step = 2 /\ Write(<<"SDA", Input>>) /\ read' = Level(Input)
  /\ step' = step + 1
  /\ UNCHANGED <<pc, call, gpios>>

(* Mutant: the error of a data byte is forgotten at the break. *)
TakeAck_NoError ==
  /\ pc = "send" /\ bit > ByteBits /\ step = 3
  /\ Write(<<"SCL", 0>>)
  /\ step' = 1 /\ bit' = 1
  /\ \/ read = 1 /\ byte = 0 /\ pc' = "stop" /\ ret' = 0 /\ UNCHANGED <<msg, byte>>
     \/ /\ read = 0 /\ byte < Len(Current.buf)
        /\ byte' = byte + 1 /\ UNCHANGED <<pc, msg, ret>>
     \/ /\ byte = Len(Current.buf) \/ (read = 1 /\ byte # 0)
        /\ msg' = msg + 1 /\ byte' = 0 /\ ret' = ret + 1
        /\ pc' = IF msg < Len(msgs) THEN "send" ELSE "stop"
  /\ UNCHANGED <<msgs, read, gpios>>

(* SCL down.  After a NACK the transfer stops and forgets the messages it has
   sent; otherwise the next byte, message or the end. *)
TakeAck ==
  /\ pc = "send" /\ bit > ByteBits /\ step = 3
  /\ Write(<<"SCL", 0>>)
  /\ step' = 1 /\ bit' = 1
  /\ \/ read = 1 /\ pc' = "stop" /\ ret' = 0 /\ UNCHANGED <<msg, byte>>
     \/ /\ read = 0 /\ byte < Len(Current.buf)
        /\ byte' = byte + 1 /\ UNCHANGED <<pc, msg, ret>>
     \/ /\ read = 0 /\ byte = Len(Current.buf)
        /\ msg' = msg + 1 /\ byte' = 0 /\ ret' = ret + 1
        /\ pc' = IF msg < Len(msgs) THEN "send" ELSE "stop"
  /\ UNCHANGED <<msgs, read, gpios>>

(* HWM_I2C_DeInit, whoever holds the GPIOs, and the return. *)
Return ==
  /\ pc = "free"
  /\ pc' = "idle"
  /\ requested' = requested \ Pins
  /\ stolen' = stolen \cup (others \cap requested)
  /\ UNCHANGED <<step, call, lines, read, others>>

Transfer ==
  RequestSCL \/ RequestSDA \/ WriteNext \/ SendBit \/ ReadAck \/ TakeAck \/ Return

(* Other drivers. *)
OtherRequests(p) ==
  /\ p \notin requested /\ p \notin others
  /\ requested' = requested \cup {p} /\ others' = others \cup {p}
  /\ UNCHANGED <<pc, step, call, lines, read, stolen>>

OtherFrees(p) ==
  /\ p \in others
  /\ requested' = requested \ {p} /\ others' = others \ {p}
  /\ UNCHANGED <<pc, step, call, lines, read, stolen>>

Next == Call \/ Transfer \/ \E p \in Pins : OtherRequests(p) \/ OtherFrees(p)

Fairness == WF_vars(Transfer)

Spec == Init /\ [][Next]_vars /\ Fairness

-----------------------------------------------------------------------------
(* Type invariant. *)
TypeOK ==
  /\ pc \in {"idle", "requestSCL", "requestSDA", "send", "free"} \cup DOMAIN Writes
  /\ step \in 1..4
  /\ msgs \in Messages \cup {<<>>}
  /\ msg \in 1..(Len(msgs) + 1)
  /\ byte \in Nat /\ (msg <= Len(msgs) => byte <= Len(Current.buf))
  /\ bit \in 1..(ByteBits + 1) /\ ret \in 0..Len(msgs)
  /\ scl \in Bit /\ sda \in Bit \cup {Input} /\ read \in Bit
  /\ slave \in [state : {"idle", "address", "hello", "data", "ack"}, bits : Seq(Bit),
                pulls : BOOLEAN]
  /\ Len(slave.bits) <= ByteBits
  /\ stored \in Seq([1..ByteBits -> Bit])
  /\ requested \subseteq Pins /\ others \subseteq Pins /\ stolen \subseteq Pins

(* A slave that listens has got exactly the bits of the byte that were clocked, the
   most significant first. *)
BitsArrive ==
  pc = "send" /\ slave.state \in {"address", "data"} =>
    slave.bits = SubSeq(Byte, 1, IF step = 3 THEN bit ELSE bit - 1)

(* A transfer does what I2CTransfer says: the slave takes the bytes it acknowledges
   as they are and in order, the driver goes on if and only if the slave did, and
   returns the number of messages or 0. *)
Meaning == INSTANCE I2CTransfer
             WITH state <- IF pc = "idle" THEN "idle"
                           ELSE IF pc \in {"stop", "free"} /\ ret = 0 THEN "refused"
                           ELSE "sending"

ImplementsTransfer == Meaning!Spec

(* When no transfer runs the slave waits for a START and holds no line: every
   path through hwm_i2c_xfer sends its STOP. *)
SlaveReleased == pc = "idle" => slave = Off

(* While SCL is up SDA changes only for START and STOP, and when the driver lets
   go of it to read a NACK after a 0: this edge looks like a STOP. *)
StableWhileHigh ==
  [][scl = 1 /\ scl' = 1 /\ Level(sda)' # Level(sda)
       => pc \in {"start", "stop"} \/ (pc = "send" /\ step = 2 /\ slave.state = "idle")]_vars

(* While bits are sent this driver holds its GPIOs, and no other driver does,
   unless an earlier transfer, which failed, has freed the other's GPIO. *)
PinsRequested ==
  pc \in {"configure", "start", "send"} =>
    \A p \in Pins : p \in others \/ p \notin requested => p \in stolen

(* Every transfer returns. *)
Returns == pc # "idle" ~> pc = "idle"

-----------------------------------------------------------------------------
(* The invariants that the proofs in I2CBus_proofs rest on. *)

(* The position in the messages, and the result so far. *)
Position ==
  /\ pc # "idle" => msgs \in Messages
  /\ pc \in {"requestSCL", "requestSDA", "configure", "start"} =>
       msg = 1 /\ byte = 0 /\ bit = 1 /\ ret = 0
  /\ pc = "send" => msg <= Len(msgs) /\ ret = msg - 1
  /\ pc \in {"stop", "free"} => (ret = 0 /\ msg <= Len(msgs)) \/ (ret = Len(msgs) /\ msg = ret + 1)
  /\ pc \in {"idle", "requestSCL", "requestSDA", "free"} => step = 1
  /\ pc = "configure" => step <= 2
  /\ pc = "send" => step <= 3

First == msg = 1 /\ byte = 0

Fresh(state) == [state |-> state, bits |-> <<>>, pulls |-> FALSE]

(* The slave listens to the bits of a byte. *)
Listening ==
  pc = "send" /\ bit <= ByteBits =>
    /\ scl = IF step = 3 THEN 1 ELSE 0
    /\ step > 1 => sda = Byte[bit]
    /\ slave.state = IF First THEN "address" ELSE "data"
    /\ ~slave.pulls
    /\ Len(slave.bits) = IF step = 3 THEN bit ELSE bit - 1
    /\ \A i \in 1..Len(slave.bits) : slave.bits[i] = Byte[i]

(* It has acknowledged or refused the byte. *)
Acknowledging ==
  pc = "send" /\ bit > ByteBits =>
    /\ scl = IF step = 1 THEN 0 ELSE 1
    /\ step = 3 => sda = Input /\ (read = 0 <=> slave.pulls)
    /\ \/ slave = Off
       \/ /\ slave.state = IF First THEN "hello" ELSE "ack"
          /\ slave.pulls /\ slave.bits = Byte
          /\ First => Byte = Append(Own, 0)

(* It does not listen before the START and after the STOP. *)
Waiting ==
  /\ pc \in {"idle", "requestSCL", "requestSDA", "configure", "free"} => slave = Off /\ sda # 0
  /\ pc = "configure" /\ step = 2 => scl = 1
  /\ pc = "start" /\ step <= 3 => slave = Off /\ sda # 0 /\ scl = 1
  /\ pc = "start" /\ step = 4 => slave = Fresh("address") /\ sda = 0 /\ scl = 1
  /\ pc = "stop" /\ step = 1 => \/ slave = Off /\ (scl = 1 => sda # 0)
                                \/ slave = Fresh("data") /\ scl = 0
  /\ pc = "stop" /\ step = 2 => sda = 0 /\ slave \in {Off, Fresh("data"), Fresh("address")}
  /\ pc = "stop" /\ step = 3 => sda = 0 /\ scl = 1 /\ ~slave.pulls /\ slave.state \notin {"hello", "ack"}
  /\ pc = "stop" /\ step = 4 => sda = 1 /\ scl = 1 /\ slave = Off

(* The GPIOs that another driver believes to have, and those that this driver has. *)
Requested ==
  /\ \A p \in others \ requested : p \in stolen
  /\ \A p \in Pins :
       (pc = "requestSDA" /\ p = "SCL") \/ pc \in {"configure", "start", "send"} =>
         (p \in others \/ p \notin requested => p \in stolen)

IInv == TypeOK /\ Position /\ Listening /\ Acknowledging /\ Waiting
=============================================================================
