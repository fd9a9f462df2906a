---------------------------- MODULE I2CTransfer ----------------------------
(***************************************************************************)
(* What a transfer on the bus of i2c_bus_driver.c means, without pins and  *)
(* bits: a caller hands over messages, the slave accepts them byte by byte *)
(* or refuses one, and the caller gets the number of messages sent, or 0.  *)
(* Only one START is sent: the slave takes the address of every message    *)
(* but the first for data.                                                 *)
(***************************************************************************)
EXTENDS Integers, Sequences

CONSTANTS
  Own,       \* the address of the slave, a sequence of bits
  Messages   \* the sequences of messages that callers send

VARIABLES
  state,   \* "idle", "sending" or "refused"
  msgs,    \* the messages of the call
  msg,     \* the current message
  byte,    \* its next byte; 0 is the address
  stored,  \* the bytes the slave has taken as data
  ret      \* the result

vars == <<state, msgs, msg, byte, stored, ret>>

Bytes(m) == IF byte = 0 THEN Append(m.addr, 0) ELSE m.buf[byte]

Init ==
  /\ state = "idle" /\ msgs = <<>> /\ msg = 1 /\ byte = 0
  /\ stored = <<>> /\ ret = 0

Call ==
  /\ state = "idle"
  /\ state' = "sending" /\ msgs' \in Messages
  /\ msg' = 1 /\ byte' = 0 /\ stored' = <<>> /\ ret' = 0

Accept ==
  /\ state = "sending" /\ msg <= Len(msgs)
  /\ \/ msg = 1 /\ byte = 0 /\ msgs[1].addr = Own /\ UNCHANGED stored
     \/ (msg # 1 \/ byte # 0) /\ stored' = Append(stored, Bytes(msgs[msg]))
  /\ \/ byte < Len(msgs[msg].buf) /\ byte' = byte + 1 /\ UNCHANGED <<msg, ret>>
     \/ byte = Len(msgs[msg].buf) /\ byte' = 0 /\ msg' = msg + 1 /\ ret' = ret + 1
  /\ UNCHANGED <<state, msgs>>

(* The slave does not acknowledge a byte, or the pins are not granted. *)
Refuse ==
  /\ state = "sending" /\ msg <= Len(msgs)
  /\ state' = "refused" /\ ret' = 0
  /\ UNCHANGED <<msgs, msg, byte, stored>>

Return ==
  /\ state = "refused" \/ (state = "sending" /\ msg > Len(msgs))
  /\ state' = "idle"
  /\ UNCHANGED <<msgs, msg, byte, stored, ret>>

Next == Call \/ Accept \/ Refuse \/ Return

Spec == Init /\ [][Next]_vars
=============================================================================
