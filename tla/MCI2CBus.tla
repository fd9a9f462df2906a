------------------------------ MODULE MCI2CBus ------------------------------
(* Addresses of one bit, bytes of two bits: one message of up to two bytes or two
   of up to one byte. *)
EXTENDS I2CBus

MCOwn == <<1>>

One == [addr : {<<0>>, <<1>>}, buf : {<<>>} \cup {<<b>> : b \in {<<0, 1>>, <<1, 0>>}}]
Long == [addr : {<<0>>, <<1>>}, buf : {<<b, c>> : b, c \in {<<0, 0>>, <<0, 1>>, <<1, 0>>, <<1, 1>>}}]

MCMessages == {<<m>> : m \in Long \cup One} \cup {<<m, n>> : m, n \in One}
=============================================================================
