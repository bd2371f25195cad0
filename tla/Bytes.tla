------------------------------- MODULE Bytes -------------------------------
(* Bytes and their exclusive or, as Rust's u8 and C's uint8_t have it. *)
LOCAL INSTANCE Integers

Byte == 0..255

Bit(a, i) == (a \div 2^i) % 2

\* a ^ b, tabulated once.
XorTable ==
  [a \in Byte |-> [b \in Byte |->
     LET low[i \in 0..8] ==  \* the sum of the lowest i bits
           IF i = 0 THEN 0
           ELSE low[i - 1] + 2^(i - 1) * ((Bit(a, i - 1) + Bit(b, i - 1)) % 2)
     IN  low[8]]]
=============================================================================
