------------------------------ MODULE MCDht11 ------------------------------
(***************************************************************************)
(* A sensor of short bytes for TLC.  A sensor's humidity and temperature   *)
(* together stay below the byte's size.                                    *)
(***************************************************************************)
EXTENDS Dht11

ByteOf(n) == {k \in Bits : (n \div 2 ^ k) % 2 = 1}

MCTransmissions ==
    {[b \in Bytes |-> CASE b = 0 -> ByteOf(h) [] b = 2 -> ByteOf(t) [] b = 4 -> ByteOf(h + t)
                        [] OTHER -> {}] :
       <<h, t>> \in {m \in (0..(2 ^ ByteBits - 1)) \X (0..(2 ^ ByteBits - 1)) : m[1] + m[2] < 2 ^ ByteBits}}
=============================================================================
