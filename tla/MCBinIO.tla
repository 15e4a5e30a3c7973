-------------------------------- MODULE MCBinIO --------------------------------
(* Small widths for BinIO, and lengths in binary.                              *)
EXTENDS BinIO

MCWordOf == [n \in 0 .. MaxText |-> {i \in Bits : (n \div 2^i) % 2 = 1}]
MCChars == {{}, {0}, {1, 2}}
===============================================================================
