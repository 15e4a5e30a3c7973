------------------------------- MODULE MCMemory --------------------------------
(* Small memories for Memory: bytes of one bit, pages of 8 bytes.               *)
EXTENDS Memory

Data(at, bytes) == [at |-> at, bytes |-> bytes]
Limits(type, min, max, data) == [type |-> type, min |-> min, max |-> max, data |-> data]

\* No memory to speak of; one page, with segments that overlap and an empty one;
\* a maximum; segments that end outside, with a zero and with something else;
\* a maximum no array can have, and a minimum.
MCPrograms == {
  Limits(0, 0, 0, <<>>),
  Limits(0, 1, 1, <<Data(1, <<1, 0, 1>>), Data(3, <<>>), Data(2, <<0, 0>>)>>),
  Limits(1, 1, 2, <<Data(6, <<1, 1, 1>>)>>),
  Limits(0, 1, 1, <<Data(7, <<1, 0>>)>>),
  Limits(0, 1, 1, <<Data(7, <<1, 1>>)>>),
  Limits(1, 1, 4, <<Data(0, <<1>>)>>),
  Limits(0, 4, 4, <<>>)}

MCPatterns == {<<1, 1, 0, 1, 1, 0, 1, 0>>, <<0, 0, 1, 0, 0, 1, 0, 1>>}
MCAddresses == {-1, 0, 7, 9}
MCDeltas == {-1, 0, 1, 2}
MCBuffers == {Data(6, <<1, 0>>), Data(12, <<0, 1, 1>>)}
===============================================================================
