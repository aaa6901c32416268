-------------------------- MODULE MCIncrementalWire --------------------------
(* The incremental worker with the codec of its two pipes, whose properties*)
(* are checked over the byte strings below.                                *)
EXTENDS MCIncrementalWorker, IncrementalWire

(* Tags of fields 1, 2 and 3 with each wire type, lengths 0 and 1, bytes   *)
(* with the continuation bit: every string of up to three of them, and     *)
(* every string of four of those that begin, end or continue something.    *)
Symbols == {0, 1, 8, 10, 11, 12, 13, 18, 20, 24, 128, 255}
Joints == {1, 8, 10, 11, 12, 24, 128}

Repeated(byte, n) == [i \in 1..n |-> byte]

(* Varints of ten bytes with every last byte, tags of 32 bits and more,    *)
(* fields of eight and four bytes, groups within groups, an input with a   *)
(* path and a digest, texts that are not UTF-8, messages as long as and    *)
(* longer than a frame may be.                                             *)
Curated ==
  {<<8>> \o Repeated(255, 9) \o <<b>> : b \in {0, 1, 2, 128}}
  \cup {<<10>> \o Repeated(b, 9) \o <<1>> : b \in {128, 255}}
  \cup {Repeated(255, 4) \o <<b>> \o <<0>> : b \in {13, 15, 16, 127}}
  \cup {<<136>> \o Repeated(128, n) \o <<0, 1>> : n \in {3, 7, 8, 9}}
  \cup {<<t>> \o Repeated(7, n) : t \in {9, 13}, n \in {3, 4, 7, 8, 9}}
  \cup {Repeated(11, n) \o Repeated(12, m) : n, m \in 1..4}
  \cup {<<11, 19, 8, 1, 20, 12, 24, 5>>, <<11, 19, 12, 20>>, <<139, 128, 0, 12>>}
  \cup {<<18, 7, 10, 1, 97, 18, 2, 9, 9>>, <<18, 4, 10, 2, 97, 98, 10, 1, 99, 24, 7, 40, 1>>}
  \cup {<<18, 3, 10, 1, 200>>, <<10, 2, 195, 169>>, <<10, 2, 192, 128>>, <<10, 3, 237, 160, 128>>}
  \cup {Repeated(0, n) : n \in {127, 128, 129, 130, 131}}

MCSamples == Curated \cup UNION {[1..n -> Symbols] : n \in 0..3} \cup [1..4 -> Joints]

MCLengths ==
  {<<131, 1>>, <<128, 128, 128, 128, 1>>, Repeated(255, 4) \o <<15>>, Repeated(255, 4) \o <<127>>}
  \cup {Repeated(128, n) \o <<0>> : n \in {5, 6, 9}}

MCTexts == {<<>>, <<97>>, <<195, 169>>, Repeated(98, 128)}

MCRequestIds == {0, 1, 127, 128, 2^28, 2147483647, -1, -128, -(2^28), -2147483647 - 1}
=============================================================================
