------------------------------- MODULE MCHpack ------------------------------
(***************************************************************************)
(* Four names, one of them sensitive; the static table has the length of   *)
(* the real one and holds a whole field first and a bare name last, so     *)
(* that indexes take one byte or more in each representation. A new table  *)
(* has room for 110: fields take from 34 to 47, one takes more than the    *)
(* limit for indexing and one more than any table.                         *)
(*                                                                         *)
(* The strings have codes of 5 to 30 bits, with and without padding; one   *)
(* is empty and one has a length of two bytes when it is coded.            *)
(***************************************************************************)
EXTENDS Hpack

method == <<58, 109>>                                       \* :m
cookie == <<99, 115, 107>>                                  \* csk
page   == <<47, 80, 38, 63, 39, 35, 36, 94, 60>>            \* /P&?'#$^<
other  == <<120>>
empty  == <<>>
short  == <<10, 48, 48, 233, 255, 127>>
long   == [i \in 1..80 |-> 195]

MCName  == {method, cookie, page, other}
MCValue == {empty, short, long}

FieldOf(name, value) == [name |-> name, value |-> value]

\* One field, never sent, stands for the 59 entries between.
MCStatic ==
    [i \in 1..61 |-> IF i = 61 THEN FieldOf(cookie, short)
                     ELSE IF i = 1 THEN FieldOf(method, empty)
                     ELSE FieldOf(other, empty)]

MCUsed ==
    {FieldOf(name, value) : name \in {method, cookie, page}, value \in {empty, short}}
        \union {FieldOf(page, long)}

MCSensitive == {cookie}

\* Beyond the strings of the run: every octet alone, and behind one with a code
\* of 30 bits.
EveryOctet == {<<o>> : o \in 0..255} \union {<<10, o>> : o \in 0..255}

ASSUME CodecAssumption ==
    /\ HuffmanReadsBack
    /\ \A text \in EveryOctet : decode_huffman(encode_huffman(text)) = text
=============================================================================
