------------------------------- MODULE Huffman ------------------------------
(***************************************************************************)
(* encode_huffman and decode_huffman of hpack-huffman.cc. Symbols are the  *)
(* octets and EOS; a text is a sequence of octets.                         *)
(***************************************************************************)
EXTENDS Integers, Sequences, SequencesExt

EOS == 256

\* The codes of one length: the first of the symbols has the code first, the
\* next one the next code, and so on.
Codes(numbits, first, symbols) ==
    [numbits |-> numbits, first |-> first, symbols |-> symbols]

\* The table in the order of its codes.
kHuffmanTable ==
    <<Codes(5, 0, <<48, 49, 50, 97, 99, 101, 105, 111, 115, 116>>),
      Codes(6, 20, <<
            32, 37, 45, 46, 47, 51, 52, 53, 54, 55, 56, 57, 61, 65, 95, 98,
            100, 102, 103, 104, 108, 109, 110, 112, 114, 117>>),
      Codes(7, 92, <<
            58, 66, 67, 68, 69, 70, 71, 72, 73, 74, 75, 76, 77, 78, 79, 80, 81,
            82, 83, 84, 85, 86, 87, 89, 106, 107, 113, 118, 119, 120, 121,
            122>>),
      Codes(8, 248, <<38, 42, 44, 59, 88, 90>>),
      Codes(10, 1016, <<33, 34, 40, 41, 63>>),
      Codes(11, 2042, <<39, 43, 124>>),
      Codes(12, 4090, <<35, 62>>),
      Codes(13, 8184, <<0, 36, 64, 91, 93, 126>>),
      Codes(14, 16380, <<94, 125>>),
      Codes(15, 32764, <<60, 96, 123>>),
      Codes(19, 524272, <<92, 195, 208>>),
      Codes(20, 1048550, <<128, 130, 131, 162, 184, 194, 224, 226>>),
      Codes(21, 2097116, <<
            153, 161, 167, 172, 176, 177, 179, 209, 216, 217, 227, 229, 230>>),
      Codes(22, 4194258, <<
            129, 132, 133, 134, 136, 146, 154, 156, 160, 163, 164, 169, 170,
            173, 178, 181, 185, 186, 187, 189, 190, 196, 198, 228, 232, 233>>),
      Codes(23, 8388568, <<
            1, 135, 137, 138, 139, 140, 141, 143, 147, 149, 150, 151, 152, 155,
            157, 158, 165, 166, 168, 174, 175, 180, 182, 183, 188, 191, 197,
            231, 239>>),
      Codes(24, 16777194, <<
            9, 142, 144, 145, 148, 159, 171, 206, 215, 225, 236, 237>>),
      Codes(25, 33554412, <<199, 207, 234, 235>>),
      Codes(26, 67108832, <<
            192, 193, 200, 201, 202, 205, 210, 213, 218, 219, 238, 240, 242,
            243, 255>>),
      Codes(27, 134217694, <<
            203, 204, 211, 212, 214, 221, 222, 223, 241, 244, 245, 246, 247,
            248, 250, 251, 252, 253, 254>>),
      Codes(28, 268435426, <<
            2, 3, 4, 5, 6, 7, 8, 11, 12, 14, 15, 16, 17, 18, 19, 20, 21, 23,
            24, 25, 26, 27, 28, 29, 30, 31, 127, 220, 249>>),
      Codes(30, 1073741820, <<10, 13, 22, 256>>)>>

Rows == DOMAIN kHuffmanTable

Bits(number, n) == [i \in 1..n |-> (number \div 2^(n - i)) % 2]

Ones(n) == [i \in 1..n |-> 1]

CodeOf(s) ==
    LET r == CHOOSE r \in Rows : Contains(kHuffmanTable[r].symbols, s)
        row == kHuffmanTable[r]
        place == CHOOSE k \in DOMAIN row.symbols : row.symbols[k] = s
    IN  Bits(row.first + place - 1, row.numbits)

Octets(bits) ==
    [i \in 1..(Len(bits) \div 8) |->
        FoldLeft(LAMBDA n, bit : 2 * n + bit, 0, SubSeq(bits, 8 * i - 7, 8 * i))]

\* The codes one after the other, with ones up to the end of the last octet.
encode_huffman(text) ==
    LET bits == FlattenSeq([i \in DOMAIN text |-> CodeOf(text[i])])
    IN  Octets(bits \o Ones((8 - (Len(bits) % 8)) % 8))

\* Symbols are taken off as long as the next bits are a code. What is left must
\* be ones, fewer than an octet of them; when it is not, or when EOS comes up,
\* the text ends in EOS and is given up.
decode_huffman(octets) ==
    LET n == 8 * Len(octets)
        Bit(i) == (octets[(i + 7) \div 8] \div 2^((n - i) % 8)) % 2
        number[i \in 1..n, l \in 0..30] ==
            IF l = 0 THEN 0 ELSE 2 * number[i, l - 1] + Bit(i + l - 1)
        Place(i, row) == number[i, row.numbits] - row.first + 1
        Next(i) == {r \in Rows :
                       LET row == kHuffmanTable[r]
                       IN  /\ i + row.numbits - 1 <= n
                           /\ Place(i, row) \in DOMAIN row.symbols}
        Take(i, row) == [symbol |-> row.symbols[Place(i, row)],
                         next   |-> i + row.numbits]
        text[i \in 1..(n + 1)] ==
            IF Next(i) # {}
            THEN LET took == Take(i, kHuffmanTable[CHOOSE r \in Next(i) : TRUE])
                 IN  IF took.symbol = EOS THEN <<EOS>>
                     ELSE <<took.symbol>> \o text[took.next]
            ELSE IF n + 1 - i < 8 /\ \A k \in i..n : Bit(k) = 1
            THEN <<>> ELSE <<EOS>>
    IN  text[1]
=============================================================================
