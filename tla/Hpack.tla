------------------------------- MODULE Hpack -------------------------------
(***************************************************************************)
(* Header compression on one connection. Requests: the client's encoder    *)
(* and the server's Decoder, which lives as long as the connection and     *)
(* keeps a Table. Replies: the server's Encoder, made anew for each reply, *)
(* and the client's decoder. Neither side sends its table; each is rebuilt *)
(* from the representations the other one chose.                           *)
(*                                                                         *)
(* Names and values are sequences of octets. A representation is a record  *)
(* in which integers and strings are as they are on the wire. A step is    *)
(* one header field.                                                       *)
(***************************************************************************)
EXTENDS Integers, Sequences, FiniteSetsExt, Huffman

CONSTANTS Name, Value,
          Used,       \* the fields that are sent
          Static,     \* the static table, a sequence of headers
          Sensitive,  \* names the Encoder must not have indexed
          Big,        \* larger fields are not indexed
          MaxSize,    \* 4096, the size of a new table
          Updates,    \* sizes the client may announce
          None

Header == [name : Name, value : Value]

ASSUME TableAssumption ==
    /\ Name \union Value \subseteq Seq(0..255)
    /\ Used \subseteq Header
    /\ \A h \in Used : Len(h.name) < 127 /\ Len(h.value) < 127
    /\ Static \in Seq(Header)
    /\ Sensitive \subseteq Name
    /\ Big \in Nat
    /\ MaxSize \in Nat
    /\ Updates \subseteq 0..MaxSize
    /\ None \notin Header

VARIABLES phase,    \* what is being coded: a request or a reply
          sent,     \* the field given to the encoder last, or None
          got,      \* the field the decoder came up with, or None
          peer,     \* the client's encoder: its table
          table,    \* the server's Decoder: its Table
          enc,      \* the server's Encoder: dynamic_ of its Table
          mirror    \* the client's decoder: its table

vars == <<phase, sent, got, peer, table, enc, mirror>>

Size(h) == Len(h.name) + Len(h.value) + 32

\* The sizes of the first 0, 1, ... entries together.
Sums(hs) ==
    LET sum[i \in 0..Len(hs)] == IF i = 0 THEN 0 ELSE sum[i - 1] + Size(hs[i])
    IN  sum

Total(hs) == Sums(hs)[Len(hs)]

-----------------------------------------------------------------------------
(* Integers. The flags that share the first byte are left out. *)

\* How the numbers up to value are written when they do not fit into the first
\* byte: seven bits in each byte, the lowest first, and the highest bit set in
\* all but the last.
Rest(value) ==
    LET rest[v \in 0..value] ==
            IF v < 128 THEN <<v>> ELSE <<128 + (v % 128)>> \o rest[v \div 128]
    IN  rest

\* The client encodes integers in the same way.
encode_integer(numbits, value) ==
    LET max == 2^numbits - 1
    IN  IF value < max THEN <<value>> ELSE <<max>> \o Rest(value - max)[value - max]

\* What the bytes from one on stand for, up to the first without the highest bit.
Gathered(bytes) ==
    LET value[i \in 2..(Len(bytes) + 1)] ==
            IF i > Len(bytes) THEN 0
            ELSE (bytes[i] % 128) + IF bytes[i] < 128 THEN 0 ELSE 128 * value[i + 1]
    IN  value

\* Mutant: what the first byte stands for is not added.
DecodedRest(numbits, bytes) ==
    IF bytes[1] # 2^numbits - 1 THEN bytes[1] ELSE Gathered(bytes)[2]

\* The sum stays below 2^32 for every index and size that is in use.
decode_integer(numbits, bytes) ==
    IF bytes[1] # 2^numbits - 1 THEN bytes[1] ELSE bytes[1] + Gathered(bytes)[2]

-----------------------------------------------------------------------------
(* Strings. *)

\* The codec of the strings that occur, worked out once.
Huffman ==
    {[text |-> t, octets |-> encode_huffman(t), decoded |-> decode_huffman(encode_huffman(t))] :
        t \in Name \union Value}

String(text, huffman) ==
    LET coded  == CHOOSE c \in Huffman : c.text = text
        octets == IF huffman THEN coded.octets ELSE text
    IN  [huffman |-> huffman, length |-> encode_integer(7, Len(octets)), octets |-> octets]

\* As many octets as the length says, as they are or decoded.
Text(string) ==
    LET octets == SubSeq(string.octets, 1, decode_integer(7, string.length))
    IN  IF string.huffman
        THEN (CHOOSE c \in Huffman : c.octets = octets).decoded
        ELSE octets

\* Every string that occurs can be read back from its code. The codec itself
\* has no proof; this is what the proofs take from it.
HuffmanReadsBack ==
    \A text \in Name \union Value :
        /\ encode_huffman(text) \in Seq(0..255)
        /\ decode_huffman(encode_huffman(text)) = text

-----------------------------------------------------------------------------
(* The tables of the client, as RFC 7541 section 4 has them. *)

\* The longest run of newest entries that fits.
Fit(entries, max) ==
    SubSeq(entries, 1, Max({k \in 0..Len(entries) :
                                Total(SubSeq(entries, 1, k)) <= max}))

-----------------------------------------------------------------------------
(* Table. *)

\* None: the index is out of range.
At(dynamic, i) ==
    LET all == Static \o dynamic IN
    IF i \in 1..Len(all) THEN all[i] ELSE None

\* Entries go from the back until size_ is no more than max_size_.
evict(t) ==
    LET n    == Len(t.dynamic)
        Kept(k) == t.size - Total(SubSeq(t.dynamic, k + 1, n))
        keep == Max({k \in 0..n : Kept(k) <= t.max})
    IN  [t EXCEPT !.dynamic = SubSeq(@, 1, keep), !.size = Kept(keep)]

set_max_size(t, m) == evict([t EXCEPT !.max = m])

\* Mutant: a field larger than the table is left out and the rest stays.
AddIfFits(t, h) ==
    IF Size(h) > t.max THEN t
    ELSE evict([t EXCEPT !.dynamic = <<h>> \o @, !.size = @ + Size(h)])

add(t, h) == evict([t EXCEPT !.dynamic = <<h>> \o @, !.size = @ + Size(h)])

\* The first entry that is h, or else the first of its name, or else 0.
best_match(dynamic, h) ==
    LET all   == Static \o dynamic
        exact == {i \in 1..Len(all) : all[i] = h}
        named == {i \in 1..Len(all) : all[i].name = h.name}
    IN  IF exact # {} THEN Min(exact) ELSE IF named # {} THEN Min(named) ELSE 0

-----------------------------------------------------------------------------
(* Representations. *)

Indexed(i) == [rep |-> "indexed", index |-> encode_integer(7, i)]

IndexBits(indexing) == IF indexing THEN 6 ELSE 4

\* The name is on the wire only when index is 0.
Literal(i, h, indexing, huffman) ==
    [rep |-> "literal", index |-> encode_integer(IndexBits(indexing), i),
     name |-> IF i = 0 THEN String(h.name, huffman) ELSE None,
     value |-> String(h.value, huffman), indexing |-> indexing]

\* What a client may choose for h: any index that fits, with or without
\* indexing and Huffman coding.
ClientChoice(h) ==
    LET all == Static \o peer.entries
    IN  {Indexed(i) : i \in {j \in 1..Len(all) : all[j] = h}}
        \union {Literal(i, h, indexing, huffman) :
                    i \in {0} \union {j \in 1..Len(all) : all[j].name = h.name},
                    indexing \in BOOLEAN, huffman \in BOOLEAN}

\* The header a representation stands for, or None.
Field(dynamic, r) ==
    LET numbits == IF r.rep = "indexed" THEN 7 ELSE IndexBits(r.indexing)
        index   == decode_integer(numbits, r.index)
        entry   == At(dynamic, index)
    IN  IF r.rep = "indexed" THEN entry
        ELSE IF index = 0 THEN [name |-> Text(r.name), value |-> Text(r.value)]
        ELSE IF entry = None THEN None
        ELSE [name |-> entry.name, value |-> Text(r.value)]

\* Mutant: an entry of the same name is taken for the field.
EncodedByName(dynamic, h, indexing) ==
    LET i == best_match(dynamic, h)
    IN  IF i # 0
        THEN [out |-> Indexed(i), dynamic |-> dynamic]
        ELSE [out |-> Literal(i, h, indexing, TRUE), dynamic |-> dynamic]

\* Encoder::encode, which Huffman-codes every string: what it writes and its own table afterwards.
Encoded(dynamic, h, indexing) ==
    LET i == best_match(dynamic, h)
    IN  IF i # 0 /\ At(dynamic, i) = h
        THEN [out |-> Indexed(i), dynamic |-> dynamic]
        ELSE [out |-> Literal(i, h, indexing, TRUE), dynamic |-> dynamic]

\* Mutant: only the size decides on indexing.
EncodeOpenly(dynamic, h) == Encoded(dynamic, h, Size(h) <= Big)

\* Nothing is ever added to the encoder's own table.
encode(dynamic, h) ==
    Encoded(dynamic, h, h.name \notin Sensitive /\ Size(h) <= Big)

-----------------------------------------------------------------------------

Init ==
    /\ phase = "request"
    /\ sent = None
    /\ got = None
    /\ peer = [entries |-> <<>>, max |-> MaxSize]
    /\ table = [dynamic |-> <<>>, size |-> 0, max |-> MaxSize]
    /\ enc = <<>>
    /\ mirror = <<>>

\* Mutant: the size read from the wire is one too large.
SizeUpdateOff(m) ==
    /\ phase = "request"
    /\ sent = None
    /\ peer' = [entries |-> Fit(peer.entries, m), max |-> m]
    /\ table' = set_max_size(table, m + 1)
    /\ UNCHANGED <<phase, sent, got, enc, mirror>>

\* A dynamic table size update, which comes before the fields of a block.
SizeUpdate(m) ==
    /\ phase = "request"
    /\ sent = None
    /\ peer' = [entries |-> Fit(peer.entries, m), max |-> m]
    /\ table' = set_max_size(table, decode_integer(5, encode_integer(5, m)))
    /\ UNCHANGED <<phase, sent, got, enc, mirror>>

\* One turn of Decoder::decode_lowmem. Nothing is called back, nor added, when
\* the index is out of range.
decode(r) ==
    /\ got' = Field(table.dynamic, r)
    /\ table' = IF r.rep = "literal" /\ r.indexing /\ got' # None
                THEN add(table, got') ELSE table

\* The client sends one field of a request.
RequestField(h) ==
    /\ phase = "request"
    /\ sent' = h
    /\ \E r \in ClientChoice(h) :
           /\ peer' = IF r.rep = "literal" /\ r.indexing
                      THEN [peer EXCEPT !.entries = Fit(<<h>> \o @, peer.max)]
                      ELSE peer
           /\ decode(r)
    /\ UNCHANGED <<phase, enc, mirror>>

\* The request is complete; respondGet makes an Encoder.
BeginReply ==
    /\ phase = "request"
    /\ sent # None
    /\ phase' = "reply"
    /\ sent' = None
    /\ got' = None
    /\ enc' = <<>>
    /\ UNCHANGED <<peer, table, mirror>>

\* encode_all comes to one field of the reply; the client decodes it.
ReplyField(h) ==
    /\ phase = "reply"
    /\ sent' = h
    /\ LET e == encode(enc, h) IN
           /\ enc' = e.dynamic
           /\ got' = Field(mirror, e.out)
           /\ mirror' = IF e.out.rep = "literal" /\ e.out.indexing /\ got' # None
                        THEN Fit(<<got'>> \o mirror, MaxSize) ELSE mirror
    /\ UNCHANGED <<phase, peer, table>>

EndReply ==
    /\ phase = "reply"
    /\ sent # None
    /\ phase' = "request"
    /\ sent' = None
    /\ got' = None
    /\ UNCHANGED <<peer, table, enc, mirror>>

Next ==
    \/ \E m \in Updates : SizeUpdate(m)
    \/ \E h \in Used : RequestField(h)
    \/ BeginReply
    \/ \E h \in Used : ReplyField(h)
    \/ EndReply

Spec == Init /\ [][Next]_vars

-----------------------------------------------------------------------------
(* Properties. *)

\* Every variable has its type.
TypeOK ==
    /\ phase \in {"request", "reply"}
    /\ sent \in Header \union {None}
    /\ got \in Header \union {None}
    /\ peer \in [entries : Seq(Header), max : 0..MaxSize]
    /\ table \in [dynamic : Seq(Header), size : Nat, max : 0..MaxSize]
    /\ enc \in Seq(Header)
    /\ mirror \in Seq(Header)

\* The server's Table is the client's table: entry by entry, after evictions,
\* size updates and fields larger than the table, with the size counted right.
TableInStep ==
    /\ table.dynamic = peer.entries
    /\ table.max = peer.max
    /\ table.size = Total(table.dynamic)
    /\ table.size <= table.max

\* A field arrives as it was sent, whatever representation the client chose
\* and whatever it had indexed, evicted or resized before.
FieldsArrive == phase = "request" => got = sent

\* The client reads the fields of a reply as the server meant them, although
\* it indexes what the server tells it to and the server's Encoder starts
\* every reply with an empty table.
RepliesArrive == phase = "reply" => got = sent

\* "A sensitive header is never indexed in the dynamic table", nor is a big
\* one: neither gets into the client's table from a reply.
SensitiveNotIndexed ==
    \A i \in 1..Len(mirror) :
        mirror[i].name \notin Sensitive /\ Size(mirror[i]) <= Big
=============================================================================
