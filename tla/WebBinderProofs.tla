-------------------------- MODULE WebBinderProofs --------------------------
(***************************************************************************)
(* Proofs about WebBinder, for any texts, any tree of directories and      *)
(* files, any contents and any number of bindings and changes.             *)
(***************************************************************************)
EXTENDS WebBinder, NumberLemmas, SequenceTheorems, FiniteSetTheorems, TLAPS

\* A URL is in one of the maps at most, with what it was bound to last.
BindInv ==
    \A u \in BindUrl :
        \/ latest[u] = None /\ dirBindings[u] = None /\ fileBindings[u] = None
        \/ /\ latest[u] \in DirPath
           /\ dirBindings[u] = Append(latest[u], Slash)
           /\ fileBindings[u] = None
        \/ /\ latest[u] \in FilePath
           /\ dirBindings[u] = None
           /\ fileBindings[u] = latest[u]

\* A request is served when nothing is bound any more, and keeps to the path
\* its URL led to.
RequestInv ==
    /\ pc = "idle" => reply = None /\ possible = {} /\ ~torn
    /\ pc # "idle" => binds = None /\ url \in Url /\ path = Lookup(url).path
    /\ pc \in {"dirCheck", "list"} => path \in DirPath
    /\ pc \in {"fileCheck", "tryOpen", "open", "measure", "read"} =>
           path \in FilePath
    /\ pc = "notFound" => path = None

\* The answer of this moment is possible, and what the request has learnt of
\* the file system was true at some moment since it began.
AnswerInv ==
    /\ pc \notin {"idle", "done"} => AtOnce(url, path) \in possible
    /\ pc = "probeFile" => path \in FilePath \/ ErrorPage \in possible

\* The open file, if nobody has overwritten it between tellg and read, begins
\* with a document that was at the path.
FileInv ==
    /\ linked => pc \in {"measure", "read"} /\ file = fs[path]
    /\ pc \in {"measure", "read"} => file \in Seq(1..255)
    /\ pc \notin {"measure", "read"} => file = None
    /\ pc \notin {"read", "done"} => ~torn
    /\ pc = "measure" => Document(file) \in possible
    /\ pc = "read" /\ ~torn =>
           size <= Len(file) /\ Document(SubSeq(file, 1, size)) \in possible

\* Only the path of a listing is linked from.
LinksInv ==
    pc = "done" /\ reply.links # {} =>
        /\ path \in DirPath
        /\ \A l \in reply.links : \E p \in Path :
               Len(p) > 2 /\ Parent(p) = path /\ l = [url |-> Link(url, p), path |-> p]

IInv ==
    /\ TypeOK
    /\ BindInv
    /\ RequestInv
    /\ AnswerInv
    /\ FileInv
    /\ AnswersWereTrue
    /\ LinksInv

-----------------------------------------------------------------------------
(* Paths. *)

\* The positions up to some place can be counted.
LEMMA UptoCount ==
    ASSUME NEW n \in Nat, NEW kept \in SUBSET (1..n)
    PROVE  /\ IsFiniteSet(kept) /\ Cardinality(kept) \in Nat
           /\ \A m : IsFiniteSet(Upto(kept, m)) /\ Cardinality(Upto(kept, m)) \in Nat
<1> DEFINE I == 1..n
<1>1. IsFiniteSet(I)
  BY FS_Interval
<1>2. kept \in SUBSET I /\ \A m : Upto(kept, m) \in SUBSET I
  BY DEF Upto
<1> HIDE DEF I
<1>3. IsFiniteSet(kept) /\ \A m : IsFiniteSet(Upto(kept, m))
  BY <1>1, <1>2, FS_Subset
<1>4. QED
  BY <1>3, FS_CardinalityType

\* There is a j-th position for each j up to their number,
LEMMA NthExists ==
    ASSUME NEW n \in Nat, NEW kept \in SUBSET (1..n), NEW j \in 1..Cardinality(kept)
    PROVE  \E i \in kept : Cardinality(Upto(kept, i)) = j
<1> DEFINE Count(m) == Cardinality(Upto(kept, m))
           T == {m \in 0..n : Count(m) >= j}
<1>1. \A k \in kept : k \in Nat /\ 1 <= k /\ k <= n
  OBVIOUS
<1>2. /\ Cardinality(kept) \in Nat
      /\ \A m : IsFiniteSet(Upto(kept, m)) /\ Count(m) \in Nat
  BY UptoCount
<1>3. Upto(kept, n) = kept /\ Upto(kept, 0) = {}
  <2>1. \A k \in kept : k <= n /\ ~(k <= 0)
    BY <1>1
  <2>2. QED
    BY <2>1 DEF Upto
<1>4. T \subseteq Nat
  OBVIOUS
<1>5. n \in T
  BY <1>2, <1>3
<1>6. PICK m \in T : \A l \in T : m <= l
  <2> HIDE DEF T
  <2>1. QED
    BY <1>4, <1>5, Least
<1>7. Count(0) = 0
  BY <1>3, FS_EmptySet
<1>8. m \in 1..n /\ m - 1 \in 0..n
  BY <1>6, <1>7
<1>9. Count(m - 1) < j
  BY <1>2, <1>6, <1>8
<1>10. \A k \in kept : k <= m <=> k <= m - 1 \/ k = m
  BY <1>8
<1>11. Upto(kept, m) = IF m \in kept THEN Upto(kept, m - 1) \union {m}
                                    ELSE Upto(kept, m - 1)
  BY <1>8, <1>10 DEF Upto
<1>12. m \notin Upto(kept, m - 1)
  BY <1>8 DEF Upto
<1>13. Count(m) = IF m \in kept THEN Count(m - 1) + 1 ELSE Count(m - 1)
  BY <1>2, <1>11, <1>12, FS_AddElement
<1>14. Count(m) >= j
  BY <1>6
<1>15. m \in kept /\ Count(m) = j
  BY <1>2, <1>9, <1>13, <1>14
<1>16. QED
  BY <1>15

\* and only one.
LEMMA NthIs ==
    ASSUME NEW n \in Nat, NEW kept \in SUBSET (1..n), NEW i \in kept
    PROVE  Nth(kept, Cardinality(Upto(kept, i))) = i
<1> DEFINE h == Nth(kept, Cardinality(Upto(kept, i)))
<1>1. h \in kept /\ Cardinality(Upto(kept, h)) = Cardinality(Upto(kept, i))
  BY DEF Nth
<1>2. \A m : IsFiniteSet(Upto(kept, m))
  BY UptoCount
<1>3. \A k \in kept : k \in Int
  OBVIOUS
<1>4. h \in Int /\ i \in Int
  <2> HIDE DEF h
  <2>1. QED
    BY <1>3, <1>1
<1> HIDE DEF h
<1>5. Upto(kept, h) \subseteq Upto(kept, i) \/ Upto(kept, i) \subseteq Upto(kept, h)
  <2>1. ASSUME NEW a \in Int, NEW b \in Int, a <= b
        PROVE  Upto(kept, a) \subseteq Upto(kept, b)
    <3>1. \A k \in kept : k <= a => k <= b
      BY <1>3, <2>1
    <3>2. QED
      BY <3>1 DEF Upto
  <2>2. h <= i \/ i <= h
    BY <1>4
  <2>3. QED
    BY <1>4, <2>1, <2>2
<1>6. Upto(kept, h) = Upto(kept, i)
  BY <1>1, <1>2, <1>5, FS_Subset
<1>7. h \in Upto(kept, i) /\ i \in Upto(kept, h)
  BY <1>1, <1>4, <1>6 DEF Upto
<1>8. h = i
  BY <1>4, <1>7 DEF Upto
<1>9. QED
  BY <1>8 DEF h

\* Nth is that position.
LEMMA NthChosen ==
    ASSUME NEW n \in Nat, NEW kept \in SUBSET (1..n), NEW j \in 1..Cardinality(kept)
    PROVE  /\ Nth(kept, j) \in kept
           /\ Cardinality(Upto(kept, Nth(kept, j))) = j
<1>1. \E i \in kept : Cardinality(Upto(kept, i)) = j
  BY NthExists
<1>2. QED
  BY <1>1 DEF Nth

\* A slash at the end of a path makes no difference.
LEMMA ResolveSlash ==
    ASSUME NEW x \in Seq(Piece)
    PROVE  Resolve(Append(x, Slash)) = Resolve(x)
<1> DEFINE p == Append(x, Slash)
<1>1. Slash \in Piece
  BY TextAssumption
<1>2. /\ Len(p) = Len(x) + 1
      /\ p[Len(x) + 1] = Slash
      /\ \A i \in 1..Len(x) : p[i] = x[i]
  BY <1>1
<1> HIDE DEF p
<1>3. Kept(p) = Kept(x)
  <2>1. \A i \in 1..Len(x) : i < Len(x) => i + 1 \in 1..Len(x)
    OBVIOUS
  <2>2. QED
    BY <1>2, <2>1 DEF Kept
<1>4. Kept(x) \in SUBSET (1..Len(x))
  BY DEF Kept
<1>5. \A j \in 1..Cardinality(Kept(x)) : Nth(Kept(x), j) \in 1..Len(x)
  <2> SUFFICES ASSUME NEW j \in 1..Cardinality(Kept(x))
               PROVE  Nth(Kept(x), j) \in 1..Len(x)
    OBVIOUS
  <2> DEFINE n == Len(x)
  <2>1. n \in Nat /\ Kept(x) \in SUBSET (1..n)
    BY <1>4
  <2> HIDE DEF n
  <2>2. Nth(Kept(x), j) \in Kept(x)
    BY <2>1, NthChosen
  <2>3. QED
    BY <1>4, <2>2
<1>6. QED
  BY <1>2, <1>3, <1>5 DEF Resolve, p

\* A piece behind a slash is added with one slash before it.
LEMMA ResolvePiece ==
    ASSUME NEW y \in Seq(Piece), NEW c \in Piece, c # Slash
    PROVE  /\ Resolve(y) \in Seq(Piece)
           /\ Resolve(y \o <<Slash, c>>) = Resolve(y) \o <<Slash, c>>
<1> DEFINE n == Len(y)
           p == y \o <<Slash, c>>
           K == Kept(y)
           N == Cardinality(K)
<1>1. Slash \in Piece
  BY TextAssumption
<1>2. /\ n \in Nat
      /\ Len(p) = n + 2
      /\ p[n + 1] = Slash /\ p[n + 2] = c
      /\ \A i \in 1..n : p[i] = y[i] /\ y[i] \in Piece
  BY <1>1
<1>3. K \in SUBSET (1..n)
  BY DEF Kept
<1>4. IsFiniteSet(K) /\ N \in Nat
  BY <1>2, <1>3, UptoCount
<1> HIDE DEF p, n
<1>5. Kept(p) = K \union {n + 1, n + 2}
  <2>1. \A i \in 1..n + 2 : i \in 1..n \/ i = n + 1 \/ i = n + 2
    BY <1>2
  <2>2. \A i \in 1..n : i \in 1..n + 2 /\ (i < n => i + 1 \in 1..n)
    BY <1>2
  <2>3. \A i \in 1..n : i \in Kept(p) <=> i \in K
    BY <1>2, <2>2 DEF Kept, n
  <2>4. n + 1 \in Kept(p) /\ n + 2 \in Kept(p)
    BY <1>2 DEF Kept
  <2>5. Kept(p) \subseteq 1..n + 2
    BY <1>2 DEF Kept
  <2>6. QED
    BY <1>3, <2>1, <2>3, <2>4, <2>5
<1>6. Kept(p) \in SUBSET (1..n + 2)
  BY <1>2 DEF Kept
<1>7. /\ Upto(Kept(p), n + 1) = K \union {n + 1}
      /\ Upto(Kept(p), n + 2) = (K \union {n + 1}) \union {n + 2}
      /\ \A i \in K : Upto(Kept(p), i) = Upto(K, i)
      /\ n + 1 \notin K /\ n + 2 \notin K \union {n + 1}
  <2>1. \A k \in K : k \in Nat /\ k < n + 1 /\ k < n + 2
    BY <1>2, <1>3
  <2> HIDE DEF K
  <2>2. \A i \in K : Upto(Kept(p), i) = Upto(K, i)
    BY <1>2, <1>5, <2>1 DEF Upto
  <2>3. /\ Upto(Kept(p), n + 1) = K \union {n + 1}
        /\ n + 1 \notin K /\ n + 2 \notin K \union {n + 1}
    BY <1>2, <1>5, <2>1 DEF Upto
  <2>4. Upto(Kept(p), n + 2) = (K \union {n + 1}) \union {n + 2}
    BY <1>2, <1>5, <2>1 DEF Upto
  <2>5. QED
    BY <2>2, <2>3, <2>4
<1>8. /\ Cardinality(Upto(Kept(p), n + 1)) = N + 1
      /\ Cardinality(Upto(Kept(p), n + 2)) = N + 2
  <2> HIDE DEF K
  <2>1. /\ IsFiniteSet(K \union {n + 1})
        /\ Cardinality(K \union {n + 1}) = N + 1
    BY <1>4, <1>7, FS_AddElement
  <2>2. Cardinality((K \union {n + 1}) \union {n + 2}) = (N + 1) + 1
    BY <1>7, <2>1, FS_AddElement
  <2> HIDE DEF N
  <2>3. (N + 1) + 1 = N + 2
    BY <1>4
  <2>4. QED
    BY <1>7, <2>1, <2>2, <2>3
<1>9. Cardinality(Kept(p)) = N + 2
  <2>1. Kept(p) = Upto(Kept(p), n + 2)
    BY <1>5, <1>7
  <2>2. QED
    BY <1>8, <2>1
<1>10. Nth(Kept(p), N + 1) = n + 1 /\ Nth(Kept(p), N + 2) = n + 2
  <2>1. n + 2 \in Nat /\ n + 1 \in Kept(p) /\ n + 2 \in Kept(p)
    BY <1>2, <1>5
  <2> HIDE DEF K
  <2>2. /\ Nth(Kept(p), Cardinality(Upto(Kept(p), n + 1))) = n + 1
        /\ Nth(Kept(p), Cardinality(Upto(Kept(p), n + 2))) = n + 2
    BY <1>6, <2>1, NthIs
  <2>3. QED
    BY <1>8, <2>2
<1>11. \A j \in 1..N : Nth(K, j) \in 1..n /\ Nth(Kept(p), j) = Nth(K, j)
  <2> SUFFICES ASSUME NEW j \in 1..N
               PROVE  Nth(K, j) \in 1..n /\ Nth(Kept(p), j) = Nth(K, j)
    OBVIOUS
  <2> DEFINE i == Nth(K, j)
  <2>1. i \in K /\ Cardinality(Upto(K, i)) = j
    BY <1>2, <1>3, NthChosen
  <2> HIDE DEF K, i
  <2>2. i \in Kept(p) /\ Cardinality(Upto(Kept(p), i)) = j
    BY <1>5, <1>7, <2>1
  <2>3. n + 2 \in Nat
    BY <1>2
  <2>4. Nth(Kept(p), Cardinality(Upto(Kept(p), i))) = i
    BY <1>6, <2>2, <2>3, NthIs
  <2>5. QED
    BY <1>3, <2>1, <2>2, <2>4 DEF i
<1>12. /\ Resolve(y) \in Seq(Piece)
       /\ Len(Resolve(y)) = N
       /\ \A j \in 1..N : Resolve(y)[j] = p[Nth(Kept(p), j)]
  <2>1. Resolve(y) = [j \in 1..N |-> y[Nth(K, j)]]
    BY DEF Resolve
  <2> HIDE DEF N
  <2>2. \A j \in 1..N : y[Nth(K, j)] \in Piece /\ y[Nth(K, j)] = p[Nth(Kept(p), j)]
    BY <1>2, <1>11
  <2> HIDE DEF K
  <2>3. QED
    BY <1>4, <2>1, <2>2
<1>13. Resolve(p) = [j \in 1..N + 2 |-> p[Nth(Kept(p), j)]]
  BY <1>9 DEF Resolve
<1> DEFINE q == Resolve(y) \o <<Slash, c>>
<1>14. /\ q \in Seq(Piece) /\ Len(q) = N + 2
       /\ q[N + 1] = Slash /\ q[N + 2] = c
       /\ \A j \in 1..N : q[j] = Resolve(y)[j]
  BY <1>1, <1>4, <1>12
<1>15. \A j \in 1..N + 2 : q[j] = p[Nth(Kept(p), j)]
  <2>1. \A j \in 1..N + 2 : j \in 1..N \/ j = N + 1 \/ j = N + 2
    BY <1>4
  <2> HIDE DEF q, N
  <2>2. QED
    BY <1>2, <1>10, <1>12, <1>14, <2>1
<1> HIDE DEF q, N
<1>16. q = [j \in 1..N + 2 |-> p[Nth(Kept(p), j)]]
  BY <1>14, <1>15
<1>17. Resolve(p) = q
  BY <1>13, <1>16
<1>18. QED
  BY <1>12, <1>17 DEF q, p

\* It does not matter in which order texts are put together.
LEMMA Together ==
    /\ \A q, r \in Seq(Piece) : q \o r \in Seq(Piece)
    /\ \A q, r, v \in Seq(Piece) : (q \o r) \o v = q \o (r \o v)
<1>1. ASSUME NEW q \in Seq(Piece), NEW r \in Seq(Piece)
      PROVE  q \o r \in Seq(Piece)
  BY ConcatProperties
<1>2. ASSUME NEW q \in Seq(Piece), NEW r \in Seq(Piece), NEW v \in Seq(Piece)
      PROVE  (q \o r) \o v = q \o (r \o v)
  OBVIOUS
<1>3. QED
  BY <1>1, <1>2, Zenon

\* A slash and a piece may be added one after the other, or nothing.
LEMMA Added ==
    ASSUME NEW x \in Seq(Piece), NEW n \in Piece, Slash \in Piece
    PROVE  /\ Append(x, Slash) = x \o <<Slash>>
           /\ x \o <<>> = x
           /\ (x \o <<Slash>>) \o <<n>> = x \o <<Slash, n>>
<1>1. Append(x, Slash) = x \o <<Slash>>
  OBVIOUS
<1>2. x \o <<>> = x
  OBVIOUS
<1>3. (x \o <<Slash>>) \o <<n>> = x \o <<Slash, n>>
  OBVIOUS
<1>4. QED
  BY <1>1, <1>2, <1>3

\* A sequence of a set is one of a larger set.
LEMMA Wider ==
    ASSUME NEW S, NEW T, S \subseteq T, NEW q \in Seq(S)
    PROVE  q \in Seq(T)
<1>1. \A i \in 1..Len(q) : q[i] \in T
  OBVIOUS
<1>2. QED
  BY <1>1

\* What is read of a file are octets.
LEMMA Octets ==
    ASSUME NEW bytes \in Seq(1..255)
    PROVE  bytes \in Seq(0..255)
<1>1. 1..255 \subseteq 0..255
  OBVIOUS
<1>2. QED
  BY <1>1, Wider

USE BoundsAssumption DEF Path

\* None is neither a path nor what a directory is bound as.
LEMMA NoneApart ==
    /\ None \notin Path
    /\ \A d \in DirPath : d \in Seq(Piece) /\ Resolve(d) = d /\ Append(d, Slash) # None
  BY TextAssumption

-----------------------------------------------------------------------------
(* Answers. *)

FsOK == \A p \in Path : fs[p] \in {None} \union IF p \in DirPath THEN {Dir} ELSE Holds[p]

\* A document is an answer.
LEMMA DocumentType ==
    ASSUME NEW bytes \in Seq(0..255)
    PROVE  Document(bytes) \in AnyAnswer
  BY DEF Document, ErrorPage, AnyAnswer

\* What a file holds.
LEMMA HoldsType ==
    ASSUME NEW p \in FilePath, NEW bytes \in Holds[p]
    PROVE  bytes \in Seq(1..255) /\ bytes \in Seq(0..255) /\ bytes # None
<1>1. bytes \in Seq(1..255) /\ bytes \in Bytes
  BY FileAssumption DEF Bytes
<1>2. QED
  BY <1>1, FileAssumption, Octets

\* So is the answer of one moment.
LEMMA AnswerType ==
    ASSUME FsOK', url' \in Url
    PROVE  AtOnce(url, path)' \in AnyAnswer
<1> DEFINE answer == AtOnce(url, path)'
<1>1. CASE path' # None /\ IsDirectory(path)'
  <2>1. answer = Listing(url, path)'
    BY <1>1 DEF AtOnce
  <2>2. ASSUME NEW e \in Path PROVE Link(url, e)' \in Seq(Piece)
    <3>1. <<Name(e)>> \in Seq(Piece)
      BY TextAssumption DEF Name, Last
    <3>2. url' \in Seq(Piece) /\ Append(url', Slash) \in Seq(Piece)
      BY TextAssumption
    <3>3. <<Slash>> \in Seq(Piece) /\ <<>> \in Seq(Piece)
      BY TextAssumption
    <3>4. QED
      BY <3>1, <3>2, <3>3, ConcatProperties DEF Link
  <2>3. QED
    BY <2>1, <2>2 DEF Listing, Entries, AnyAnswer
<1>2. CASE ~(path' # None /\ IsDirectory(path)') /\ path' # None /\ IsRegularFile(path)'
  <2>1. answer = Document(fs'[path'])
    BY <1>2 DEF AtOnce
  <2>2. path' \in FilePath /\ fs'[path'] \in Holds[path']
    BY <1>2, TextAssumption DEF IsRegularFile, FsOK
  <2>3. QED
    BY <2>1, <2>2, HoldsType, DocumentType
<1>3. CASE ~(path' # None /\ IsDirectory(path)') /\ ~(path' # None /\ IsRegularFile(path)')
  <2>1. answer = ErrorPage
    BY <1>3 DEF AtOnce
  <2>2. QED
    BY <2>1 DEF ErrorPage, AnyAnswer
<1>4. QED
  BY <1>1, <1>2, <1>3

\* An answer depends on the files only,
LEMMA SameAnswer ==
    ASSUME fs' = fs
    PROVE  AtOnce(url, path)' = AtOnce(url', path')
  BY DEF AtOnce, IsDirectory, IsRegularFile, Listing, Entries

\* and a lookup on the bindings.
LEMMA SameLookup ==
    ASSUME UNCHANGED <<dirBindings, fileBindings>>
    PROVE  Lookup(url)' = Lookup(url')
  BY DEF Lookup, BoundAbove, Below

\* The empty document is a page not found.
LEMMA NoDocument == Document(<<>>) = ErrorPage
  BY DEF Document

-----------------------------------------------------------------------------
(* Bindings. *)

\* Where a URL leads to that was bound itself.
LEMMA BoundLookup ==
    ASSUME BindInv, NEW u \in BindUrl, latest[u] # None
    PROVE  /\ Lookup(u).path = latest[u]
           /\ Lookup(u).pc = IF latest[u] \in DirPath THEN "dirCheck" ELSE "fileCheck"
<1>1. CASE /\ latest[u] \in DirPath
           /\ dirBindings[u] = Append(latest[u], Slash)
  <2>1. Resolve(dirBindings[u]) = latest[u]
    BY <1>1, ResolveSlash, NoneApart
  <2>2. QED
    BY <1>1, <2>1, NoneApart DEF Lookup
<1>2. CASE /\ latest[u] \in FilePath
           /\ dirBindings[u] = None
           /\ fileBindings[u] = latest[u]
  BY <1>2, NoneApart, TextAssumption DEF Lookup
<1>3. QED
  BY <1>1, <1>2 DEF BindInv

\* Every URL leads somewhere, or nowhere.
LEMMA LookupLeads ==
    ASSUME BindInv, NEW u
    PROVE  /\ Lookup(u).pc \in {"dirCheck", "fileCheck", "probeDir", "notFound"}
           /\ Lookup(u).pc = "dirCheck" => Lookup(u).path \in DirPath
           /\ Lookup(u).pc = "fileCheck" => Lookup(u).path \in FilePath
           /\ Lookup(u).pc = "notFound" => Lookup(u).path = None
<1>1. CASE u \in BindUrl /\ latest[u] # None
  BY <1>1, BoundLookup, TextAssumption DEF BindInv
<1>2. CASE ~(u \in BindUrl /\ latest[u] # None)
  <2>1. u \in BindUrl => dirBindings[u] = None /\ fileBindings[u] = None
    BY <1>2, NoneApart DEF BindInv
  <2>2. Lookup(u) = IF BoundAbove(u) # {} THEN [path |-> Below(u), pc |-> "probeDir"]
                    ELSE [path |-> None, pc |-> "notFound"]
    BY <2>1 DEF Lookup
  <2>3. QED
    BY <2>2
<1>3. QED
  BY <1>1, <1>2

BindType ==
    /\ dirBindings \in [BindUrl -> BoundDirectory \union {None}]
    /\ fileBindings \in [BindUrl -> FilePath \union {None}]
    /\ latest \in [BindUrl -> Path \union {None}]

-----------------------------------------------------------------------------
(* Steps. *)

\* The server starts with nothing bound and nothing asked for.
LEMMA InitIInv == Init => IInv
<1> SUFFICES ASSUME Init PROVE IInv
  OBVIOUS
<1> USE DEF Init
<1>1. TypeOK
  <2>1. BindType
    BY DEF BindType
  <2>2. /\ fs \in [Path -> {Dir, None} \union Bytes]
        /\ \A p \in Path :
               fs[p] \in {None} \union IF p \in DirPath THEN {Dir} ELSE Holds[p]
    BY FileAssumption DEF Bytes
  <2>3. /\ pc = "idle" /\ url = None /\ file = None /\ reply = None /\ possible = {}
        /\ linked = FALSE /\ torn = FALSE /\ refused = FALSE /\ binds = 0 /\ size = 0 /\ changes = 0
    OBVIOUS
  <2> HIDE DEF Init
  <2>4. 0 \in 0..MaxBinds /\ 0 \in 0..MaxChanges /\ 0 \in Nat
    OBVIOUS
  <2>5. QED
    BY <2>1, <2>2, <2>3, <2>4 DEF TypeOK, BindType
<1>2. BindInv /\ RequestInv
  BY DEF BindInv, RequestInv
<1>3. AnswerInv /\ FileInv /\ AnswersWereTrue /\ LinksInv
  BY DEF AnswerInv, FileInv, AnswersWereTrue, LinksInv
<1>4. QED
  BY <1>1, <1>2, <1>3 DEF IInv

\* While URLs are bound there is no request.
LEMMA BindIInv ==
    ASSUME IInv, Bind \/ Run
    PROVE  IInv'
<1>1. binds # None /\ UNCHANGED <<fs, requestVars>>
  BY DEF Bind, Run
<1>2. pc = "idle"
  BY <1>1 DEF IInv, RequestInv
<1>3. BindType' /\ BindInv'
  <2>1. BindType /\ BindInv
    BY DEF IInv, TypeOK, BindType
  <2>2. CASE Run
    BY <2>1, <2>2 DEF Run, BindType, BindInv
  <2>3. ASSUME NEW u \in BindUrl, NEW d \in DirPath, BindDirectory(d, u)
        PROVE  BindType' /\ BindInv'
    <3>1. Append(d, Slash) \in BoundDirectory
      BY DEF BoundDirectory
    <3>2. BindType'
      <4>1. d \in Path
        BY DEF Path
      <4> HIDE DEF Path
      <4>2. QED
        BY <2>1, <2>3, <3>1, <4>1 DEF BindDirectory, BindType
    <3>3. BindInv'
      BY <2>1, <2>3 DEF BindDirectory, BindType, BindInv
    <3>4. QED
      BY <3>2, <3>3
  <2>4. ASSUME NEW u \in BindUrl, NEW f \in FilePath, BindFile(f, u)
        PROVE  BindType' /\ BindInv'
    <3>1. BindType'
      BY <2>1, <2>4 DEF BindFile, BindType
    <3>2. BindInv'
      BY <2>1, <2>4 DEF BindFile, BindType, BindInv
    <3>3. QED
      BY <3>1, <3>2
  <2>5. QED
    BY <2>2, <2>3, <2>4 DEF Bind
<1>4. binds' \in 0..MaxBinds \union {None}
  BY DEF Bind, Run, IInv, TypeOK
<1>5. TypeOK'
  BY <1>1, <1>3, <1>4 DEF IInv, TypeOK, BindType, requestVars
<1>6. RequestInv' /\ AnswerInv' /\ FileInv' /\ AnswersWereTrue' /\ LinksInv'
  BY <1>1, <1>2 DEF requestVars, IInv, RequestInv, AnswerInv, FileInv, AnswersWereTrue,
                    LinksInv
<1>7. QED
  BY <1>3, <1>5, <1>6 DEF IInv

\* What Get and the system calls have in common: the bindings and the files
\* stay as they are.
Asking ==
    /\ binds = None
    /\ UNCHANGED <<bindVars, fs>>
    /\ url' \in Url /\ path' = Lookup(url').path

\* The facts about a request that a step of its own does not touch.
LEMMA AskingKeeps ==
    ASSUME IInv, Asking
    PROVE  /\ BindType' /\ BindInv' /\ binds' \in 0..MaxBinds \union {None}
           /\ fs' \in [Path -> {Dir, None} \union Bytes]
           /\ FsOK'
           /\ binds' = None /\ path' = Lookup(url)'.path
           /\ AtOnce(url, path)' \in AnyAnswer
<1>1. /\ BindType' /\ BindInv' /\ binds' \in 0..MaxBinds \union {None}
      /\ fs' \in [Path -> {Dir, None} \union Bytes]
      /\ FsOK' /\ binds' = None
  BY DEF Asking, bindVars, IInv, TypeOK, BindType, BindInv, FsOK
<1>2. path' = Lookup(url)'.path
  BY SameLookup DEF Asking, bindVars
<1>3. AtOnce(url, path)' \in AnyAnswer
  BY <1>1, AnswerType DEF Asking
<1>4. QED
  BY <1>1, <1>2, <1>3

\* A request begins.
LEMMA GetIInv ==
    ASSUME IInv, NEW u \in Url, Get(u)
    PROVE  IInv'
<1> USE DEF Get
<1>1. Asking
  BY DEF Asking
<1>2. possible' = {AtOnce(url, path)'}
  BY SameAnswer
<1>3. /\ Lookup(u).pc \in {"dirCheck", "fileCheck", "probeDir", "notFound"}
      /\ Lookup(u).pc = "dirCheck" => Lookup(u).path \in DirPath
      /\ Lookup(u).pc = "fileCheck" => Lookup(u).path \in FilePath
      /\ Lookup(u).pc = "notFound" => Lookup(u).path = None
  BY LookupLeads DEF IInv
<1>4. reply = None /\ ~torn /\ ~linked /\ file = None
  BY DEF IInv, RequestInv, FileInv
<1>5. TypeOK'
  <2>1. pc' \in {"dirCheck", "fileCheck", "probeDir", "notFound"} /\ url' \in Url
    BY <1>3
  <2>2. /\ file' = None /\ linked' \in BOOLEAN /\ torn' \in BOOLEAN /\ refused' \in BOOLEAN
        /\ size' \in Nat /\ changes' \in 0..MaxChanges /\ reply' = None
    BY <1>4 DEF IInv, TypeOK
  <2>3. possible' \subseteq AnyAnswer
    BY <1>1, <1>2, AskingKeeps
  <2> HIDE DEF Get
  <2>4. QED
    BY <1>1, <2>1, <2>2, <2>3, AskingKeeps DEF TypeOK, BindType, FsOK
<1>6. RequestInv'
  BY <1>1, <1>3, <1>4, AskingKeeps DEF RequestInv
<1>7. AnswerInv' /\ FileInv' /\ AnswersWereTrue' /\ LinksInv'
  BY <1>2, <1>3, <1>4 DEF AnswerInv, FileInv, AnswersWereTrue, LinksInv
<1>8. QED
  BY <1>1, <1>5, <1>6, <1>7, AskingKeeps DEF IInv

\* What the answer of this moment is.
LEMMA AtOnceNow ==
    /\ IsDirectory(path) => AtOnce(url, path) = Listing(url, path)
    /\ IsRegularFile(path) => AtOnce(url, path) = Document(fs[path])
    /\ ~IsDirectory(path) /\ ~IsRegularFile(path) => AtOnce(url, path) = ErrorPage
  BY NoneApart, TextAssumption DEF AtOnce, IsDirectory, IsRegularFile

\* A request goes on: its URL and path stay, and the answer of the moment.
LEMMA GoingOn ==
    ASSUME IInv, pc # "idle", UNCHANGED <<bindVars, fs, url, path>>
    PROVE  /\ Asking /\ url' \in Url
           /\ AtOnce(url, path)' = AtOnce(url, path)
<1>1. Asking
  BY DEF Asking, IInv, RequestInv
<1>2. AtOnce(url, path)' = AtOnce(url', path')
  BY SameAnswer
<1>3. QED
  BY <1>1, <1>2 DEF Asking

LinksFrom(d, r) ==
    \A l \in r.links : \E p \in Path :
        Len(p) > 2 /\ Parent(p) = d /\ l = [url |-> Link(url, p), path |-> p]

\* A request that has opened no file is answered.
LEMMA AnswerIInv ==
    ASSUME IInv, pc \notin {"idle", "done", "measure", "read"},
           NEW r \in AnyAnswer, Answer(pc, r),
           r \in possible \/ (r = NoReply /\ ErrorPage \in possible),
           r.links # {} => path \in DirPath /\ LinksFrom(path, r)
    PROVE  IInv'
<1>1. /\ pc' = "done" /\ reply' = r
      /\ UNCHANGED <<bindVars, fs, url, path, possible, torn, refused, changes>>
      /\ UNCHANGED <<file, linked, size>>
  BY DEF Answer, Goto, Leave
<1>2. Asking /\ url' \in Url
  BY <1>1, GoingOn
<1>3. ~torn /\ ~linked /\ file = None
  BY DEF IInv, FileInv
<1>4. TypeOK'
  <2>1. /\ size' \in Nat /\ changes' \in 0..MaxChanges /\ file' = None
        /\ possible' \subseteq AnyAnswer /\ reply' \in AnyAnswer
        /\ linked' \in BOOLEAN /\ torn' \in BOOLEAN /\ refused' \in BOOLEAN
    BY <1>1, <1>3 DEF IInv, TypeOK
  <2>2. pc' = "done"
    BY <1>1
  <2>3. QED
    BY <1>2, <2>1, <2>2, AskingKeeps DEF TypeOK, BindType, FsOK
<1>5. RequestInv'
  BY <1>1, <1>2, AskingKeeps DEF RequestInv
<1>6. AnswerInv' /\ FileInv' /\ AnswersWereTrue'
  BY <1>1, <1>3 DEF AnswerInv, FileInv, AnswersWereTrue
<1>7. LinksInv'
  BY <1>1 DEF LinksInv, LinksFrom, Link
<1>8. QED
  BY <1>2, <1>4, <1>5, <1>6, <1>7, AskingKeeps DEF IInv

\* A request ends at a system call that fails: a test or the iterator leaves it
\* without an answer, the opening of a file with the page 404.
LEMMA RefuseIInv ==
    ASSUME IInv, pc \notin {"idle", "done", "measure", "read"},
           NEW r \in AnyAnswer, Refuse(pc, r), r.links = {},
           r = NoReply \/ (r = ErrorPage /\ path \in FilePath)
    PROVE  IInv'
<1>1. /\ pc' = "done" /\ reply' = r /\ refused' = TRUE
      /\ UNCHANGED <<bindVars, fs, url, path, possible, torn, changes>>
      /\ UNCHANGED <<file, linked, size>>
  BY DEF Refuse, Leave
<1>2. Asking /\ url' \in Url
  BY <1>1, GoingOn
<1>3. ~torn /\ ~linked /\ file = None
  BY DEF IInv, FileInv
<1>4. TypeOK'
  <2>1. /\ size' \in Nat /\ changes' \in 0..MaxChanges /\ file' = None
        /\ possible' \subseteq AnyAnswer /\ reply' \in AnyAnswer
        /\ linked' \in BOOLEAN /\ torn' \in BOOLEAN /\ refused' \in BOOLEAN
    BY <1>1, <1>3 DEF IInv, TypeOK
  <2>2. pc' = "done"
    BY <1>1
  <2>3. QED
    BY <1>2, <2>1, <2>2, AskingKeeps DEF TypeOK, BindType, FsOK
<1>5. RequestInv'
  BY <1>1, <1>2, AskingKeeps DEF RequestInv
<1>6. AnswersWereTrue'
  <2>1. reply' = NoReply \/ (reply' = ErrorPage /\ path' \in FilePath)
    BY <1>1
  <2>2. QED
    BY <1>1, <2>1 DEF AnswersWereTrue, NoReply, ErrorPage
<1>7. AnswerInv' /\ FileInv' /\ LinksInv'
  BY <1>1, <1>3 DEF AnswerInv, FileInv, LinksInv
<1>8. QED
  BY <1>2, <1>4, <1>5, <1>6, <1>7, AskingKeeps DEF IInv

\* A request that has opened no file goes on to its next system call.
LEMMA ContinueIInv ==
    ASSUME IInv, pc \notin {"idle", "done", "measure", "read"},
           NEW to \in {"dirCheck", "list", "probeFile", "fileCheck", "tryOpen", "open"},
           Continue(pc, to),
           to \in {"dirCheck", "list"} => path \in DirPath,
           to \in {"fileCheck", "tryOpen", "open"} => path \in FilePath,
           to = "probeFile" => path \in FilePath \/ ErrorPage \in possible
    PROVE  IInv'
<1>1. /\ pc' = to
      /\ UNCHANGED <<bindVars, fs, url, path, possible, torn, refused, changes>>
      /\ UNCHANGED <<file, linked, size, reply>>
  BY DEF Continue, Goto, Leave
<1>2. Asking /\ url' \in Url /\ AtOnce(url, path)' = AtOnce(url, path)
  BY <1>1, GoingOn
<1>3. ~torn /\ ~linked /\ file = None
  BY DEF IInv, FileInv
<1>4. TypeOK'
  <2>1. /\ size' \in Nat /\ changes' \in 0..MaxChanges /\ file' = None
        /\ possible' \subseteq AnyAnswer /\ reply' \in AnyAnswer \union {None}
        /\ linked' \in BOOLEAN /\ torn' \in BOOLEAN /\ refused' \in BOOLEAN
    BY <1>1, <1>3 DEF IInv, TypeOK
  <2>2. QED
    BY <1>1, <1>2, <2>1, AskingKeeps DEF TypeOK, BindType, FsOK
<1>5. RequestInv'
  BY <1>1, <1>2, AskingKeeps DEF RequestInv
<1>6. AnswerInv' /\ FileInv' /\ AnswersWereTrue' /\ LinksInv'
  BY <1>1, <1>2, <1>3
     DEF IInv, AnswerInv, FileInv, AnswersWereTrue, LinksInv
<1>7. QED
  BY <1>2, <1>4, <1>5, <1>6, AskingKeeps DEF IInv

\* The steps of a request up to the opening of a file.
LEMMA LookIInv ==
    ASSUME IInv,
           \/ NotFound \/ ProbeDir \/ ProbeFile \/ DirCheck \/ List
           \/ FileCheck \/ TryOpen
    PROVE  IInv'
<1>1. AtOnce(url, path) \in possible \/ pc \in {"idle", "done"}
  BY DEF IInv, AnswerInv
<1>2. ErrorPage \in AnyAnswer /\ NoReply \in AnyAnswer
  BY DEF ErrorPage, NoReply, AnyAnswer
<1>3. ErrorPage.links = {} /\ NoReply.links = {}
  BY DEF ErrorPage, NoReply
<1>4. ASSUME NEW from \in {"probeDir", "probeFile", "dirCheck", "list", "fileCheck"},
             Refuse(from, NoReply)
      PROVE  IInv'
  <2>1. pc = from
    BY <1>4 DEF Refuse, Leave
  <2>2. QED
    BY <1>2, <1>3, <1>4, <2>1, RefuseIInv
<1>5. CASE NotFound
  <2>1. pc = "notFound" /\ Answer(pc, ErrorPage)
    BY <1>5 DEF NotFound, Answer, Goto, Leave
  <2>2. path = None
    BY <2>1 DEF IInv, RequestInv
  <2>3. ErrorPage \in possible
    BY <1>1, <2>1, <2>2, AtOnceNow, NoneApart DEF IsDirectory, IsRegularFile
  <2>4. QED
    BY <1>2, <1>3, <2>1, <2>3, AnswerIInv
<1>6. CASE ProbeDir /\ ~Refuse("probeDir", NoReply)
  <2>1. pc = "probeDir"
    BY <1>6 DEF ProbeDir, Continue, Goto, Leave
  <2>2. CASE IsDirectory(path)
    <3>1. Continue(pc, "dirCheck") /\ path \in DirPath
      BY <1>6, <2>1, <2>2 DEF ProbeDir, IsDirectory
    <3>2. QED
      BY <2>1, <3>1, ContinueIInv
  <2>3. CASE ~IsDirectory(path)
    <3>1. Continue(pc, "probeFile")
      BY <1>6, <2>1, <2>3 DEF ProbeDir
    <3>2. path \in FilePath \/ ErrorPage \in possible
      BY <1>1, <2>1, <2>3, AtOnceNow DEF IsRegularFile
    <3>3. QED
      BY <2>1, <3>1, <3>2, ContinueIInv
  <2>4. QED
    BY <2>2, <2>3
<1>7. CASE ProbeFile /\ ~Refuse("probeFile", NoReply)
  <2>1. pc = "probeFile"
    BY <1>7 DEF ProbeFile, Continue, Answer, Goto, Leave
  <2>2. CASE IsRegularFile(path) /\ Continue(pc, "fileCheck")
    BY <2>1, <2>2, ContinueIInv DEF IsRegularFile
  <2>3. CASE ~IsRegularFile(path) /\ Answer(pc, ErrorPage)
    <3>1. path \in FilePath => ~IsDirectory(path)
      BY TextAssumption DEF IsDirectory
    <3>2. ErrorPage \in possible
      BY <1>1, <2>1, <2>3, <3>1, AtOnceNow DEF IInv, AnswerInv
    <3>3. QED
      BY <1>2, <1>3, <2>1, <2>3, <3>2, AnswerIInv
  <2>4. QED
    BY <1>7, <2>1, <2>2, <2>3 DEF ProbeFile
<1>8. CASE DirCheck /\ ~Refuse("dirCheck", NoReply)
  <2>1. pc = "dirCheck"
    BY <1>8 DEF DirCheck, Continue, Answer, Goto, Leave
  <2>2. CASE IsDirectory(path) /\ Continue(pc, "list")
    BY <2>1, <2>2, ContinueIInv DEF IsDirectory
  <2>3. CASE ~IsDirectory(path) /\ Answer(pc, ErrorPage)
    <3>1. ~IsRegularFile(path)
      BY <2>1, TextAssumption DEF IInv, RequestInv, IsRegularFile
    <3>2. ErrorPage \in possible
      BY <1>1, <2>1, <2>3, <3>1, AtOnceNow
    <3>3. QED
      BY <1>2, <1>3, <2>1, <2>3, <3>2, AnswerIInv
  <2>4. QED
    BY <1>8, <2>1, <2>2, <2>3 DEF DirCheck
<1>9. CASE List /\ ~Refuse("list", NoReply)
  <2>1. pc = "list"
    BY <1>9 DEF List, Answer, Goto, Leave
  <2>2. path \in DirPath
    BY <2>1 DEF IInv, RequestInv
  <2>3. CASE IsDirectory(path)
    <3>1. Answer(pc, Listing(url, path)) /\ Listing(url, path) \in possible
      BY <1>1, <1>9, <2>1, <2>3, AtOnceNow DEF List
    <3>2. LinksFrom(path, Listing(url, path))
      BY DEF LinksFrom, Listing, Entries
    <3>3. Listing(url, path) \in AnyAnswer
      BY <3>1 DEF IInv, TypeOK
    <3>4. QED
      BY <2>1, <2>2, <3>1, <3>2, <3>3, AnswerIInv
  <2>4. CASE ~IsDirectory(path)
    <3>1. Answer(pc, NoReply)
      BY <1>9, <2>1, <2>4 DEF List
    <3>2. ~IsRegularFile(path)
      BY <2>2, TextAssumption DEF IsRegularFile
    <3>3. ErrorPage \in possible
      BY <1>1, <2>1, <2>4, <3>2, AtOnceNow
    <3>4. QED
      BY <1>2, <1>3, <2>1, <3>1, <3>3, AnswerIInv
  <2>5. QED
    BY <2>3, <2>4
<1>10. ASSUME NEW from \in {"fileCheck", "tryOpen"}, NEW to \in {"tryOpen", "open"},
             pc = from,
             \/ IsRegularFile(path) /\ Continue(pc, to)
             \/ ~IsRegularFile(path) /\ Answer(pc, ErrorPage)
             \/ IsRegularFile(path) /\ Refuse(pc, ErrorPage)
      PROVE  IInv'
  <2>1. CASE IsRegularFile(path) /\ Continue(pc, to)
    BY <1>10, <2>1, ContinueIInv DEF IsRegularFile
  <2>2. CASE ~IsRegularFile(path) /\ Answer(pc, ErrorPage)
    <3>1. ~IsDirectory(path)
      BY <1>10, TextAssumption DEF IInv, RequestInv, IsDirectory
    <3>2. ErrorPage \in possible
      BY <1>1, <1>10, <2>2, <3>1, AtOnceNow
    <3>3. QED
      BY <1>2, <1>3, <1>10, <2>2, <3>2, AnswerIInv
  <2>3. CASE IsRegularFile(path) /\ Refuse(pc, ErrorPage)
    BY <1>2, <1>3, <1>10, <2>3, RefuseIInv DEF IsRegularFile
  <2>4. QED
    BY <1>10, <2>1, <2>2, <2>3
<1>11. CASE FileCheck /\ ~Refuse("fileCheck", NoReply)
  <2>1. pc = "fileCheck"
    BY <1>11 DEF FileCheck, Continue, Answer, Goto, Leave
  <2>2. QED
    BY <1>10, <1>11, <2>1 DEF FileCheck
<1>12. CASE TryOpen
  <2>1. pc = "tryOpen"
    BY <1>12 DEF TryOpen, Continue, Answer, Refuse, Goto, Leave
  <2>2. QED
    BY <1>10, <1>12, <2>1 DEF TryOpen
<1>13. CASE \E from \in {"probeDir", "probeFile", "dirCheck", "list", "fileCheck"} :
                 Refuse(from, NoReply)
  BY <1>4, <1>13
<1>14. QED
  BY <1>5, <1>6, <1>7, <1>8, <1>9, <1>11, <1>12, <1>13

\* The file is opened, is gone, or does not open.
LEMMA OpenIInv ==
    ASSUME IInv, Open
    PROVE  IInv'
<1>1. pc = "open" /\ path \in FilePath /\ AtOnce(url, path) \in possible
  BY DEF Open, Answer, Refuse, Goto, Leave, IInv, RequestInv, AnswerInv
<1>2. ~torn /\ ~linked /\ file = None
  BY <1>1 DEF IInv, FileInv
<1>3. CASE IsRegularFile(path) /\ ~Refuse("open", Document(<<>>))
  <2>1. /\ pc' = "measure" /\ file' = fs[path] /\ linked' = TRUE
        /\ UNCHANGED <<bindVars, fs, url, path, size, reply, possible, torn, refused,
                       changes>>
    BY <1>3 DEF Open, Goto, Leave
  <2>2. Asking /\ url' \in Url /\ AtOnce(url, path)' = AtOnce(url, path)
    BY <1>1, <2>1, GoingOn
  <2>3. fs[path] \in Holds[path] /\ file' \in Seq(1..255) /\ file' \in Bytes
    <3>1. fs[path] \in Holds[path]
      BY <1>3, TextAssumption DEF IInv, TypeOK, IsRegularFile
    <3>2. QED
      BY <1>1, <2>1, <3>1, HoldsType DEF Bytes
  <2>4. Document(file') \in possible'
    BY <1>1, <1>3, <2>1, AtOnceNow
  <2>5. TypeOK'
    <3>1. /\ size' \in Nat /\ changes' \in 0..MaxChanges
          /\ possible' \subseteq AnyAnswer /\ reply' \in AnyAnswer \union {None}
          /\ torn' \in BOOLEAN /\ refused' \in BOOLEAN
      BY <2>1 DEF IInv, TypeOK
    <3>2. pc' = "measure" /\ linked' = TRUE
      BY <2>1
    <3>3. QED
      BY <2>2, <2>3, <3>1, <3>2, AskingKeeps DEF TypeOK, BindType, FsOK
  <2>6. RequestInv'
    BY <1>1, <2>1, <2>2, AskingKeeps DEF RequestInv
  <2>7. AnswerInv' /\ AnswersWereTrue' /\ LinksInv'
    BY <1>1, <2>1, <2>2 DEF AnswerInv, AnswersWereTrue, LinksInv
  <2>8. FileInv'
    BY <1>2, <2>1, <2>3, <2>4 DEF FileInv
  <2>9. QED
    BY <2>2, <2>5, <2>6, <2>7, <2>8, AskingKeeps DEF IInv
<1>4. CASE ~IsRegularFile(path)
  <2>1. Answer(pc, ErrorPage)
    BY <1>1, <1>4, NoDocument DEF Open, Refuse, Leave
  <2>2. ErrorPage \in possible
    BY <1>1, <1>4, AtOnceNow, TextAssumption DEF IsDirectory
  <2>3. ErrorPage \in AnyAnswer /\ ErrorPage.links = {}
    BY DEF ErrorPage, AnyAnswer
  <2>4. QED
    BY <1>1, <2>1, <2>2, <2>3, AnswerIInv
<1>5. CASE IsRegularFile(path) /\ Refuse("open", Document(<<>>))
  <2>1. Refuse(pc, ErrorPage)
    BY <1>1, <1>5, NoDocument
  <2>2. ErrorPage.links = {} /\ ErrorPage \in AnyAnswer
    BY DEF ErrorPage, AnyAnswer
  <2>3. QED
    BY <1>1, <2>1, <2>2, RefuseIInv
<1>6. QED
  BY <1>3, <1>4, <1>5

\* Its size is asked for.
LEMMA MeasureIInv ==
    ASSUME IInv, Measure
    PROVE  IInv'
<1>1. /\ pc = "measure" /\ pc' = "read" /\ size' = Len(file)
      /\ UNCHANGED <<bindVars, fs, url, path, file, linked, reply, possible, torn,
                     refused, changes>>
  BY DEF Measure, Goto, Leave
<1>2. Asking /\ url' \in Url /\ AtOnce(url, path)' = AtOnce(url, path)
  BY <1>1, GoingOn
<1>3. /\ file \in Seq(1..255) /\ Document(file) \in possible
      /\ linked => file = fs[path]
  BY <1>1 DEF IInv, FileInv
<1>4. Len(file) \in Nat /\ SubSeq(file, 1, Len(file)) = file
  BY <1>3
<1>5. TypeOK'
  <2>1. /\ changes' \in 0..MaxChanges /\ file' \in Bytes \union {None}
        /\ possible' \subseteq AnyAnswer /\ reply' \in AnyAnswer \union {None}
        /\ linked' \in BOOLEAN /\ torn' \in BOOLEAN /\ refused' \in BOOLEAN
    BY <1>1 DEF IInv, TypeOK
  <2>2. pc' = "read" /\ size' \in Nat
    BY <1>1, <1>4
  <2>3. QED
    BY <1>2, <2>1, <2>2, AskingKeeps DEF TypeOK, BindType, FsOK
<1>6. RequestInv'
  BY <1>1, <1>2, AskingKeeps DEF IInv, RequestInv
<1>7. AnswerInv' /\ AnswersWereTrue' /\ LinksInv'
  BY <1>1, <1>2 DEF IInv, AnswerInv, AnswersWereTrue, LinksInv
<1>8. FileInv'
  <2>0. file' = file /\ possible' = possible
    BY <1>1
  <2>1. size' <= Len(file') /\ SubSeq(file', 1, size') = file
    BY <1>1, <1>4, <2>0
  <2>2. file' \in Seq(1..255) /\ (linked' => file' = fs'[path'])
    BY <1>1, <1>3
  <2>3. QED
    BY <1>1, <1>3, <2>1, <2>2 DEF FileInv
<1>9. QED
  BY <1>2, <1>5, <1>6, <1>7, <1>8, AskingKeeps DEF IInv

\* It is read.
LEMMA ReadIInv ==
    ASSUME IInv, Read
    PROVE  IInv'
<1> DEFINE data == [i \in 1..size |-> IF i <= Len(file) THEN file[i] ELSE 0]
<1>1. /\ pc = "read" /\ pc' = "done" /\ reply' = Document(data)
      /\ file' = None /\ linked' = FALSE /\ size' = 0
      /\ UNCHANGED <<bindVars, fs, url, path, possible, torn, refused, changes>>
  BY DEF Read, Goto, Leave
<1>2. Asking /\ url' \in Url
  BY <1>1, GoingOn
<1>3. /\ file \in Seq(1..255) /\ size \in Nat
      /\ ~torn => size <= Len(file) /\ Document(SubSeq(file, 1, size)) \in possible
  BY <1>1 DEF IInv, FileInv, TypeOK
<1>4. data \in Seq(0..255)
  <2> DEFINE octet == 0..255
  <2>1. file \in Seq(octet) /\ 0 \in octet
    BY <1>3, Octets
  <2> HIDE DEF octet
  <2>2. \A i \in 1..size : i <= Len(file) => file[i] \in octet
    BY <1>3, <2>1
  <2>3. data \in [1..size -> octet]
    BY <2>1, <2>2
  <2>4. data \in Seq(octet)
    BY <1>3, <2>3
  <2>5. QED
    BY <2>4 DEF octet
<1>5. ~torn => data = SubSeq(file, 1, size)
  BY <1>3
<1>6. /\ Document(data) \in AnyAnswer /\ Document(data).links = {}
      /\ ~torn => Document(data) \in possible
  <2>1. Document(data) \in AnyAnswer
    BY <1>4, DocumentType
  <2>2. Document(data).links = {}
    BY DEF Document, ErrorPage
  <2>3. QED
    BY <1>3, <1>5, <2>1, <2>2
<1> HIDE DEF data
<1>7. TypeOK'
  <2>1. /\ changes' \in 0..MaxChanges /\ possible' \subseteq AnyAnswer
        /\ reply' \in AnyAnswer /\ torn' \in BOOLEAN /\ refused' \in BOOLEAN
    BY <1>1, <1>6 DEF IInv, TypeOK
  <2>2. pc' = "done" /\ size' \in Nat /\ file' = None /\ linked' = FALSE
    BY <1>1
  <2>3. QED
    BY <1>2, <2>1, <2>2, AskingKeeps DEF TypeOK, BindType, FsOK
<1>8. RequestInv'
  BY <1>1, <1>2, AskingKeeps DEF IInv, RequestInv
<1>9. AnswerInv' /\ AnswersWereTrue' /\ LinksInv' /\ FileInv'
  BY <1>1, <1>6 DEF AnswerInv, AnswersWereTrue, LinksInv, FileInv
<1>10. QED
  BY <1>2, <1>7, <1>8, <1>9, AskingKeeps DEF IInv

\* The connection is done with the answer.
LEMMA DoneIInv ==
    ASSUME IInv, Done
    PROVE  IInv'
<1>1. /\ pc = "done" /\ pc' = "idle" /\ url' = None /\ path' = None /\ reply' = None
      /\ possible' = {} /\ torn' = FALSE /\ refused' = FALSE /\ changes' = 0
      /\ UNCHANGED <<bindVars, fs, file, linked, size>>
  BY DEF Done
<1>2. BindType' /\ BindInv' /\ binds' = binds /\ fs' = fs
  BY <1>1 DEF IInv, TypeOK, BindType, BindInv, bindVars
<1>3. ~linked /\ file = None
  BY <1>1 DEF IInv, FileInv
<1>4. TypeOK'
  <2>1. size' \in Nat /\ linked' \in BOOLEAN /\ binds' \in 0..MaxBinds \union {None}
    BY <1>1, <1>2 DEF IInv, TypeOK
  <2>2. fs' \in [Path -> {Dir, None} \union Bytes] /\ FsOK'
    BY <1>2 DEF IInv, TypeOK, FsOK
  <2>3. changes' \in 0..MaxChanges /\ file' = None
    BY <1>1, <1>3
  <2>4. QED
    BY <1>1, <1>2, <2>1, <2>2, <2>3 DEF TypeOK, BindType, FsOK
<1>5. RequestInv' /\ AnswerInv' /\ FileInv' /\ AnswersWereTrue' /\ LinksInv'
  BY <1>1, <1>3 DEF RequestInv, AnswerInv, FileInv, AnswersWereTrue, LinksInv
<1>6. QED
  BY <1>2, <1>4, <1>5 DEF IInv

\* Somebody changes the file or directory at p to c.
LEMMA OtherIInv ==
    ASSUME IInv, Other
    PROVE  IInv'
<1>1. PICK p, c :
          /\ p \in Path /\ Change(p, c)
          /\ c = None \/ (IF p \in DirPath THEN c = Dir ELSE c \in Holds[p])
          /\ \/ Unlink(p)
             \/ /\ p \in FilePath /\ c # None /\ fs[p] # None
                /\ file' = IF linked /\ p = path THEN c ELSE file
                /\ torn' = (torn \/ /\ linked /\ p = path /\ pc = "read"
                                    /\ ~IsPrefix(fs[p], c))
                /\ UNCHANGED linked
  <2>1. ASSUME NEW p \in FilePath, NEW c \in Holds[p], Publish(p, c)
        PROVE  Change(p, c) /\ Unlink(p) /\ p \notin DirPath
    BY <2>1, TextAssumption DEF Publish
  <2>2. ASSUME NEW p \in FilePath, NEW c \in Holds[p], InPlace(p, c)
        PROVE  p \notin DirPath /\ c # None
    BY HoldsType, TextAssumption
  <2>3. ASSUME NEW p \in Path, Delete(p) PROVE Change(p, None) /\ Unlink(p)
    BY <2>3 DEF Delete
  <2>4. ASSUME NEW p \in DirPath, MakeDir(p) PROVE Change(p, Dir) /\ Unlink(p)
    BY <2>4 DEF MakeDir
  <2>5. QED
    BY <2>1, <2>2, <2>3, <2>4 DEF Other, InPlace
<1>2. /\ fs' = [fs EXCEPT ![p] = c]
      /\ UNCHANGED <<bindVars, pc, url, path, size, reply, refused>>
      /\ IF pc \in {"idle", "done"} THEN UNCHANGED <<possible, changes>>
         ELSE /\ possible' = possible \union {AtOnce(url, path)'}
              /\ changes' = changes + 1
      /\ changes < MaxChanges
  BY <1>1 DEF Change
<1>3. /\ fs' \in [Path -> {Dir, None} \union Bytes] /\ FsOK'
      /\ \A q \in Path \ {p} : fs'[q] = fs[q]
      /\ fs'[p] = c
  <2>1. c \in {Dir, None} \union Bytes
    BY <1>1 DEF Bytes
  <2>2. QED
    BY <1>1, <1>2, <2>1 DEF IInv, TypeOK, FsOK
<1>4. /\ BindType' /\ BindInv' /\ binds' \in 0..MaxBinds \union {None}
      /\ Lookup(url)' = Lookup(url)
  <2>1. Lookup(url)' = Lookup(url')
    BY <1>2, SameLookup DEF bindVars
  <2>2. QED
    BY <1>2, <2>1 DEF bindVars, IInv, TypeOK, BindType, BindInv
<1>5. /\ possible \subseteq possible' /\ possible' \subseteq AnyAnswer
      /\ changes' \in 0..MaxChanges
      /\ pc \notin {"idle", "done"} => AtOnce(url, path)' \in possible'
  <2>1. url \in Url \/ pc = "idle"
    BY DEF IInv, RequestInv
  <2>2. pc # "idle" => AtOnce(url, path)' \in AnyAnswer
    BY <1>2, <1>3, <2>1, AnswerType
  <2>3. possible \subseteq AnyAnswer /\ changes \in 0..MaxChanges
    BY DEF IInv, TypeOK
  <2>4. QED
    BY <1>2, <2>2, <2>3
<1>6. /\ linked' => linked /\ pc \in {"measure", "read"} /\ file' = fs'[path]
      /\ linked' \in BOOLEAN /\ torn' \in BOOLEAN
      /\ pc \in {"measure", "read"} => file' \in Seq(1..255)
      /\ pc \notin {"measure", "read"} => file' = None
      /\ file' \in Bytes \union {None}
  <2>1. CASE Unlink(p)
    <3>1. linked' = (linked /\ p # path) /\ file' = file /\ torn' = torn
      BY <2>1 DEF Unlink
    <3>2. /\ linked \in BOOLEAN /\ torn \in BOOLEAN /\ file \in Bytes \union {None}
          /\ linked => pc \in {"measure", "read"} /\ path \in FilePath /\ file = fs[path]
          /\ pc \in {"measure", "read"} => file \in Seq(1..255)
          /\ pc \notin {"measure", "read"} => file = None
      BY DEF IInv, FileInv, RequestInv, TypeOK
    <3>3. linked' \in BOOLEAN
      BY <3>1
    <3>4. torn' \in BOOLEAN
      BY <3>1, <3>2, Zenon
    <3>5. linked' => linked /\ p # path
      BY <3>1
    <3>6. linked' => file' = fs'[path]
      BY <1>3, <3>1, <3>2, <3>5
    <3>7. QED
      BY <3>1, <3>2, <3>3, <3>4, <3>5, <3>6
  <2>2. CASE ~Unlink(p)
    <3>1. /\ p \in FilePath /\ c \in Holds[p]
          /\ file' = IF linked /\ p = path THEN c ELSE file
          /\ linked' = linked
          /\ torn' = (torn \/ /\ linked /\ p = path /\ pc = "read"
                              /\ ~IsPrefix(fs[p], c))
      BY <1>1, <2>2, TextAssumption
    <3>2. c \in Seq(1..255) /\ c \in Bytes
      BY <3>1, HoldsType DEF Bytes
    <3>3. path \in FilePath \/ ~linked
      BY DEF IInv, FileInv, RequestInv
    <3>4. QED
      BY <1>2, <1>3, <3>1, <3>2, <3>3 DEF IInv, FileInv, TypeOK
  <2>3. QED
    BY <2>1, <2>2
<1>7. TypeOK'
  <2>1. /\ size' \in Nat /\ reply' \in AnyAnswer \union {None}
        /\ url' \in Url \union {None} /\ refused' \in BOOLEAN
    BY <1>2 DEF IInv, TypeOK
  <2>2. pc' = pc
    BY <1>2
  <2>3. QED
    BY <1>3, <1>4, <1>5, <1>6, <2>1, <2>2 DEF IInv, TypeOK, BindType, FsOK
<1>8. pc = "idle" => possible' = {} /\ ~torn'
  BY <1>1, <1>2 DEF Unlink, IInv, RequestInv
<1>9. RequestInv'
  BY <1>2, <1>4, <1>8 DEF IInv, RequestInv, bindVars
<1>10. AnswerInv'
  BY <1>2, <1>5 DEF IInv, AnswerInv
<1>11. pc # "read" => torn' = torn
  <2>1. torn \in BOOLEAN
    BY DEF IInv, TypeOK
  <2>2. CASE Unlink(p)
    BY <2>2 DEF Unlink
  <2>3. CASE ~Unlink(p)
    BY <1>1, <2>1, <2>3
  <2>4. QED
    BY <2>2, <2>3
<1>12. AnswersWereTrue' /\ LinksInv'
  BY <1>2, <1>11 DEF IInv, AnswersWereTrue, LinksInv, Link
<1>13. pc = "measure" => Document(file') \in possible'
  <2>1. CASE file' = file
    BY <1>5, <2>1 DEF IInv, FileInv
  <2>2. CASE file' # file /\ pc = "measure"
    <3>1. linked' /\ path \in FilePath
      BY <1>1, <2>2 DEF Unlink, IInv, RequestInv
    <3>2. file' = fs'[path'] /\ path' \in FilePath /\ fs'[path'] # None
      BY <1>1, <1>2, <1>3, <1>6, <2>2, <3>1 DEF Unlink
    <3>3. AtOnce(url, path)' = Document(file')
      BY <3>2, TextAssumption DEF AtOnce, IsDirectory, IsRegularFile
    <3>4. QED
      BY <1>5, <2>2, <3>3
  <2>3. QED
    BY <2>1, <2>2
<1>14. pc = "read" /\ ~torn' =>
           size' <= Len(file') /\ Document(SubSeq(file', 1, size')) \in possible'
  <2> SUFFICES ASSUME pc = "read", ~torn'
               PROVE  size' <= Len(file') /\ Document(SubSeq(file', 1, size')) \in possible'
    OBVIOUS
  <2>1. ~torn
    BY <1>1 DEF Unlink
  <2>2. /\ size <= Len(file) /\ Document(SubSeq(file, 1, size)) \in possible
        /\ file \in Seq(1..255) /\ size \in Nat /\ size' = size
    BY <1>2, <2>1 DEF IInv, FileInv, TypeOK
  <2>3. CASE file' = file
    BY <1>5, <2>2, <2>3
  <2>4. CASE file' # file
    <3>1. file' = c /\ file = fs[p] /\ IsPrefix(fs[p], c)
      BY <1>1, <2>4 DEF Unlink, IInv, FileInv
    <3>2. file' \in Seq(1..255)
      BY <1>6
    <3>3. Len(file) <= Len(file') /\ SubSeq(file, 1, Len(file)) = SubSeq(file', 1, Len(file))
      BY <3>1 DEF IsPrefix
    <3>4. \A i \in 1..Len(file) : file[i] = file'[i]
      BY <2>2, <3>2, <3>3
    <3>5. SubSeq(file, 1, size) = SubSeq(file', 1, size)
      BY <2>2, <3>2, <3>3, <3>4
    <3>6. Len(file) \in Nat /\ Len(file') \in Nat
      BY <2>2, <3>2
    <3>7. size' <= Len(file')
      BY <2>2, <3>3, <3>6
    <3>8. SubSeq(file', 1, size') = SubSeq(file, 1, size)
      BY <2>2, <3>5
    <3>9. Document(SubSeq(file', 1, size')) = Document(SubSeq(file, 1, size))
      BY <3>8
    <3>10. QED
      BY <1>5, <2>2, <3>7, <3>9
  <2>5. QED
    BY <2>3, <2>4
<1>15. FileInv'
  BY <1>2, <1>6, <1>11, <1>13, <1>14 DEF IInv, FileInv
<1>16. QED
  BY <1>4, <1>7, <1>9, <1>10, <1>12, <1>15 DEF IInv

\* Every step keeps IInv.
LEMMA NextIInv == IInv /\ [Next]_vars => IInv'
<1> SUFFICES ASSUME IInv, [Next]_vars PROVE IInv'
  OBVIOUS
<1>1. CASE UNCHANGED vars
  <2>1. Lookup(url)' = Lookup(url) /\ AtOnce(url, path)' = AtOnce(url, path)
    BY <1>1, SameLookup, SameAnswer DEF vars, bindVars, requestVars
  <2>2. QED
    BY <1>1, <2>1 DEF vars, bindVars, requestVars, IInv, TypeOK, BindInv, RequestInv,
                      AnswerInv, FileInv, AnswersWereTrue, LinksInv
<1>2. QED
  BY <1>1, BindIInv, GetIInv, LookIInv, OpenIInv, MeasureIInv, ReadIInv, DoneIInv,
     OtherIInv DEF Next

\* IInv holds in every reachable state.
THEOREM Invariance == Spec => []IInv
<1>1. QED
  BY InitIInv, NextIInv, PTL DEF Spec

\* Every variable of the binder and of its request has its type.
THEOREM TypeCorrect == Spec => []TypeOK
<1>1. IInv => TypeOK
  BY DEF IInv
<1>2. QED
  BY <1>1, Invariance, PTL

\* A URL is answered from what it was last bound to with success.
THEOREM BindingsServe == Spec => []LatestBindingServes
<1>1. IInv => LatestBindingServes
  BY BoundLookup DEF IInv, LatestBindingServes
<1>2. QED
  BY <1>1, Invariance, PTL

\* An answer put together from several system calls is one that a lookup in a
\* single step would have given at some moment of the request, but for a file
\* overwritten in place while it is read, a directory that goes away before it is
\* read, and a system call that fails on what is there.
THEOREM AnswersAreTrue == Spec => []AnswersWereTrue
<1>1. IInv => AnswersWereTrue
  BY DEF IInv
<1>2. QED
  BY <1>1, Invariance, PTL

-----------------------------------------------------------------------------
(* The links of a listing. *)

\* Of two beginnings of a text one begins with the other.
LEMMA Comparable ==
    ASSUME NEW a \in Seq(Piece), NEW b \in Seq(Piece), NEW u \in Seq(Piece),
           IsPrefix(a, u), IsPrefix(b, u)
    PROVE  IsPrefix(a, b) \/ IsPrefix(b, a)
<1>1. ASSUME NEW x \in Seq(Piece), IsPrefix(x, u)
      PROVE  Len(x) <= Len(u) /\ \A i \in 1..Len(x) : x[i] = u[i]
  <2>1. SubSeq(x, 1, Len(x)) = SubSeq(u, 1, Len(x)) /\ Len(x) <= Len(u)
    BY <1>1 DEF IsPrefix
  <2>2. \A i \in 1..Len(x) : /\ SubSeq(x, 1, Len(x))[i] = x[i]
                             /\ SubSeq(u, 1, Len(x))[i] = u[i]
    BY <2>1
  <2>3. QED
    BY <2>1, <2>2
<1>2. ASSUME NEW x \in Seq(Piece), NEW y \in Seq(Piece), IsPrefix(x, u), IsPrefix(y, u),
             Len(x) <= Len(y)
      PROVE  IsPrefix(x, y)
  <2>1. \A i \in 1..Len(x) : x[i] = y[i]
    BY <1>1, <1>2
  <2>2. SubSeq(x, 1, Len(x)) = SubSeq(y, 1, Len(x))
    BY <1>2, <2>1
  <2>3. QED
    BY <1>2, <2>2 DEF IsPrefix
<1>3. Len(a) <= Len(b) \/ Len(b) <= Len(a)
  OBVIOUS
<1>4. QED
  BY <1>2, <1>3

\* When bound directories are not nested, one of them serves a text at most.
LEMMA OneAbove ==
    ASSUME TypeOK, NotNested, NEW u \in Seq(Piece), NEW d \in BoundAbove(u)
    PROVE  BoundAbove(u) = {d} /\ First(BoundAbove(u)) = d
<1>1. \A e \in BoundAbove(u) :
          e \in BindUrl /\ e \in Seq(Piece) /\ dirBindings[e] # None /\ IsPrefix(e, u)
  BY TextAssumption DEF BoundAbove, TypeOK
<1>2. ASSUME NEW e \in BoundAbove(u) PROVE e = d
  <2>1. IsPrefix(d, e) \/ IsPrefix(e, d)
    BY <1>1, Comparable
  <2>2. d \in BoundAbove(e) \/ e \in BoundAbove(d)
    BY <1>1, <2>1 DEF BoundAbove, TypeOK
  <2>3. BoundAbove(e) = {e} /\ BoundAbove(d) = {d}
    BY <1>1 DEF NotNested
  <2>4. QED
    BY <2>2, <2>3
<1>3. BoundAbove(u) = {d}
  BY <1>2
<1>4. Len(d) <= Len(d)
  BY <1>1
<1>5. First({d}) = d
  BY <1>4 DEF First
<1>6. QED
  BY <1>3, <1>5

\* A directory that is listed was found under one that is bound.
LEMMA ServedFrom ==
    ASSUME TypeOK, BindInv, NotNested, NEW u \in Url, Lookup(u).path \in DirPath
    PROVE  \E d \in BoundAbove(u) :
               Lookup(u).path = Resolve(dirBindings[d] \o SubSeq(u, Len(d) + 1, Len(u)))
<1>1. u \in Seq(Piece)
  BY TextAssumption
<1>2. CASE u \in BindUrl /\ dirBindings[u] # None
  <2>1. u \in BoundAbove(u)
    BY <1>2 DEF NotNested
  <2>2. SubSeq(u, Len(u) + 1, Len(u)) = <<>>
    BY <1>1
  <2>3. dirBindings[u] \in Seq(Piece)
    <3>1. dirBindings[u] \in BoundDirectory
      BY <1>2 DEF TypeOK
    <3>2. PICK d \in DirPath : dirBindings[u] = Append(d, Slash)
      BY <3>1 DEF BoundDirectory
    <3>3. d \in Seq(Piece) /\ Slash \in Piece
      BY NoneApart, TextAssumption
    <3>4. QED
      BY <3>2, <3>3, AppendProperties
  <2>4. dirBindings[u] \o <<>> = dirBindings[u]
    BY <2>3
  <2>5. Lookup(u).path = Resolve(dirBindings[u])
    BY <1>2 DEF Lookup
  <2>6. QED
    BY <2>1, <2>2, <2>4, <2>5
<1>3. CASE ~(u \in BindUrl /\ dirBindings[u] # None)
  <2>1. ~(u \in BindUrl /\ fileBindings[u] # None)
    BY <1>3, TextAssumption DEF Lookup, TypeOK
  <2>2. BoundAbove(u) # {} /\ Lookup(u).path = Below(u)
    BY <1>3, <2>1, NoneApart DEF Lookup
  <2>3. PICK d \in BoundAbove(u) : TRUE
    BY <2>2
  <2>4. First(BoundAbove(u)) = d
    BY <1>1, <2>3, OneAbove
  <2>5. QED
    BY <2>2, <2>4 DEF Below
<1>4. QED
  BY <1>2, <1>3

\* An entry is its directory, a slash and its name.
LEMMA EntryPath ==
    ASSUME NEW p \in Path, Len(p) > 2
    PROVE  /\ Parent(p) \in Seq(Piece) /\ Name(p) \in Piece /\ Name(p) # Slash
           /\ p = Parent(p) \o <<Slash, Name(p)>>
<1>1. p \in Seq(Piece) /\ p[Len(p) - 1] = Slash /\ Name(p) # Slash /\ Slash \in Piece
  BY TextAssumption
<1>2. Name(p) = p[Len(p)] /\ Name(p) \in Piece
  BY <1>1 DEF Name, Last
<1>3. Parent(p) \in Seq(Piece) /\ Len(Parent(p)) = Len(p) - 2
      /\ \A i \in 1..Len(p) - 2 : Parent(p)[i] = p[i]
  BY <1>1 DEF Parent
<1> DEFINE q == Parent(p) \o <<Slash, Name(p)>>
<1>4. /\ q \in Seq(Piece) /\ Len(q) = Len(p)
      /\ q[Len(p) - 1] = Slash /\ q[Len(p)] = Name(p)
      /\ \A i \in 1..Len(p) - 2 : q[i] = Parent(p)[i]
  BY <1>1, <1>2, <1>3
<1> HIDE DEF q
<1>5. \A i \in 1..Len(p) : i \in 1..Len(p) - 2 \/ i = Len(p) - 1 \/ i = Len(p)
  BY <1>1
<1>6. \A i \in 1..Len(p) : q[i] = p[i]
  BY <1>1, <1>2, <1>3, <1>4, <1>5
<1>7. p = q
  BY <1>1, <1>4, <1>6
<1>8. QED
  BY <1>1, <1>2, <1>3, <1>7 DEF q

\* A text that begins with d is d and what stands behind it.
LEMMA Split ==
    ASSUME NEW d \in Seq(Piece), NEW u \in Seq(Piece), IsPrefix(d, u)
    PROVE  /\ SubSeq(u, Len(d) + 1, Len(u)) \in Seq(Piece)
           /\ u = d \o SubSeq(u, Len(d) + 1, Len(u))
<1>1. /\ Len(d) \in Nat /\ Len(u) \in Nat /\ Len(d) <= Len(u)
      /\ SubSeq(d, 1, Len(d)) = SubSeq(u, 1, Len(d))
  BY DEF IsPrefix
<1>2. SubSeq(u, 1, Len(d)) \o SubSeq(u, Len(d) + 1, Len(u)) = SubSeq(u, 1, Len(u))
  <2>1. 1 \in 1..Len(u) + 1 /\ Len(d) \in (1 - 1)..Len(u) /\ Len(u) \in Len(d)..Len(u)
    BY <1>1
  <2>2. QED
    BY <2>1, ConcatAdjacentSubSeq
<1>3. SubSeq(u, 1, Len(u)) = u /\ SubSeq(d, 1, Len(d)) = d
  BY SubSeqFull
<1>4. SubSeq(u, Len(d) + 1, Len(u)) \in Seq(Piece)
  BY <1>1
<1>5. QED
  BY <1>1, <1>2, <1>3, <1>4

\* What stands behind d in d \o t is t.
LEMMA Behind ==
    ASSUME NEW d \in Seq(Piece), NEW t \in Seq(Piece)
    PROVE  /\ d \o t \in Seq(Piece) /\ IsPrefix(d, d \o t)
           /\ SubSeq(d \o t, Len(d) + 1, Len(d \o t)) = t
<1> DEFINE u == d \o t
<1>1. /\ u \in Seq(Piece) /\ Len(u) = Len(d) + Len(t)
      /\ \A i \in 1..Len(d) : u[i] = d[i]
      /\ \A i \in 1..Len(t) : u[Len(d) + i] = t[i]
  <2>1. /\ u \in Seq(Piece) /\ Len(u) = Len(d) + Len(t)
        /\ \A i \in 1..Len(d) + Len(t) : u[i] = IF i <= Len(d) THEN d[i] ELSE t[i - Len(d)]
    BY ConcatProperties
  <2> HIDE DEF u
  <2>2. \A i \in 1..Len(t) : Len(d) + i \in 1..Len(d) + Len(t) /\ ~(Len(d) + i <= Len(d))
                             /\ (Len(d) + i) - Len(d) = i
    OBVIOUS
  <2>3. QED
    BY <2>1, <2>2
<1> HIDE DEF u
<1>2. SubSeq(d, 1, Len(d)) = SubSeq(u, 1, Len(d)) /\ Len(d) <= Len(u)
  BY <1>1
<1> DEFINE s == SubSeq(u, Len(d) + 1, Len(u))
<1>3. /\ s \in Seq(Piece) /\ Len(s) = Len(t)
      /\ \A i \in 1..Len(t) : s[i] = u[Len(d) + i]
  BY <1>1
<1>4. s = t
  <2> HIDE DEF s
  <2>1. \A i \in 1..Len(s) : s[i] = t[i]
    BY <1>1, <1>3
  <2>2. QED
    BY <1>3, <2>1, SeqEqual
<1>5. QED
  BY <1>1, <1>2, <1>4 DEF IsPrefix, u

\* What stands behind the bound URL is put behind its directory: the link to
\* an entry of the directory listed leads to the entry.
LEMMA LinkResolves ==
    ASSUME NEW b \in Seq(Piece), NEW d \in Seq(Piece), NEW u \in Seq(Piece), u # <<>>,
           IsPrefix(d, u), NEW p \in Path, Len(p) > 2,
           Resolve(Append(b, Slash) \o SubSeq(u, Len(d) + 1, Len(u))) = Parent(p)
    PROVE  /\ Link(u, p) \in Seq(Piece) /\ IsPrefix(d, Link(u, p))
           /\ Resolve(Append(b, Slash)
                        \o SubSeq(Link(u, p), Len(d) + 1, Len(Link(u, p)))) = p
<1> DEFINE n == Name(p)
           t == SubSeq(u, Len(d) + 1, Len(u))
           B == Append(b, Slash)
           S == <<Slash>>
           N == <<n>>
           end == IF p \in DirPath THEN S ELSE <<>>
           more == IF Last(u) = Slash THEN t ELSE t \o S
           Text == Seq(Piece)
           Cat(q, r) == q \o r
<1>1. /\ Slash \in Piece /\ n \in Piece /\ n # Slash
      /\ p \in Seq(Piece) /\ p = Parent(p) \o <<Slash, n>>
  BY EntryPath, TextAssumption
<1>2. t \in Seq(Piece) /\ u = d \o t
  BY Split
<1>3. B \in Seq(Piece) /\ B = b \o S /\ S \in Seq(Piece) /\ N \in Seq(Piece)
  BY <1>1
<1>4. end \in Seq(Piece)
  BY <1>3
<1>5. ASSUME NEW x \in Seq(Piece)
      PROVE  /\ Append(x, Slash) = x \o S /\ x \o <<>> = x
             /\ (x \o S) \o N = x \o <<Slash, n>>
  BY <1>1, Added, Zenon
<1>6. /\ \A q, r \in Text : Cat(q, r) \in Text
      /\ \A q, r, v \in Text : Cat(Cat(q, r), v) = Cat(q, Cat(r, v))
  BY Together, Zenon
<1>7. Link(u, p) = ((IF Last(u) = Slash THEN u ELSE u \o S) \o N) \o end
  BY <1>5 DEF Link
<1>8. /\ Resolve(B \o t) = Parent(p)
      /\ u = d \o t
      /\ Last(u) = Slash => more = t
      /\ Last(u) # Slash => more = t \o S
      /\ p \in DirPath => end = S
      /\ p \notin DirPath => end = <<>>
  BY <1>2
<1>9. Last(u) = Slash /\ t # <<>> => t[Len(t)] = Slash
  <2> SUFFICES ASSUME Last(u) = Slash, t # <<>> PROVE t[Len(t)] = Slash
    OBVIOUS
  <2> HIDE DEF t
  <2>1. Len(t) \in Nat /\ Len(d) \in Nat /\ Len(t) # 0
    BY <1>2
  <2>2. /\ Len(u) = Len(d) + Len(t)
        /\ \A i \in 1..Len(d) + Len(t) :
               u[i] = IF i <= Len(d) THEN d[i] ELSE t[i - Len(d)]
    BY <1>2, ConcatProperties
  <2>3. Len(u) \in 1..Len(d) + Len(t) /\ ~(Len(u) <= Len(d)) /\ Len(u) - Len(d) = Len(t)
    BY <2>1, <2>2
  <2> HIDE DEF S
  <2>4. u[Len(u)] = t[Len(u) - Len(d)]
    BY <2>2, <2>3
  <2>5. u[Len(u)] = t[Len(t)]
    BY <2>3, <2>4
  <2>6. QED
    BY <2>5 DEF Last
<1>10. /\ d \in Text /\ u \in Text /\ t \in Text /\ B \in Text /\ S \in Text
       /\ N \in Text /\ end \in Text
       /\ u = Cat(d, t) /\ Resolve(Cat(B, t)) = Parent(p)
       /\ Link(u, p) = Cat(Cat(IF Last(u) = Slash THEN u ELSE Cat(u, S), N), end)
       /\ Last(u) = Slash => more = t
       /\ Last(u) # Slash => more = Cat(t, S)
  BY <1>2, <1>3, <1>4, <1>7, <1>8
<1> HIDE DEF B, t, S, N, end, more, Cat, Text
<1>11. more \in Text
  <2>1. t \in Text /\ S \in Text /\ Cat(t, S) \in Text
    BY <1>6, <1>10
  <2>2. QED
    BY <1>10, <2>1
<1>12. (IF Last(u) = Slash THEN u ELSE Cat(u, S)) = Cat(d, more)
  <2>1. Cat(Cat(d, t), S) = Cat(d, Cat(t, S))
    BY <1>6, <1>10
  <2>2. QED
    BY <1>10, <2>1
<1> DEFINE T == Cat(more, Cat(N, end))
<1>13. Cat(N, end) \in Text /\ T \in Text
  BY <1>6, <1>10, <1>11
<1>14. Link(u, p) = Cat(d, T)
  <2>1. Link(u, p) = Cat(Cat(Cat(d, more), N), end)
    BY <1>10, <1>12
  <2>2. Cat(Cat(d, more), N) = Cat(d, Cat(more, N))
    BY <1>6, <1>10, <1>11
  <2>3. Cat(more, N) \in Text /\ Cat(Cat(more, N), end) = T
    BY <1>6, <1>10, <1>11
  <2>4. Cat(Cat(d, Cat(more, N)), end) = Cat(d, Cat(Cat(more, N), end))
    BY <1>6, <1>10, <2>3
  <2>5. QED
    BY <2>1, <2>2, <2>3, <2>4
<1> HIDE DEF T
<1>15. /\ Link(u, p) \in Seq(Piece) /\ IsPrefix(d, Link(u, p))
       /\ SubSeq(Link(u, p), Len(d) + 1, Len(Link(u, p))) = T
  <2>1. /\ d \o T \in Seq(Piece) /\ IsPrefix(d, d \o T)
        /\ SubSeq(d \o T, Len(d) + 1, Len(d \o T)) = T
    BY <1>13, Behind DEF Text
  <2>2. Link(u, p) = d \o T
    BY <1>14 DEF Cat
  <2>3. QED
    BY <2>1, <2>2, Zenon
<1>16. PICK y \in Text : Resolve(y) = Parent(p) /\ Cat(B, more) = Cat(y, S)
  <2> DEFINE x == Cat(B, t)
  <2>1. x \in Text
    BY <1>6, <1>10
  <2>2. CASE Last(u) # Slash
    <3>1. Cat(B, more) = Cat(x, S)
      BY <1>6, <1>10, <2>2
    <3>2. QED
      BY <1>10, <2>1, <3>1
  <2>3. CASE Last(u) = Slash
    <3>1. B[Len(B)] = Slash /\ Len(B) \in Nat \ {0} /\ Len(t) \in Nat
      BY <1>1, <1>2 DEF B
    <3>2. Len(x) > 0 /\ x[Len(x)] = Slash
      <4>1. /\ Len(x) = Len(B) + Len(t)
            /\ \A i \in 1..Len(B) + Len(t) :
                   x[i] = IF i <= Len(B) THEN B[i] ELSE t[i - Len(B)]
        BY <1>2, <1>3, ConcatProperties DEF Cat
      <4> HIDE DEF x
      <4>2. CASE Len(t) = 0
        BY <3>1, <4>1, <4>2
      <4>3. CASE Len(t) # 0
        <5>1. t # <<>>
          BY <4>3
        <5>2. /\ Len(x) \in 1..Len(B) + Len(t) /\ ~(Len(x) <= Len(B))
              /\ Len(x) - Len(B) = Len(t)
          BY <3>1, <4>1, <4>3
        <5>3. x[Len(x)] = t[Len(t)]
          BY <4>1, <5>2
        <5>4. QED
          BY <1>9, <2>3, <5>1, <5>2, <5>3
      <4>4. QED
        BY <4>2, <4>3
    <3> HIDE DEF x
    <3> DEFINE y == SubSeq(x, 1, Len(x) - 1)
    <3>3. y \in Seq(Piece) /\ x = Append(y, Slash)
      BY <2>1, <3>2 DEF Text
    <3> HIDE DEF y
    <3>4. Resolve(y) = Resolve(x)
      BY <3>3, ResolveSlash
    <3>5. x = Cat(y, S)
      BY <1>5, <3>3 DEF Cat, Text
    <3>6. QED
      BY <1>10, <2>3, <3>3, <3>4, <3>5 DEF x, Text
  <2>4. QED
    BY <2>2, <2>3
<1> DEFINE q == Cat(Cat(y, S), N)
<1>17. q \in Text /\ Cat(y, S) \in Text
  BY <1>6, <1>10
<1>18. Resolve(q) = p
  <2>1. q = y \o <<Slash, n>>
    BY <1>5 DEF Cat, Text
  <2>2. Resolve(y \o <<Slash, n>>) = p
    BY <1>1, <1>16, ResolvePiece DEF Text
  <2>3. QED
    BY <2>1, <2>2, Zenon
<1>19. Cat(B, T) = Cat(q, end)
  BY <1>6, <1>10, <1>11, <1>13, <1>16, <1>17 DEF T
<1> HIDE DEF q
<1>20. Resolve(Cat(q, end)) = p
  <2>1. Cat(q, <<>>) = q /\ Cat(q, S) = Append(q, Slash)
    BY <1>5, <1>17 DEF Cat, Text
  <2>2. Resolve(Append(q, Slash)) = p
    BY <1>17, <1>18, ResolveSlash DEF Text
  <2>3. QED
    BY <1>8, <1>18, <2>1, <2>2
<1>21. Resolve(B \o T) = p
  BY <1>19, <1>20 DEF Cat
<1>22. QED
  BY <1>15, <1>21 DEF B

\* The links of a listing lead to its entries.
THEOREM LinksLeadThere == Spec => []LinksLead
<1>1. ASSUME IInv PROVE LinksLead
  <2> SUFFICES ASSUME pc = "done", NotNested, NEW l \in reply.links,
                      ~(l.url \in BindUrl /\ latest[l.url] # None)
               PROVE  Lookup(l.url).path = l.path
    BY DEF LinksLead
  <2>1. TypeOK /\ BindInv
    BY <1>1 DEF IInv
  <2>2. url \in Url /\ path = Lookup(url).path /\ path \in DirPath
    BY <1>1 DEF IInv, RequestInv, LinksInv
  <2>3. PICK p \in Path :
            Len(p) > 2 /\ Parent(p) = path /\ l = [url |-> Link(url, p), path |-> p]
    BY <1>1 DEF IInv, LinksInv
  <2>4. PICK d \in BoundAbove(url) :
            path = Resolve(dirBindings[d] \o SubSeq(url, Len(d) + 1, Len(url)))
    BY <2>1, <2>2, ServedFrom
  <2>5. /\ d \in BindUrl /\ dirBindings[d] # None /\ IsPrefix(d, url)
        /\ d \in Seq(Piece) /\ url \in Seq(Piece) /\ url # <<>>
    BY <2>1, <2>2, <2>4, TextAssumption DEF BoundAbove, TypeOK
  <2>6. PICK b \in DirPath : dirBindings[d] = Append(b, Slash)
    BY <2>1, <2>5 DEF TypeOK, BoundDirectory
  <2>7. b \in Seq(Piece)
    BY NoneApart
  <2>8. /\ l.url \in Seq(Piece) /\ IsPrefix(d, l.url)
        /\ Resolve(dirBindings[d] \o SubSeq(l.url, Len(d) + 1, Len(l.url))) = l.path
    BY <2>3, <2>4, <2>5, <2>6, <2>7, LinkResolves
  <2>9. d \in BoundAbove(l.url)
    BY <2>1, <2>5, <2>8 DEF BoundAbove, TypeOK
  <2>10. Below(l.url) = l.path
    BY <2>1, <2>8, <2>9, OneAbove DEF Below
  <2>11. l.url \in BindUrl => dirBindings[l.url] = None /\ fileBindings[l.url] = None
    BY <2>1, NoneApart DEF BindInv
  <2>12. Lookup(l.url).path = Below(l.url)
    BY <2>9, <2>11 DEF Lookup
  <2>13. QED
    BY <2>10, <2>12
<1>2. IInv => LinksLead
  BY <1>1
<1>3. QED
  BY <1>2, Invariance, PTL
=============================================================================
