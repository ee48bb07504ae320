------------------------------ MODULE WebBinder -----------------------------
(***************************************************************************)
(* WebBinder and ResponseData: URLs are bound to directories and files     *)
(* before the server runs; a request then looks its URL up and reads the   *)
(* document with several system calls, between which other processes       *)
(* change the files. A step is one binding, one system call of a request   *)
(* or one change.                                                          *)
(*                                                                         *)
(* URLs and paths are sequences of pieces of text, a slash is a piece of   *)
(* its own. What is a directory never becomes a file, nor a file a         *)
(* directory. A directory is read at once, when the iterator is made.      *)
(***************************************************************************)
EXTENDS Integers, Sequences, SequencesExt, FiniteSetsExt

CONSTANTS Piece,       \* pieces of text
          Slash,
          Url,         \* URLs that are asked for
          BindUrl,     \* those that may be bound
          DirPath,     \* paths of directories, without a slash at the end
          FilePath,    \* paths of files
          Holds,       \* Holds[p]: what the file at p may hold
          MaxBinds,    \* bound: bindings tried
          MaxChanges,  \* bound: changes to files during one request
          Dir,         \* what the file system has at the path of a directory
          None

Path == DirPath \union FilePath

Parent(p) == SubSeq(p, 1, Len(p) - 2)

Name(p) == Last(p)

\* The path as the file system takes it: without a slash at the end or behind
\* another one. The j-th piece is the one with j kept up to it.
Kept(p) ==
    {i \in 1..Len(p) : p[i] # Slash \/ (i < Len(p) /\ p[i + 1] # Slash)}

Upto(kept, i) == {k \in kept : k <= i}

Nth(kept, j) == CHOOSE i \in kept : Cardinality(Upto(kept, i)) = j

Resolve(p) == [j \in 1..Cardinality(Kept(p)) |-> p[Nth(Kept(p), j)]]

\* Paths are as Resolve leaves them.
ASSUME TextAssumption ==
    /\ Slash \in Piece
    /\ Url \union Path \subseteq Seq(Piece) \ {<<>>}
    /\ BindUrl \subseteq Url
    /\ DirPath \intersect FilePath = {}
    /\ \A p \in Path : /\ Name(p) # Slash
                       /\ Len(p) > 2 => p[Len(p) - 1] = Slash
                       /\ Resolve(p) = p
    /\ None \notin Seq(Piece)

Bytes == UNION {Holds[p] : p \in FilePath}

ASSUME FileAssumption ==
    /\ DOMAIN Holds = FilePath
    /\ \A p \in FilePath : Holds[p] # {} /\ Holds[p] \subseteq Seq(1..255)
    /\ Dir \notin Bytes /\ None \notin Bytes /\ Dir # None
ASSUME BoundsAssumption == MaxBinds \in Nat /\ MaxChanges \in Nat

VARIABLES
    dirBindings, fileBindings,  \* the two maps: URL to path, or None
    latest,   \* history: the last binding of a URL that was not refused
    binds,    \* bindings tried, None when the server runs
    fs,       \* content of files, Dir for directories, or None
    pc,       \* the request: the next system call
    url,      \* its URL
    path,     \* the path looked at
    file,     \* content of the file that is open, or None
    linked,   \* the open file is still the one at path
    size,     \* its size when it was asked for
    reply,    \* what the request was answered with
    possible, \* history: answers of a lookup in one step, now or since Get
    torn,     \* history: the open file was overwritten after it was measured
    refused,  \* history: a system call has failed on what may well be there
    changes   \* changes since Get

bindVars == <<dirBindings, fileBindings, latest, binds>>
requestVars == <<pc, url, path, file, linked, size, reply, possible, torn,
                 refused, changes>>
vars == <<bindVars, fs, requestVars>>

IsDirectory(p) == p \in DirPath /\ fs[p] # None
IsRegularFile(p) == p \in FilePath /\ fs[p] # None

-----------------------------------------------------------------------------
(* Bindings. *)

\* Mutant: the directory is entered among the files.
DirectoryAmongFiles(d, u) ==
    /\ IF IsDirectory(d)
       THEN /\ fileBindings' = [fileBindings EXCEPT ![u] = Append(d, Slash)]
            /\ latest' = [latest EXCEPT ![u] = d]
            /\ UNCHANGED dirBindings
       ELSE UNCHANGED <<dirBindings, fileBindings, latest>>

\* The directory is given with a slash at its end, as main does.
BindDirectory(d, u) ==
    /\ IF IsDirectory(d)
       THEN /\ dirBindings' = [dirBindings EXCEPT ![u] = Append(d, Slash)]
            /\ fileBindings' = [fileBindings EXCEPT ![u] = None]
            /\ latest' = [latest EXCEPT ![u] = d]
       ELSE UNCHANGED <<dirBindings, fileBindings, latest>>

\* Mutant: the directory bound to the same URL is kept.
BindFileBeside(f, u) ==
    /\ IF IsRegularFile(f)
       THEN /\ fileBindings' = [fileBindings EXCEPT ![u] = f]
            /\ latest' = [latest EXCEPT ![u] = f]
            /\ UNCHANGED dirBindings
       ELSE UNCHANGED <<dirBindings, fileBindings, latest>>

BindFile(f, u) ==
    /\ IF IsRegularFile(f)
       THEN /\ fileBindings' = [fileBindings EXCEPT ![u] = f]
            /\ dirBindings' = [dirBindings EXCEPT ![u] = None]
            /\ latest' = [latest EXCEPT ![u] = f]
       ELSE UNCHANGED <<dirBindings, fileBindings, latest>>

Bind ==
    /\ binds # None
    /\ binds < MaxBinds
    /\ binds' = binds + 1
    /\ \E u \in BindUrl : \/ \E d \in DirPath : BindDirectory(d, u)
                          \/ \E f \in FilePath : BindFile(f, u)
    /\ UNCHANGED <<fs, requestVars>>

\* The loop starts; nothing is bound any more.
Run ==
    /\ binds # None
    /\ binds' = None
    /\ UNCHANGED <<dirBindings, fileBindings, latest, fs, requestVars>>

-----------------------------------------------------------------------------
(* Looking a URL up. *)

\* The directories bound to a beginning of u. Their map is in the order of
\* text, in which the shorter of two beginnings comes first.
BoundAbove(u) ==
    {d \in DOMAIN dirBindings : dirBindings[d] # None /\ IsPrefix(d, u)}

First(urls) == CHOOSE d \in urls : \A e \in urls : Len(d) <= Len(e)

Below(u) ==
    LET d == First(BoundAbove(u))
    IN  Resolve(dirBindings[d] \o SubSeq(u, Len(d) + 1, Len(u)))

\* What getContent looks at for u, and which system call comes first.
Lookup(u) ==
    LET bound == u \in BindUrl IN
    IF bound /\ dirBindings[u] # None
    THEN [path |-> Resolve(dirBindings[u]), pc |-> "dirCheck"]
    ELSE IF bound /\ fileBindings[u] # None
    THEN [path |-> fileBindings[u], pc |-> "fileCheck"]
    ELSE IF BoundAbove(u) # {}
    THEN [path |-> Below(u), pc |-> "probeDir"]
    ELSE [path |-> None, pc |-> "notFound"]

-----------------------------------------------------------------------------
(* Answers. *)

ErrorPage == [kind |-> "404", bytes |-> <<>>, links |-> {}]

\* An exception of the file system ends the handler of the frame: nothing is
\* written.
NoReply == [kind |-> "none", bytes |-> <<>>, links |-> {}]

\* respondGet takes a document without a byte for none.
Document(bytes) ==
    IF bytes = <<>> THEN ErrorPage
    ELSE [kind |-> "document", bytes |-> bytes, links |-> {}]

Entries(d) ==
    {p \in Path : Len(p) > 2 /\ Parent(p) = d /\ fs[p] # None}

\* Mutant: the names are put behind the URL as it is.
LinkAsIs(u, p) == u \o <<Name(p)>> \o (IF p \in DirPath THEN <<Slash>> ELSE <<>>)

\* The link to entry p of a directory that was asked for by u.
Link(u, p) ==
    (IF Last(u) = Slash THEN u ELSE Append(u, Slash))
        \o <<Name(p)>> \o (IF p \in DirPath THEN <<Slash>> ELSE <<>>)

Listing(u, d) ==
    [kind |-> "listing", bytes |-> <<>>,
     links |-> {[url |-> Link(u, p), path |-> p] : p \in Entries(d)}]

\* What a request for u, which looks at p, would be answered with if nothing
\* changed meanwhile.
AtOnce(u, p) ==
    IF p # None /\ IsDirectory(p) THEN Listing(u, p)
    ELSE IF p # None /\ IsRegularFile(p) THEN Document(fs[p])
    ELSE ErrorPage

-----------------------------------------------------------------------------

Init ==
    /\ dirBindings = [u \in BindUrl |-> None]
    /\ fileBindings = [u \in BindUrl |-> None]
    /\ latest = [u \in BindUrl |-> None]
    /\ binds = 0
    /\ fs \in {f \in [Path -> {Dir} \union Bytes] :
                  \A p \in Path : f[p] \in IF p \in DirPath THEN {Dir} ELSE Holds[p]}
    /\ pc = "idle"
    /\ url = None
    /\ path = None
    /\ file = None
    /\ linked = FALSE
    /\ size = 0
    /\ reply = None
    /\ possible = {}
    /\ torn = FALSE
    /\ refused = FALSE
    /\ changes = 0

Leave(from, to) ==
    /\ pc = from
    /\ pc' = to
    /\ UNCHANGED <<bindVars, fs, url, path, possible, torn, changes>>

Goto(from, to) == Leave(from, to) /\ UNCHANGED refused

Answer(from, r) ==
    /\ Goto(from, "done")
    /\ reply' = r
    /\ UNCHANGED <<file, linked, size>>

Continue(from, to) == Goto(from, to) /\ UNCHANGED <<file, linked, size, reply>>

\* A system call fails though nobody has removed anything: no descriptor is
\* left (EMFILE), something on the path may not be read (EACCES), the path is
\* too long. For the tests of <filesystem> and the iterator it is an exception.
Refuse(from, r) ==
    /\ Leave(from, "done")
    /\ reply' = r
    /\ refused' = TRUE
    /\ UNCHANGED <<file, linked, size>>

\* respondGet asks for u.
Get(u) ==
    /\ binds = None
    /\ pc = "idle"
    /\ url' = u
    /\ path' = Lookup(u).path
    /\ pc' = Lookup(u).pc
    /\ possible' = {AtOnce(u, Lookup(u).path)}
    /\ UNCHANGED <<bindVars, fs, file, linked, size, reply, torn, refused, changes>>

NotFound == Answer("notFound", ErrorPage)

ProbeDir ==
    \/ Continue("probeDir", IF IsDirectory(path) THEN "dirCheck" ELSE "probeFile")
    \/ Refuse("probeDir", NoReply)

ProbeFile ==
    \/ IsRegularFile(path) /\ Continue("probeFile", "fileCheck")
    \/ ~IsRegularFile(path) /\ Answer("probeFile", ErrorPage)
    \/ Refuse("probeFile", NoReply)

DirCheck ==
    \/ IsDirectory(path) /\ Continue("dirCheck", "list")
    \/ ~IsDirectory(path) /\ Answer("dirCheck", ErrorPage)
    \/ Refuse("dirCheck", NoReply)

\* The iterator throws for a directory that has gone, or does not open.
List ==
    \/ IsDirectory(path) /\ Answer("list", Listing(url, path))
    \/ ~IsDirectory(path) /\ Answer("list", NoReply)
    \/ Refuse("list", NoReply)

FileCheck ==
    \/ IsRegularFile(path) /\ Continue("fileCheck", "tryOpen")
    \/ ~IsRegularFile(path) /\ Answer("fileCheck", ErrorPage)
    \/ Refuse("fileCheck", NoReply)

\* getFileContent opens the file once to see whether it can,
TryOpen ==
    \/ IsRegularFile(path) /\ Continue("tryOpen", "open")
    \/ ~IsRegularFile(path) /\ Answer("tryOpen", ErrorPage)
    \/ IsRegularFile(path) /\ Refuse("tryOpen", ErrorPage)

\* and readFromFile once more, with a second descriptor. Its result is not
\* looked at: a file that does not open leaves the data empty.
Open ==
    \/ /\ IsRegularFile(path)
       /\ Goto("open", "measure")
       /\ file' = fs[path]
       /\ linked' = TRUE
       /\ UNCHANGED <<size, reply>>
    \/ ~IsRegularFile(path) /\ Answer("open", Document(<<>>))
    \/ IsRegularFile(path) /\ Refuse("open", Document(<<>>))

\* Mutant: the size is that of the file at the path, not of the open one.
MeasurePath ==
    /\ Goto("measure", "read")
    /\ size' = IF IsRegularFile(path) THEN Len(fs[path]) ELSE 0
    /\ UNCHANGED <<file, linked, reply>>

Measure ==
    /\ Goto("measure", "read")
    /\ size' = Len(file)
    /\ UNCHANGED <<file, linked, reply>>

\* data.resize fills with zeros what read does not.
Read ==
    /\ Goto("read", "done")
    /\ reply' = Document([i \in 1..size |-> IF i <= Len(file) THEN file[i] ELSE 0])
    /\ file' = None
    /\ linked' = FALSE
    /\ size' = 0

Done ==
    /\ pc = "done"
    /\ pc' = "idle"
    /\ url' = None
    /\ path' = None
    /\ reply' = None
    /\ possible' = {}
    /\ torn' = FALSE
    /\ refused' = FALSE
    /\ changes' = 0
    /\ UNCHANGED <<bindVars, fs, file, linked, size>>

-----------------------------------------------------------------------------
(* What other processes do to the files. *)

Change(p, c) ==
    /\ changes < MaxChanges
    /\ c # fs[p]
    /\ fs' = [fs EXCEPT ![p] = c]
    /\ UNCHANGED <<bindVars, pc, url, path, size, reply, refused>>
    /\ IF pc \in {"idle", "done"}
       THEN UNCHANGED <<possible, changes>>
       ELSE /\ possible' = possible \union {AtOnce(url, path)'}
            /\ changes' = changes + 1

\* The open file is one of its own from now on.
Unlink(p) == linked' = (linked /\ p # path) /\ UNCHANGED <<file, torn>>

\* A new file is moved to p.
Publish(p, c) ==
    /\ Len(p) > 2 => fs[Parent(p)] # None
    /\ Change(p, c)
    /\ Unlink(p)

Delete(p) ==
    /\ Entries(p) = {}
    /\ Change(p, None)
    /\ Unlink(p)

MakeDir(p) ==
    /\ Len(p) > 2 => fs[Parent(p)] # None
    /\ Change(p, Dir)
    /\ Unlink(p)

\* The file at p is written to as it is.
InPlace(p, c) ==
    /\ fs[p] # None
    /\ Change(p, c)
    /\ file' = IF linked /\ p = path THEN c ELSE file
    /\ torn' = (torn \/ /\ linked /\ p = path /\ pc = "read"
                        /\ ~IsPrefix(fs[p], c))
    /\ UNCHANGED linked

Other ==
    \/ \E p \in FilePath : \E c \in Holds[p] : Publish(p, c) \/ InPlace(p, c)
    \/ \E p \in Path : Delete(p)
    \/ \E p \in DirPath : MakeDir(p)

Next ==
    \/ Bind \/ Run
    \/ \E u \in Url : Get(u)
    \/ NotFound \/ ProbeDir \/ ProbeFile \/ DirCheck \/ List
    \/ FileCheck \/ TryOpen \/ Open \/ Measure \/ Read \/ Done
    \/ Other

Spec == Init /\ [][Next]_vars

-----------------------------------------------------------------------------
(* Properties. *)

BoundDirectory == {Append(d, Slash) : d \in DirPath}

AnyAnswer == [kind : {"404", "none", "document", "listing"}, bytes : Seq(0..255),
              links : SUBSET [url : Seq(Piece), path : Path]]

\* Every variable has its type.
TypeOK ==
    /\ dirBindings \in [BindUrl -> BoundDirectory \union {None}]
    /\ fileBindings \in [BindUrl -> FilePath \union {None}]
    /\ latest \in [BindUrl -> Path \union {None}]
    /\ binds \in 0..MaxBinds \union {None}
    /\ fs \in [Path -> {Dir, None} \union Bytes]
    /\ \A p \in Path : fs[p] \in {None} \union IF p \in DirPath THEN {Dir} ELSE Holds[p]
    /\ pc \in {"idle", "notFound", "probeDir", "probeFile", "dirCheck", "list",
               "fileCheck", "tryOpen", "open", "measure", "read", "done"}
    /\ url \in Url \union {None}
    /\ file \in Bytes \union {None}
    /\ linked \in BOOLEAN /\ torn \in BOOLEAN /\ refused \in BOOLEAN
    /\ size \in Nat
    /\ reply \in AnyAnswer \union {None}
    /\ possible \subseteq AnyAnswer
    /\ changes \in 0..MaxChanges

\* A URL is answered from what it was last bound to with success, whatever it
\* was bound to before and whatever was refused since.
LatestBindingServes ==
    \A u \in BindUrl : latest[u] # None => Lookup(u).path = latest[u]

\* Although the file system is asked up to six times, the answer is the one a
\* lookup in a single step would have given at some moment of the request:
\* replaced, removed and growing files are served as they were at one time,
\* and a page 404 means that there was a moment without a document. There are
\* three exceptions: a file overwritten in place between tellg and read; a
\* directory removed before it is read, whose request is never answered; and a
\* system call that fails on what is there. That costs the request its answer,
\* or a file its document: the page 404 is a lie then. It never turns a
\* directory into a page 404, and never makes half a document.
AnswersWereTrue ==
    pc = "done" =>
        \/ reply \in possible
        \/ torn
        \/ reply = NoReply /\ (refused \/ ErrorPage \in possible)
        \/ reply = ErrorPage /\ refused /\ path \in FilePath

\* No bound directory stands at a beginning of another's URL.
NotNested ==
    \A u \in BindUrl : dirBindings[u] # None => BoundAbove(u) = {u}

\* The links of a listing lead to the entries they name, unless they are bound
\* themselves or bound directories are nested: then the shortest URL wins.
LinksLead ==
    pc = "done" /\ NotNested =>
        \A l \in reply.links :
            \/ l.url \in BindUrl /\ latest[l.url] # None
            \/ Lookup(l.url).path = l.path
=============================================================================
