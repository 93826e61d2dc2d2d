------------------------------- MODULE RealVfs -------------------------------
(***************************************************************************)
(* RealFileSystem of tsgo-vfs/src/real_fs.rs.  It keeps nothing but its    *)
(* base directory: its state is the file system of the operating system,   *)
(* which other processes change too.  An operation is several calls of the *)
(* system, each a step.  The worker thread of the client executes the      *)
(* callbacks read_file and get_accessible_entries, while threads of the    *)
(* user call write_file.                                                   *)
(*                                                                         *)
(* The system (external) is a sequence of nodes: files, directories and    *)
(* symbolic links.  Contents are blocks marked with the write they are of; *)
(* a path is a sequence of names, without "..", and links are absolute.    *)
(***************************************************************************)
EXTENDS Integers, Sequences, FiniteSets, SequencesExt

CONSTANTS
  Names,                       \* names of directory entries
  Base,                        \* base_dir
  Initial,                     \* the nodes at the start; the first is the root
  Readable, Listed, Writable,  \* [absolute, names] of the paths asked for
  Targets,                     \* where a new link may lead
  Writers,                     \* threads that call write_file
  MaxWrites, MaxChanges,       \* bounds: calls of write_file, foreign changes
  MaxBlocks,                   \* bound: blocks of one content
  MaxLinks                     \* links the system follows before it gives up

VARIABLES
  nodes,    \* the file system
  callback, \* what the worker is doing
  answer,   \* what its last callback returned
  writing,  \* writing[w]: the write_file of w
  writes, changes,
  mixed,    \* history: files left by a write that failed or had company
  seen      \* history: what happened during the worker's callback

vars == <<nodes, callback, answer, writing, writes, changes, mixed, seen>>

Root == 1
File(data) == [kind |-> "File", data |-> data]
Dir(entries) == [kind |-> "Dir", entries |-> entries]
Link(to) == [kind |-> "Link", to |-> to]

NoEntry == 0
EmptyDir == Dir([x \in Names |-> NoEntry])
Hole == [of |-> 0, last |-> FALSE]
Content(w, len) == [i \in 1 .. len |-> [of |-> w, last |-> i = len]]
Contents == {Content(w, l) : w \in 0 .. MaxWrites, l \in 1 .. MaxBlocks}
Whole(data) == data \in Contents

Block == [of : 0 .. MaxWrites, last : BOOLEAN]
Node == [kind : {"File"}, data : Seq(Block)]
          \cup [kind : {"Dir"}, entries : [Names -> Nat]]
          \cup [kind : {"Link"}, to : Seq(Names)]

\* Every entry is of a node, and every node has one entry at most.
Tree(m) ==
  \A d \in DOMAIN m : m[d].kind = "Dir" => \A x \in Names :
    /\ m[d].entries[x] \in {NoEntry} \cup DOMAIN m
    /\ m[d].entries[x] # NoEntry =>
         \A e \in DOMAIN m : m[e].kind = "Dir" => \A y \in Names :
           m[e].entries[y] = m[d].entries[x] => e = d /\ y = x

Paths == [absolute : BOOLEAN, names : Seq(Names)]

ASSUME RealVfsAssumption ==
  /\ MaxWrites \in Nat /\ MaxChanges \in Nat /\ MaxLinks \in Nat
  /\ MaxBlocks \in Nat \ {0}
  /\ Base \in Seq(Names) /\ Targets \subseteq Seq(Names)
  /\ Readable \cup Listed \cup Writable \subseteq Paths
  /\ Initial \in Seq(Node) \ {<<>>} /\ Tree(Initial) /\ Initial[1].kind = "Dir"
  /\ \A i \in DOMAIN Initial : Initial[i].kind = "File" => Whole(Initial[i].data)

Idle == [op |-> "idle"]
None == [kind |-> "None"]
Err == [kind |-> "Err"]

\* The node that the rest of a path leads to from a node, or the error with the
\* names that were not found.
Walk[a \in [at : DOMAIN nodes, rest : Seq(Names), links : 0 .. MaxLinks]] ==
  IF a.rest = <<>> THEN [error |-> "", node |-> a.at]
  ELSE IF nodes[a.at].kind # "Dir" THEN [error |-> "NotADirectory", rest |-> a.rest]
  ELSE LET n == nodes[a.at].entries[Head(a.rest)] IN
    IF n = NoEntry THEN [error |-> "NotFound", dir |-> a.at, rest |-> a.rest]
    ELSE IF nodes[n].kind # "Link"
    THEN Walk[[at |-> n, rest |-> Tail(a.rest), links |-> a.links]]
    ELSE IF a.links = 0 THEN [error |-> "FilesystemLoop", rest |-> a.rest]
    ELSE Walk[[at |-> Root, rest |-> nodes[n].to \o Tail(a.rest), links |-> a.links - 1]]

Lookup(path) == Walk[[at |-> Root, rest |-> path, links |-> MaxLinks]]

Leads(path, kind) ==
  LET f == Lookup(path) IN f.error = "" /\ nodes[f.node].kind = kind

\* The nodes with a new one under the name x of the directory d.
Enter(d, x, node) ==
  Append([nodes EXCEPT ![d].entries[x] = Len(nodes) + 1], node)

-----------------------------------------------------------------------------
(* resolve_path, and the lookups, which are one call of the system each.   *)

ResolvePath(p) == IF p.absolute THEN p.names ELSE Base \o p.names

FileExists(p) == Leads(ResolvePath(p), "File")
DirectoryExists(p) == Leads(ResolvePath(p), "Dir")

-----------------------------------------------------------------------------
(* The callbacks.                                                          *)

Unchanged == UNCHANGED <<nodes, writing, writes, changes, mixed>>

Answer(r) == callback' = Idle /\ answer' = r

OpenNodes == {writing[w].node : w \in {v \in Writers : writing[v].op = "write"}}

\* read_to_string opens the file ...
ReadOpen ==
  /\ callback = Idle
  /\ \E p \in Readable :
       LET f == Lookup(ResolvePath(p)) IN
       \/ f.error = "NotFound" /\ Answer(None)
       \/ (f.error \notin {"", "NotFound"} \/ DirectoryExists(p)) /\ Answer(Err)
       \/ /\ FileExists(p)
          /\ callback' = [op |-> "read", node |-> f.node, got |-> <<>>]
          /\ answer' = None
  /\ Unchanged

\* ... and reads until there is no more.
ReadBlock ==
  /\ callback.op = "read"
  /\ LET data == nodes[callback.node].data
         next == Len(callback.got) + 1 IN
     IF next \in DOMAIN data
     THEN callback' = [callback EXCEPT !.got = Append(@, data[next])]
          /\ UNCHANGED answer
     ELSE Answer([kind |-> "Some", data |-> callback.got])
  /\ Unchanged

ListOpen ==
  /\ callback = Idle
  /\ \E p \in Listed :
       LET f == Lookup(ResolvePath(p)) IN
       \/ f.error = "NotFound" /\ Answer(None)
       \/ (f.error \notin {"", "NotFound"} \/ FileExists(p)) /\ Answer(Err)
       \/ /\ DirectoryExists(p)
          /\ callback' = [op |-> "list", path |-> ResolvePath(p),
                          node |-> f.node, left |-> Names,
                          files |-> {}, directories |-> {}]
          /\ answer' = None
  /\ Unchanged

KindAt(n) ==
  LET i == nodes[callback.node].entries[n] IN
  IF i = NoEntry THEN "None" ELSE nodes[i].kind

\* Changed: what is no file is taken for a directory.
EntryKindOrDir(n) == IF KindAt(n) = "Link" THEN "Dir" ELSE KindAt(n)

\* DirEntry::file_type, which does not follow links.
EntryKind(n) == KindAt(n)

\* The system returns the entries one by one, each at most once.
ListEntry ==
  /\ callback.op = "list"
  /\ \E n \in callback.left :
       callback' = [callback EXCEPT !.left = @ \ {n},
         !.files = @ \cup {x \in {n} : EntryKind(x) = "File"},
         !.directories = @ \cup {x \in {n} : EntryKind(x) = "Dir"}]
  /\ UNCHANGED answer /\ Unchanged

ListDone ==
  /\ callback.op = "list" /\ callback.left = {}
  /\ Answer([kind |-> "Entries", files |-> callback.files,
             directories |-> callback.directories])
  /\ Unchanged

\* Any other error of the system.
CallbackFails == callback # Idle /\ Answer(Err) /\ Unchanged

-----------------------------------------------------------------------------
(* write_file: create_dir_all, then write, which creates or truncates the  *)
(* file and writes the blocks.                                             *)

Update(w, entry) == writing' = [writing EXCEPT ![w] = entry]

WriteFile(w) ==
  /\ writing[w] = Idle /\ writes < MaxWrites
  /\ writes' = writes + 1
  /\ \E p \in Writable, l \in 1 .. MaxBlocks :
       Update(w, [op |-> "dirs", path |-> ResolvePath(p), made |-> 0, node |-> 0,
                  data |-> Content(writes + 1, l), pos |-> 0, since |-> changes])
  /\ UNCHANGED <<nodes, callback, answer, changes, mixed>>

\* Changed: a directory that exists is an error.
MadeNew(dir, missing) == missing

Made(dir, missing) == missing \/ Leads(dir, "Dir")

\* mkdir of the next directory on the path to the file.
CreateDir(w) ==
  LET c == writing[w]
      dir == SubSeq(c.path, 1, c.made + 1)
      parent == Lookup(Front(dir))
      missing == /\ Leads(Front(dir), "Dir")
                 /\ nodes[parent.node].entries[Last(dir)] = NoEntry
  IN
  /\ c.op = "dirs" /\ c.made < Len(c.path) - 1
  /\ IF missing
     THEN nodes' = Enter(parent.node, Last(dir), EmptyDir)
     ELSE UNCHANGED nodes
  /\ Update(w, IF Made(dir, missing) THEN [c EXCEPT !.made = @ + 1] ELSE Idle)
  /\ UNCHANGED <<callback, answer, writes, changes, mixed>>

\* Changed: the handle is not kept.
OpenedUnkept(w, i) ==
  /\ Update(w, [writing[w] EXCEPT !.op = "write"]) /\ UNCHANGED mixed

Opened(w, i) ==
  /\ Update(w, [writing[w] EXCEPT !.op = "write", !.node = i])
  /\ mixed' = IF i \in OpenNodes THEN mixed \cup {i} ELSE mixed \ {i}

\* Changed: the file is opened without truncation.
Kept(data) == data

Truncated(data) == <<>>

Create(w) ==
  LET c == writing[w] f == Lookup(c.path) IN
  /\ c.op = "dirs" /\ c.made >= Len(c.path) - 1
  /\ IF Leads(c.path, "File")
     THEN nodes' = [nodes EXCEPT ![f.node].data = Truncated(@)] /\ Opened(w, f.node)
     ELSE IF f.error = "NotFound" /\ Len(f.rest) = 1
     THEN nodes' = Enter(f.dir, f.rest[1], File(<<>>)) /\ Opened(w, Len(nodes) + 1)
     ELSE Update(w, Idle) /\ UNCHANGED <<nodes, mixed>>
  /\ UNCHANGED <<callback, answer, writes, changes>>

\* The next block goes to its own offset, wherever the file ends by now.
WriteBlock(w) ==
  LET c == writing[w]
      old == nodes[c.node].data
      at == c.pos + 1
  IN
  /\ c.op = "write" /\ c.pos < Len(c.data)
  /\ nodes' = [nodes EXCEPT ![c.node].data =
       [i \in 1 .. Max({at, Len(old)}) |->
          IF i = at THEN c.data[at] ELSE IF i \in DOMAIN old THEN old[i] ELSE Hole]]
  /\ Update(w, [c EXCEPT !.pos = at])
  /\ UNCHANGED <<callback, answer, writes, changes, mixed>>

Written(w) ==
  /\ writing[w].op = "write" /\ writing[w].pos = Len(writing[w].data)
  /\ Update(w, Idle)
  /\ UNCHANGED <<nodes, callback, answer, writes, changes, mixed>>

\* The disk is full: what has been written stays.
WriteFails(w) ==
  /\ writing[w].op = "write" /\ Update(w, Idle)
  /\ mixed' = mixed \cup {writing[w].node}
  /\ UNCHANGED <<nodes, callback, answer, writes, changes>>

-----------------------------------------------------------------------------
(* Other processes (external): an entry is removed, or becomes a link.     *)

Removable(i) ==
  nodes[i].kind = "Dir" => \A x \in Names : nodes[i].entries[x] = NoEntry

Foreign ==
  /\ changes < MaxChanges /\ changes' = changes + 1
  /\ \E d \in DOMAIN nodes, x \in Names :
       /\ nodes[d].kind = "Dir"
       /\ LET i == nodes[d].entries[x] IN
          \/ /\ i # NoEntry /\ Removable(i)
             /\ nodes' = [nodes EXCEPT ![d].entries[x] = NoEntry]
          \/ /\ i = NoEntry
             /\ \E to \in Targets : nodes' = Enter(d, x, Link(to))
  /\ UNCHANGED <<callback, answer, writing, writes, mixed>>

-----------------------------------------------------------------------------
\* What the lookups find under the name n of the directory listed.
Found(n) ==
  LET path == Append(callback.path, n) IN
  IF Leads(path, "File") THEN "File" ELSE IF Leads(path, "Dir") THEN "Dir" ELSE "None"

\* What is true at the moment of a listing or a read: the path leads elsewhere,
\* an entry is a link, or is found to be something; the file is not whole.
Moment ==
  CASE callback.op = "list" ->
         (IF Lookup(callback.path) = [error |-> "", node |-> callback.node]
          THEN {} ELSE {<<"moved">>})
         \cup {<<n, Found(n)>> : n \in Names}
         \cup {<<n, "Link">> : n \in {m \in Names : KindAt(m) = "Link"}}
    [] callback.op = "read" ->
         IF callback.node \in OpenNodes \cup mixed THEN {<<"raced">>} ELSE {}
    [] callback.op = "idle" -> {}

History == seen' = IF callback' = Idle THEN seen
                   ELSE Moment' \cup (IF callback = Idle THEN {} ELSE seen)

Init ==
  /\ nodes = Initial /\ callback = Idle /\ answer = None
  /\ writing = [w \in Writers |-> Idle]
  /\ writes = 0 /\ changes = 0 /\ mixed = {} /\ seen = {}

Next ==
  /\ \/ ReadOpen \/ ReadBlock \/ ListOpen \/ ListEntry \/ ListDone \/ CallbackFails
     \/ \E w \in Writers : \/ WriteFile(w) \/ CreateDir(w) \/ Create(w)
                            \/ WriteBlock(w) \/ Written(w) \/ WriteFails(w)
     \/ Foreign
  /\ History

Spec == Init /\ [][Next]_vars

-----------------------------------------------------------------------------
(* Correctness.                                                            *)

\* The file system is a tree, and every handle is of a file or of a directory.
TypeOK ==
  /\ nodes \in Seq(Node) \ {<<>>} /\ Tree(nodes)
  /\ callback \in {Idle}
       \cup [op : {"read"}, node : DOMAIN nodes, got : Seq(Block)]
       \cup [op : {"list"}, path : Seq(Names), node : DOMAIN nodes, left : SUBSET Names,
             files : SUBSET Names, directories : SUBSET Names]
  /\ callback.op = "read" => nodes[callback.node].kind = "File"
  /\ callback.op = "list" => nodes[callback.node].kind = "Dir"
  /\ answer \in {None, Err}
       \cup [kind : {"Some"}, data : Seq(Block)]
       \cup [kind : {"Entries"}, files : SUBSET Names, directories : SUBSET Names]
  /\ writing \in [Writers -> {Idle}
       \cup [op : {"dirs", "write"}, path : Seq(Names), made : Nat,
             node : Nat, data : Contents, pos : Nat, since : 0 .. MaxChanges]]
  /\ \A i \in OpenNodes : i \in DOMAIN nodes /\ nodes[i].kind = "File"
  /\ mixed \subseteq DOMAIN nodes
  /\ writes \in 0 .. MaxWrites /\ changes \in 0 .. MaxChanges

\* A file at rest holds the content of one write_file from its first block to
\* its last, and a read returns such a content, unless two writes to the file
\* overlapped, the last one failed, or one overlapped the read.
WholeContents ==
  /\ \A i \in DOMAIN nodes \ (OpenNodes \cup mixed) :
       nodes[i].kind = "File" => Whole(nodes[i].data)
  /\ callback = Idle /\ answer.kind = "Some" /\ <<"raced">> \notin seen
       => Whole(answer.data)

\* A listing agrees with file_exists and directory_exists: what it lists they
\* find at some moment of the listing, and it lists whatever they find all the
\* time and is no link; unless the path listed led elsewhere meanwhile.
ListedAsFound ==
  callback = Idle /\ answer.kind = "Entries" /\ <<"moved">> \notin seen =>
    /\ \A n \in answer.files : <<n, "File">> \in seen
    /\ \A n \in answer.directories : <<n, "Dir">> \in seen
    /\ \A n \in Names : <<n, "None">> \notin seen /\ <<n, "Link">> \notin seen
         => n \in answer.files \cup answer.directories

\* The path is that of the root, or some name on it is taken by what cannot be
\* there.
Blocked(path) ==
  \/ path = <<>>
  \/ \E k \in 1 .. Len(path) :
       LET part == SubSeq(path, 1, k)
           dir  == Lookup(Front(part))
       IN /\ dir.error = "" /\ nodes[dir.node].kind = "Dir"
          /\ nodes[dir.node].entries[Last(part)] # NoEntry
          /\ ~Leads(part, IF k = Len(path) THEN "File" ELSE "Dir")

\* write_file reaches the write whatever other calls of write_file do, if
\* nothing on its path is in the way and no other process interferes.
FailsOnlyBlocked ==
  [][\A w \in Writers :
       /\ writing[w].op = "dirs" /\ writing'[w] = Idle
       /\ writing[w].since = changes
       => Blocked(writing[w].path)]_vars
=============================================================================
