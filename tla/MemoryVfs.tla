------------------------------ MODULE MemoryVfs ------------------------------
(***************************************************************************)
(* MemoryFileSystem of tsgo-vfs/src/memory_fs.rs: a tree kept in one flat  *)
(* concurrent map (DashMap).  A file is stored under its whole path, a     *)
(* directory only ever under a single name.  Threads of the host write     *)
(* while the worker thread of a client lists directories for the child     *)
(* (the callbacks of tsgo-client/src/client.rs).                           *)
(*                                                                         *)
(* A path is the sequence of the segments between its slashes, so that     *)
(* "/a/./b" is <<"", a, ".", b>>, and a key of the map is the sequence of   *)
(* the names in it.  Contents are left out.  Each call on the map is one   *)
(* step; its iterator locks one shard at a time.                           *)
(***************************************************************************)
EXTENDS Integers, FiniteSets, SequencesExt

CONSTANTS
  Names,      \* names of files and directories
  RawPaths,   \* bound: paths given to normalize_path
  Initial,    \* bound: the sets of paths given to from_files
  Writable,   \* bound: paths given to add_file, write_file, add_directory
  Listed,     \* bound: paths given to getAccessibleEntries
  Writers,    \* threads that write
  MaxWrites,  \* bound: writes of all of them
  Shards      \* shards of the map

Segments == Names \cup {"", ".", ".."}

ASSUME VfsAssumption ==
  /\ Names \cap {"", ".", ".."} = {}
  /\ RawPaths \subseteq Seq(Segments) \ {<<>>}
  /\ (UNION Initial) \cup Writable \cup Listed \subseteq RawPaths
  /\ MaxWrites \in Nat /\ Shards \in Nat \ {0}

-----------------------------------------------------------------------------
(* Paths.                                                                  *)

\* Changed: the root is not its own parent.
PushKeepingParents(stack, segment) ==
  CASE segment \in {"", "."} -> stack
    [] segment = ".." /\ stack # <<>> -> Front(stack)
    [] OTHER -> Append(stack, segment)

\* The match in the loop of normalize_path.
Push(stack, segment) ==
  CASE segment \in {"", "."} -> stack
    [] segment = ".." -> IF stack = <<>> THEN <<>> ELSE Front(stack)
    [] OTHER -> Append(stack, segment)

\* normalize_path, and with it path_components and the key get_node looks up.
Normalize(path) ==
  LET stack[i \in 0 .. Len(path)] ==
        IF i = 0 THEN <<>> ELSE Push(stack[i - 1], path[i])
  IN stack[Len(path)]

\* The keys that writing these paths may put into the map.
Keys ==
  LET written == {Normalize(p) : p \in (UNION Initial) \cup Writable} IN
  (written \cup UNION {{<<k[i]>> : i \in DOMAIN k} : k \in written}) \ {<<>>}

VARIABLES
  root,      \* the map: "File" or "Directory" for the keys it holds
  shard,     \* the shard of each key, given by its hash
  pc, op,    \* what each writer is doing, and on which path
  writes,    \* writes so far
  listing,   \* get_accessible_entries, as the worker executes it
  before,    \* the map when the listing began
  added,     \* the files whose add_file has returned
  raced      \* files added while another writer was about to insert their name

writer == <<pc, op, writes, added, raced>>
reader == <<listing, before>>
vars == <<root, shard, writer, reader>>

-----------------------------------------------------------------------------
(* Lookups.  Each is one call of get on the map, and so atomic.            *)

NoNode == "None"
Get(m, key) ==
  IF key = <<>> THEN "Directory" ELSE IF key \in DOMAIN m THEN m[key] ELSE NoNode

FileExists(m, path) == Get(m, Normalize(path)) = "File"

DirectoryExists(m, path) ==
  path \in {<<"">>, <<"", "">>} \/ Get(m, Normalize(path)) = "Directory"

Below(m, dir) == {k \in DOMAIN m : IsStrictPrefix(dir, k)}
Child(dir, k) == k[Len(dir) + 1]

\* Changed: any key below the directory is taken for a file in it.
FilesOfAnyDepth(m, dir) ==
  {Child(dir, k) : k \in {j \in Below(m, dir) : m[j] = "File"}}

Files(m, dir) ==
  {Child(dir, k) : k \in {j \in Below(m, dir) :
                            Len(j) = Len(dir) + 1 /\ m[j] = "File"}}

\* Outside the root also what further names follow.
Directories(m, dir) ==
  {Child(dir, k) : k \in {j \in Below(m, dir) :
                            IF Len(j) = Len(dir) + 1 THEN m[j] = "Directory"
                            ELSE dir # <<>>}}

-----------------------------------------------------------------------------
(* Writing.                                                                *)

NoFile == <<>>
NoOp == [todo |-> <<>>, file |-> NoFile]

NoListing == [at |-> "idle", path |-> <<"">>, shard |-> 1,
              files |-> {}, directories |-> {}, found |-> FALSE]

\* from_files, in whatever order it takes the files.
FromFiles(files) ==
  [k \in files \cup UNION {{<<f[i]>> : i \in 1 .. Len(f) - 1} : f \in files} |->
     IF k \in files THEN "File" ELSE "Directory"]

Init ==
  /\ \E paths \in Initial :
       /\ added = {Normalize(p) : p \in paths} \ {NoFile}
       /\ root = FromFiles(added)
  /\ shard \in [Keys -> 1 .. Shards]
  /\ pc = [w \in Writers |-> "idle"] /\ op = [w \in Writers |-> NoOp]
  /\ writes = 0 /\ raced = {}
  /\ listing = NoListing /\ before = root

\* insert, which replaces the node of a key that is there.
Insert(m, key, node) ==
  [k \in DOMAIN m \cup {key} |-> IF k = key THEN node ELSE m[k]]

Begin(w, todo, file) ==
  /\ pc[w] = "idle" /\ writes < MaxWrites /\ writes' = writes + 1
  /\ IF todo = <<>> /\ file = NoFile
     THEN UNCHANGED <<pc, op>>
     ELSE /\ pc' = [pc EXCEPT ![w] = "ensuring"]
          /\ op' = [op EXCEPT ![w] = [todo |-> todo, file |-> file]]
  /\ UNCHANGED <<root, shard, added, raced, reader>>

\* Changed: the parents of a file begin below its top directory.
AddFileSkippingTop(w, path) ==
  LET key == Normalize(path) IN
  Begin(w, IF key = <<>> THEN <<>> ELSE Tail(key), key)

\* add_file, write_file; on the root directory they do nothing.
AddFile(w, path) ==
  LET key == Normalize(path) IN
  Begin(w, IF key = <<>> THEN <<>> ELSE Front(key), key)

AddDirectory(w, path) == Begin(w, Normalize(path), NoFile)

\* Changed: every directory is inserted, found or not.
EnsureBlindly(w) ==
  /\ pc[w] = "ensuring" /\ op[w].todo # <<>>
  /\ pc' = [pc EXCEPT ![w] = "inserting"] /\ UNCHANGED op
  /\ UNCHANGED <<root, shard, writes, added, raced, reader>>

\* ensure_directory_at_path: contains_key for the next name ...
Ensure(w) ==
  /\ pc[w] = "ensuring" /\ op[w].todo # <<>>
  /\ IF <<Head(op[w].todo)>> \in DOMAIN root
     THEN op' = [op EXCEPT ![w].todo = Tail(@)] /\ UNCHANGED pc
     ELSE pc' = [pc EXCEPT ![w] = "inserting"] /\ UNCHANGED op
  /\ UNCHANGED <<root, shard, writes, added, raced, reader>>

\* ... and, in a step of its own, insert.
InsertDirectory(w) ==
  /\ pc[w] = "inserting"
  /\ root' = Insert(root, <<Head(op[w].todo)>>, "Directory")
  /\ pc' = [pc EXCEPT ![w] = "ensuring"]
  /\ op' = [op EXCEPT ![w].todo = Tail(@)]
  /\ UNCHANGED <<shard, writes, added, raced, reader>>

\* Changed: the file is forgotten, but not that one was to be created.
CreateTwice(w) ==
  LET file == op[w].file IN
  /\ pc[w] = "ensuring" /\ op[w].todo = <<>>
  /\ root' = IF file = NoFile THEN root ELSE Insert(root, file, "File")
  /\ pc' = [pc EXCEPT ![w] = "idle"] /\ UNCHANGED op
  /\ added' = added \cup ({file} \ {NoFile})
  /\ UNCHANGED <<shard, writes, raced, reader>>

\* create_file_at_path, and the return.
Create(w) ==
  LET file == op[w].file IN
  /\ pc[w] = "ensuring" /\ op[w].todo = <<>>
  /\ root' = IF file = NoFile THEN root ELSE Insert(root, file, "File")
  /\ pc' = [pc EXCEPT ![w] = "idle"] /\ op' = [op EXCEPT ![w] = NoOp]
  /\ added' = added \cup ({file} \ {NoFile})
  /\ raced' = raced \cup {f \in {file} : \E v \in Writers :
                            pc[v] = "inserting" /\ <<Head(op[v].todo)>> = f}
  /\ UNCHANGED <<shard, writes, reader>>

-----------------------------------------------------------------------------
(* get_accessible_entries, called by the worker.                           *)

List(path) ==
  /\ listing.at \in {"idle", "done"}
  /\ listing' = [NoListing EXCEPT !.at = "files", !.path = path]
  /\ before' = root
  /\ UNCHANGED <<root, shard, writer>>

\* The second loop looks for explicit directories; the root has one loop only.
NextShard ==
  LET l == listing IN
  IF l.shard < Shards THEN [at |-> l.at, shard |-> l.shard + 1]
  ELSE IF l.at = "files" /\ Normalize(l.path) # <<>>
       THEN [at |-> "directories", shard |-> 1]
       ELSE [at |-> "checking", shard |-> 1]

\* One shard, under its lock.
Visit ==
  LET dir == Normalize(listing.path)
      here == [k \in {j \in DOMAIN root : shard[j] = listing.shard} |-> root[k]]
      explicit == {Child(dir, k) : k \in {j \in Below(here, dir) :
                     Len(j) = Len(dir) + 1 /\ here[j] = "Directory"}}
  IN
  /\ listing.at \in {"files", "directories"}
  /\ listing' = [listing EXCEPT
       !.at = NextShard.at, !.shard = NextShard.shard,
       !.files = IF listing.at = "files" THEN @ \cup Files(here, dir) ELSE @,
       !.directories = @ \cup IF listing.at = "files" THEN Directories(here, dir)
                              ELSE explicit]
  /\ UNCHANGED <<root, shard, before, writer>>

\* Changed: an empty directory is reported as missing.
AnswerEmpty ==
  /\ listing.at = "checking"
  /\ listing' = [listing EXCEPT
       !.at = "done", !.found = listing.files \cup listing.directories # {}]
  /\ UNCHANGED <<root, shard, before, writer>>

\* Nothing found: None, unless the directory itself is there.
Answer ==
  /\ listing.at = "checking"
  /\ listing' = [listing EXCEPT
       !.at = "done",
       !.found = \/ Normalize(listing.path) = <<>>
                 \/ listing.files \cup listing.directories # {}
                 \/ DirectoryExists(root, listing.path)]
  /\ UNCHANGED <<root, shard, before, writer>>

-----------------------------------------------------------------------------
Next ==
  \/ \E w \in Writers :
       \/ \E p \in Writable : AddFile(w, p) \/ AddDirectory(w, p)
       \/ Ensure(w) \/ InsertDirectory(w) \/ Create(w)
  \/ \E p \in Listed : List(p)
  \/ Visit \/ Answer

Spec == Init /\ [][Next]_vars

-----------------------------------------------------------------------------
(* Correctness.                                                            *)

\* Every variable has its type; directories are stored under single names.
TypeOK ==
  /\ DOMAIN root \subseteq Keys
  /\ \A k \in DOMAIN root : root[k] = "File" \/ (root[k] = "Directory" /\ Len(k) = 1)
  /\ shard \in [Keys -> 1 .. Shards]
  /\ pc \in [Writers -> {"idle", "ensuring", "inserting"}]
  /\ op \in [Writers -> [todo : Seq(Names), file : Seq(Names)]]
  /\ \A w \in Writers :
       /\ pc[w] = "idle" => op[w] = NoOp
       /\ pc[w] = "inserting" => op[w].todo # <<>>
  /\ writes \in 0 .. MaxWrites
  /\ listing \in [at : {"idle", "files", "directories", "checking", "done"},
                  path : Listed \cup {<<"">>}, shard : 1 .. Shards,
                  files : SUBSET Names, directories : SUBSET Names, found : BOOLEAN]
  /\ DOMAIN before \subseteq DOMAIN root
  /\ added \subseteq Keys /\ raced \subseteq Keys

\* A segment of a path names a file or directory on the way to its end unless
\* some later stretch goes up as often as it goes down.
OnTheWay(path, i) ==
  /\ path[i] \in Names
  /\ \A j \in i .. Len(path) :
       Cardinality({n \in i .. j : path[n] \in Names})
         > Cardinality({n \in i .. j : path[n] = ".."})

\* normalize_path yields the names on the way, and a path may be normalized in
\* pieces: realpath of a realpath, or of a path below one, is what it would be.
\* It depends on no variable, and TLC need not evaluate it in every state.
NormalForm ==
  Init => \A p \in RawPaths :
    /\ Normalize(p) = LET way == {i \in DOMAIN p : OnTheWay(p, i)} IN
                      [n \in 1 .. Cardinality(way) |->
                         p[CHOOSE i \in way :
                             Cardinality({j \in way : j <= i}) = n]]
    /\ \A i \in DOMAIN p :
         Normalize(Normalize(SubSeq(p, 1, i)) \o SubSeq(p, i + 1, Len(p)))
           = Normalize(p)

\* A file that has been added stays a file, unless its name was about to be
\* inserted as a directory of another writer's path.
FilesStay == \A k \in added \ raced : Get(root, k) = "File"

\* Every file can be found from the root, also while it is being added: the
\* first name of its path is listed there.
Discoverable ==
  \A k \in DOMAIN root :
    Child(<<>>, k) \in Files(root, <<>>) \cup Directories(root, <<>>)

\* What the directories list is what the lookups find: a name is listed as a
\* file exactly if file_exists says so, and a directory that exists is listed.
ListedAsFound ==
  \A p \in Listed : \A n \in Names :
    /\ n \in Files(root, Normalize(p)) <=> FileExists(root, Append(p, n))
    /\ DirectoryExists(root, Append(p, n)) => n \in Directories(root, Normalize(p))

\* A listing that other threads write behind reports every name that was there
\* when it began, and below the root nothing that is not there when it ends;
\* None only of a directory without entries, missing or replaced by a file.
ListingBetween ==
  listing.at = "done" =>
    LET dir == Normalize(listing.path) IN
    /\ {Child(dir, k) : k \in Below(before, dir)}
         \subseteq listing.files \cup listing.directories
    /\ dir # <<>> =>
         /\ Files(before, dir) \subseteq listing.files
         /\ listing.files \subseteq Files(root, dir)
         /\ Directories(before, dir) \subseteq listing.directories
         /\ listing.directories \subseteq Directories(root, dir)
    /\ DirectoryExists(before, listing.path) => listing.found \/ dir \in added

\* All parent directories exist of a file that has been added.
ParentsExist ==
  \A k \in added : \A i \in 1 .. Len(k) - 1 :
    DirectoryExists(root, <<"">> \o SubSeq(k, 1, i))
=============================================================================
