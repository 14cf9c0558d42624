---------------------------- MODULE ExtensionScan ----------------------------
(***************************************************************************)
(* registry/scanner.py: the walk over the extension roots.  A directory's  *)
(* entries come in the arbitrary order of os.scandir(), and symbolic links *)
(* may close cycles, lead out of the root or name a file twice.  A node of *)
(* the disk is a real directory or file; IdOf is the module id its real    *)
(* path gives, which two files can share (a/b.py and a.b.py).              *)
(***************************************************************************)
EXTENDS Naturals, Sequences, FiniteSets, SequencesExt

CONSTANTS Disks,     \* possible trees: [entries, roots, inside]
          IdOf,      \* id of a file's real path below the root
          MaxDepth   \* extensions.max_depth

VARIABLES
  disk,      \* the tree: entries of each readable directory, roots, what lies inside each root
  links,     \* extensions.follow_symlinks
  root,      \* index of the root being walked
  stack,     \* the calls of _scan_dir in progress: directory, depth, entries left
  visited,   \* visited_real_paths of this root
  found      \* modules found: file, root (its namespace), id, directory of its metadata file

scanVars == <<disk, links, root, stack, visited, found>>

\* An entry: kind "dir", "file" or "other" of what it leads to, whether it is a
\* link, whether its name is skipped (hidden, ignored, not a .py file).
EntriesOf(tree, dir) == IF dir \in DOMAIN tree.entries THEN tree.entries[dir] ELSE {}
Entries(dir) == EntriesOf(disk, dir)

Frame(dir, depth) ==
  [dir |-> dir, depth |-> depth, left |-> IF depth > MaxDepth THEN {} ELSE Entries(dir)]

StartRoot(i) == /\ root' = i
                /\ stack' = <<Frame(disk.roots[i].dir, 1)>>
                /\ visited' = {disk.roots[i].dir}

DuplicateNamespace(roots) ==
  \E i, j \in DOMAIN roots : i # j /\ roots[i].namespace = roots[j].namespace

Init == /\ disk \in Disks /\ links \in BOOLEAN
        /\ root = 0 /\ stack = <<>> /\ visited = {} /\ found = {}

\* scan_multi_root() raises before the first walk when a namespace repeats.
NextRoot == /\ stack = <<>> /\ root < Len(disk.roots) /\ ~DuplicateNamespace(disk.roots)
            /\ StartRoot(root + 1)
            /\ UNCHANGED <<disk, links, found>>

Top == stack[Len(stack)]
Return == /\ stack # <<>> /\ Top.left = {}
          /\ stack' = Front(stack)
          /\ UNCHANGED <<disk, links, root, visited, found>>

SkippedUnlessFollowed(e) == e.skipped \/ (e.link /\ ~links)

Skipped(e) == e.skipped \/ (e.link /\ (~links \/ e.to \notin disk.inside[root]))

Taken(e) == [stack EXCEPT ![Len(stack)].left = @ \ {e}]

\* A link to a directory is followed once; a directory itself always.
VisitDir(e) ==
  /\ ~Skipped(e) /\ e.kind = "dir"
  /\ IF e.link /\ e.to \in visited
     THEN stack' = Taken(e) /\ UNCHANGED visited
     ELSE /\ stack' = Append(Taken(e), Frame(e.to, Top.depth + 1))
          /\ visited' = IF e.link THEN visited \cup {e.to} ELSE visited
  /\ UNCHANGED found

VisitFileAgain(e) ==
  /\ ~Skipped(e) /\ e.kind = "file"
  /\ stack' = Taken(e)
  /\ visited' = visited \cup {e.to}
  /\ found' = found \cup {[file |-> e.to, root |-> root, id |-> IdOf[e.to], meta |-> Top.dir]}

\* The first of two files with one id wins.
VisitFile(e) ==
  /\ ~Skipped(e) /\ e.kind = "file"
  /\ stack' = Taken(e)
  /\ visited' = visited \cup {e.to}
  /\ found' = IF e.to \in visited \/ \E m \in found : m.root = root /\ m.id = IdOf[e.to]
              THEN found
              ELSE found \cup {[file |-> e.to, root |-> root, id |-> IdOf[e.to], meta |-> Top.dir]}

Visit(e) == \/ VisitDir(e)
            \/ VisitFile(e)
            \/ /\ Skipped(e) \/ e.kind = "other"
               /\ stack' = Taken(e) /\ UNCHANGED <<visited, found>>

Next == \/ NextRoot
        \/ Return
        \/ /\ stack # <<>>
           /\ \E e \in Top.left : Visit(e)
           /\ UNCHANGED <<disk, links, root>>

-----------------------------------------------------------------------------
Finished == stack = <<>> /\ (root = Len(disk.roots) \/ DuplicateNamespace(disk.roots))

\* What plain directories hold, down to a number of levels
Nodes(tree) == {tree.roots[i].dir : i \in DOMAIN tree.roots}
               \cup {e.to : e \in UNION {tree.entries[dir] : dir \in DOMAIN tree.entries}}

Plain(tree, dir, kind) ==
  {e.to : e \in {x \in EntriesOf(tree, dir) : ~x.skipped /\ ~x.link /\ x.kind = kind}}

LevelUp(tree, below) ==
  [dir \in Nodes(tree) |->
     Plain(tree, dir, "file") \cup UNION {below[d] : d \in Plain(tree, dir, "dir")}]

PlainBelow(tree) ==
  LET below[k \in 0..MaxDepth] == IF k = 0 THEN [dir \in Nodes(tree) |-> {}]
                                  ELSE LevelUp(tree, below[k - 1])
  IN below

PlainFiles(i) == PlainBelow(disk)[MaxDepth][disk.roots[i].dir]

(* Whatever order the directories are listed in and wherever links lead,    *)
(* the walk of each root gives an id and a file at most once, only files    *)
(* inside the root and, unless links are followed, on a plain path; and it   *)
(* misses no module that a plain path within the depth limit leads to,      *)
(* unless another file took its id.                                         *)
ScanIsSound ==
  /\ \A m, n \in found : m.root = n.root /\ (m.id = n.id \/ m.file = n.file) => m = n
  /\ \A m \in found : m.file \in disk.inside[m.root]
                      /\ (links \/ m.file \in PlainFiles(m.root))
  /\ Finished /\ ~DuplicateNamespace(disk.roots) =>
       \A i \in DOMAIN disk.roots : \A file \in PlainFiles(i) :
         \E m \in found : m.root = i /\ m.id = IdOf[file]
=============================================================================
