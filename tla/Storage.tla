------------------------------ MODULE Storage ------------------------------
(***************************************************************************)
(* The file system as the commands of the shell use it (littlefs, through  *)
(* the fs_ functions of misc/io.h).  A tree maps each path, a sequence of  *)
(* names, to a directory or to a file: blocks of data and the attribute    *)
(* that marks an executable.  What is written to a file becomes its        *)
(* content when the file is closed.                                        *)
(***************************************************************************)
EXTENDS Integers, Sequences, FiniteSets, SequencesExt

Root == <<>>
Directory == [dir |-> TRUE, data |-> <<>>, exe |-> FALSE]
Regular(data, exe) == [dir |-> FALSE, data |-> data, exe |-> exe]
EmptyTree == [p \in {Root} |-> Directory]

Exists(t, p) == p \in DOMAIN t
IsDir(t, p) == Exists(t, p) /\ t[p].dir
IsFile(t, p) == Exists(t, p) /\ ~t[p].dir

Under(p, q) == IsPrefix(p, q)
Children(t, p) == {q \in DOMAIN t \ {Root} : Front(q) = p}
HasPlace(t, p) == p # Root /\ IsDir(t, Front(p))

\* Content is blocks; one that says it is the header of an archive's entry has a name and says how many blocks
\* follow, one that is a source how many outside functions it calls.
IsSequence(s) == s \in Seq(ToSet(s))
IsHeader(b) == "name" \in DOMAIN b
IsSource(b) == "good" \in DOMAIN b
IsBlock(b) == /\ IsHeader(b) => b.size \in Nat /\ IsSequence(b.name) /\ b.name # <<>>
              /\ IsSource(b) => b.relocs \in Nat
IsContent(data) == IsSequence(data) /\ \A k \in 1 .. Len(data) : IsBlock(data[k])
IsNode(n) == /\ n = [dir |-> n.dir, data |-> n.data, exe |-> n.exe]
             /\ n.dir \in BOOLEAN /\ n.exe \in BOOLEAN /\ IsContent(n.data)

\* A tree has the root, and every path in it leads through directories.
WellFormed(t) ==
  /\ IsDir(t, Root)
  /\ \A p \in DOMAIN t : IsNode(t[p]) /\ IsSequence(p) /\ \A k \in 0 .. Len(p) - 1 : IsDir(t, SubSeq(p, 1, k))

\* A file opened to be written: created when there is none.
CanCreate(t, p) == HasPlace(t, p) /\ ~IsDir(t, p)
With(t, p, node) == [q \in DOMAIN t \cup {p} |-> IF q = p THEN node ELSE t[q]]
Created(t, p) == IF Exists(t, p) THEN t ELSE With(t, p, Regular(<<>>, FALSE))
Stored(t, p, data) == IF IsFile(t, p) THEN [t EXCEPT ![p].data = data] ELSE t
Marked(t, p) == IF IsFile(t, p) THEN [t EXCEPT ![p].exe = TRUE] ELSE t

CanMkdir(t, p) == HasPlace(t, p) /\ ~Exists(t, p)
Mkdir(t, p) == With(t, p, Directory)

CanRemove(t, p) == p # Root /\ Exists(t, p) /\ Children(t, p) = {}
Without(t, P) == [q \in DOMAIN t \ P |-> t[q]]

\* A file replaces a file, a directory an empty directory, and none goes into itself.
CanRename(t, from, to) ==
  /\ from # Root /\ Exists(t, from) /\ HasPlace(t, to)
  /\ Under(from, to) => from = to
  /\ Exists(t, to) /\ from # to => t[from].dir = t[to].dir /\ Children(t, to) = {}
Renamed(t, from, to) ==
  LET moved == {q \in DOMAIN t : Under(from, q)}
      Old(q) == from \o SubSeq(q, Len(to) + 1, Len(q))
      new == {to \o SubSeq(q, Len(from) + 1, Len(q)) : q \in moved}
  IN [q \in (DOMAIN t \ moved) \cup new |-> IF q \in new THEN t[Old(q)] ELSE t[q]]
=============================================================================
