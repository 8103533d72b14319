------------------------------ MODULE MCPshell ------------------------------
EXTENDS Pshell

Abs(names) == [abs |-> TRUE, up |-> FALSE, names |-> names]
Rel(names) == [abs |-> FALSE, up |-> FALSE, names |-> names]
Parent(names) == [abs |-> FALSE, up |-> TRUE, names |-> names]
L(op, flag, args) == [op |-> op, flag |-> flag, args |-> args]

X == [text |-> "x"]
Y == [text |-> "y"]
A == <<"a">>
B == <<"b">>
D == <<"d">>
DB == <<"d", "b">>
DE == <<"d", "e">>
DEA == <<"d", "e", "a">>
T == <<"t">>

\* A file of two blocks, and a directory with an executable and a directory.
Tree == (Root :> Directory) @@ (A :> Regular(<<X, Y>>, FALSE)) @@ (D :> Directory)
        @@ (DB :> Regular(<<Y>>, TRUE)) @@ (DE :> Directory) @@ (DEA :> Regular(<<X>>, FALSE))

FileLines == {
  L("cp", "", <<Rel(A), Rel(D)>>), L("cp", "", <<Rel(DB), Rel(A)>>), L("cp", "", <<Rel(A), Rel(A)>>),
  L("cp", "", <<Parent(A), Rel(B)>>), L("cp", "", <<Rel(D), Rel(B)>>),
  L("mv", "", <<Rel(A), Rel(D)>>), L("mv", "", <<Rel(DE), Rel(A)>>), L("mv", "", <<Rel(D), Rel(<<"x">>)>>),
  L("mkdir", "", <<Rel(B)>>), L("rm", "", <<Rel(A)>>), L("rm", "", <<Rel(DE)>>), L("rm", "-r", <<Rel(D)>>),
  L("rm", "-r", <<Abs(Root)>>), L("rm", "-r", <<Parent(D)>>),
  L("cd", "", <<>>), L("cd", "", <<Rel(D)>>), L("cd", "", <<Parent(<<>>)>>), L("cd", "", <<Parent(D)>>),
  L("cd", "", <<Rel(<<"e">>)>>), L("unmount", "", <<>>)}

BootLines == {
  L("mount", "", <<>>), L("unmount", "", <<>>), L("format", "Y", <<>>), L("format", "", <<>>),
  L("quit", "Y", <<>>), L("quit", "n", <<>>), L("reboot", "", <<>>), L("cp", "", <<Rel(A), Rel(B)>>),
  L("mkdir", "", <<Rel(B)>>), L("cd", "", <<Rel(B)>>), L("rm", "", <<Rel(B)>>)}

TarLines == {
  L("tar", "c", <<Rel(T), Rel(D)>>), L("tar", "c", <<Rel(T), Rel(A), Rel(<<"z">>)>>),
  L("tar", "c", <<Rel(<<"d", "t">>), Rel(D)>>), L("tar", "c", <<Rel(T), Abs(Root)>>), L("tar", "c", <<Rel(T), Rel(DB)>>),
  L("tar", "x", <<Rel(T)>>), L("tar", "x", <<Parent(T)>>), L("tar", "t", <<Rel(T)>>), L("tar", "x", <<Rel(<<"d", "t">>)>>),
  L("cd", "", <<Rel(DE)>>), L("cd", "", <<Rel(D)>>)}

\* An archive made elsewhere, with an entry for a directory.
H == <<"h">>
Foreign == Tree @@ (H :> Regular(<<FolderHeader(<<"n">>), Header(<<"n", "b">>, 2, TRUE), Y, X, Zero, Zero>>, FALSE))
ForeignLines == {L("tar", "x", <<Rel(H)>>), L("tar", "t", <<Rel(H)>>), L("tar", "x", <<Rel(A)>>), L("tar", "x", <<Parent(H)>>),
  L("cp", "", <<Rel(H), Rel(A)>>), L("cd", "", <<Rel(D)>>), L("mv", "", <<Abs(A), Abs(<<"n">>)>>)}

P == <<"p">>
Q == <<"q">>
Plain == Source(TRUE, TRUE, 0)
Calling == Source(TRUE, TRUE, 2)
CcTree == (Root :> Directory) @@ (P :> Regular(<<Plain>>, FALSE)) @@ (<<"c">> :> Regular(<<Calling>>, FALSE))
          @@ (<<"m">> :> Regular(<<Source(TRUE, FALSE, 0)>>, FALSE)) @@ (A :> Regular(<<X>>, FALSE))
          @@ (<<"bin">> :> Directory) @@ (<<"bin", "r">> :> Regular(Image(Calling), TRUE))
CcLines == {
  L("cc", "", <<Rel(P)>>), L("cc", "", <<Rel(A)>>), L("cc", "", <<Rel(<<"m">>)>>),
  L("cc", "", <<Rel(P), Rel(Q)>>), L("cc", "", <<Rel(<<"c">>), Rel(Q)>>), L("cc", "", <<Rel(P), Rel(<<"bin">>)>>),
  L("run", "", <<Rel(Q)>>), L("run", "", <<Rel(<<"r">>)>>), L("run", "", <<Abs(<<"r">>)>>),
  L("cp", "", <<Rel(A), Rel(Q)>>), L("cp", "", <<Abs(<<"bin", "r">>), Rel(Q)>>), L("unmount", "", <<>>)}

\* What one command leaves to the next ones: fewer lines, three of them.
ChainLines == {
  L("cd", "", <<Rel(DE)>>),
  L("cd", "", <<Rel(D)>>), L("cd", "", <<Parent(D)>>), L("cd", "", <<Parent(<<>>)>>), L("rm", "-r", <<Abs(D)>>),
  L("mv", "", <<Abs(D), Abs(<<"x">>)>>), L("cp", "", <<Abs(DB), Parent(A)>>), L("cd", "", <<>>)}
BackupLines == {
  L("tar", "c", <<Rel(T), Rel(A), Rel(D)>>), L("tar", "x", <<Rel(T)>>), L("tar", "x", <<Parent(T)>>),
  L("rm", "-r", <<Rel(D)>>), L("cp", "", <<Rel(DB), Rel(A)>>), L("mkdir", "", <<Rel(B)>>), L("cd", "", <<Rel(B)>>)}
BuildLines == {
  L("cc", "", <<Rel(P), Rel(Q)>>), L("run", "", <<Rel(Q)>>), L("cp", "", <<Rel(A), Rel(Q)>>),
  L("cp", "", <<Rel(Q), Rel(A)>>), L("run", "", <<Rel(A)>>)}

\* An archive of an executable, to be cut short by a failed copy.
Binary == (Root :> Directory) @@ (T :> Regular(<<Header(Q, 3, TRUE)>> \o Image(Plain) \o <<Zero, Zero>>, FALSE))
BinaryLines == {L("cp", "", <<Rel(T), Rel(B)>>), L("tar", "x", <<Rel(B)>>), L("run", "", <<Rel(Q)>>), L("run", "", <<Rel(B)>>)}

Scene(t, n, l) == [sound |-> TRUE, tree |-> t, commands |-> n, lines |-> l]
MCScenes == [files |-> Scene(Tree, 2, FileLines), chain |-> Scene(Tree, 4, ChainLines),
             tar |-> Scene(Tree, 2, TarLines), backup |-> Scene(Tree, 3, BackupLines),
             foreign |-> Scene(Foreign, 3, ForeignLines), binary |-> Scene(Binary, 3, BinaryLines),
             cc |-> Scene(CcTree, 2, CcLines), build |-> Scene(CcTree, 4, BuildLines),
             boot |-> [sound |-> FALSE, tree |-> EmptyTree, commands |-> 3, lines |-> BootLines]]
=============================================================================
