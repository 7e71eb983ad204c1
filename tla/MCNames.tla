------------------------------ MODULE MCNames -------------------------------
(***************************************************************************)
(* Small instances of Names for TLC: one process makes, links and removes  *)
(* files, the other makes, enters and removes directories.  A path is the  *)
(* same file or another one according to where the process stands.         *)
(***************************************************************************)
EXTENDS Names, TLC

CONSTANTS a, b, p1, p2

DownPaths == {<<a>>, <<a, b>>}
UpPaths == {<<a>>, <<"..", a>>}
MCCalls ==
    p1 :> {"open", "create", "link", "unlink"} @@ p2 :> {"mkdir", "unlink", "chdir"}

\* History: how many entries for an inode went with a directory that was freed.
\* A process that had reached a directory by namex() makes entries in it also
\* after another has removed it.
VARIABLE lost

WentWith(i) ==
    {dn \in Inum \X Name : /\ dinode[dn[1]].dir[dn[2]] = i
                          /\ dinode'[dn[1]].type = "free"}

MCInit == Init /\ lost = [i \in Inum |-> 0]
MCNext == Next /\ lost' = [i \in Inum |-> lost[i] + Cardinality(WentWith(i))]
MCSpec == MCInit /\ [][MCNext]_<<vars, lost>>

\* nlink is the number of entries that lead to an inode, those that link() is
\* about to write and those that went with their directory included: no inode
\* is freed while an entry leads to it, and a link() that fails takes its
\* nlink++ back.
LinksExact == \A i \in Inum : dinode[i].nlink = Links(i) + lost[i]

\* The table of inodes is coherent with the disk, and nobody comes to lock an
\* inode that is not allocated, panic("ilock: no type").
TableCoherent == InodeCoherent /\ NoIlockPanic

=============================================================================
