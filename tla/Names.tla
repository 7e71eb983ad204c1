------------------------------- MODULE Names --------------------------------
(***************************************************************************)
(* The inode table and the directories: iget(), ilock(), iput(), namex(),  *)
(* create() and dirlink() of kernel/fs.c and kernel/sysfile.c under        *)
(* open(), mkdir(), link(), unlink(), chdir() and close() of several       *)
(* processes.                                                              *)
(*                                                                         *)
(* What a process does with a single inode between ilock() and iunlock()   *)
(* is one step; with a second inode lock to wait for it is several, and    *)
(* the iput()s that follow are steps of their own.  The contents of files  *)
(* and the transaction around each call are left to other modules.         *)
(***************************************************************************)
EXTENDS Integers, Sequences, FiniteSets

CONSTANTS
    Proc, Nobody,  \* the processes; owner of a free ip->lock
    NINODES,       \* inodes on disk; 1 is the root directory
    NINODE,        \* entries of the inode table, enough for all inodes
    Name,          \* names in a directory besides "." and ".."
    Paths,         \* the paths used: sequences over Name and ".."
    Calls          \* per process: the system calls it makes

ASSUME NamesAssumption ==
    /\ NINODES \in Nat \ {0} /\ NINODE >= NINODES
    /\ Nobody \notin Proc
    /\ \A path \in Paths : path # <<>> /\ Head(path) \in Name \cup {".."}

Inum == 1 .. NINODES
ROOTINO == 1
Slot == 1 .. NINODE
None == 0

VARIABLES
    dinode,          \* the inodes on disk and the contents of directories
    itable, lock,    \* struct inode, and who holds ip->lock
    cwd, file,       \* per process: current directory, an open file
    pc, op, path,    \* per process: where it is, its call, what is left to walk
    cur, ip,         \* its locals: namex()'s inode or dp, and the other inode
    todo             \* iput()s and iunlock()s still to do, in order

vars == <<dinode, itable, lock, cwd, file, pc, op, path, cur, ip, todo>>

Free == [type |-> "free", nlink |-> 0, dir |-> [n \in Name |-> None], dotdot |-> None]
Unused == [inum |-> None, ref |-> 0, valid |-> FALSE, type |-> "free", nlink |-> 0]

\* mkfs has made the root; the processes inherited it as current directory.
Init ==
    /\ dinode = [i \in Inum |-> IF i = ROOTINO
                    THEN [Free EXCEPT !.type = "dir", !.nlink = 1, !.dotdot = ROOTINO]
                    ELSE Free]
    /\ itable = [s \in Slot |-> IF s = 1
                    THEN [Unused EXCEPT !.inum = ROOTINO, !.ref = Cardinality(Proc)]
                    ELSE Unused]
    /\ lock = [s \in Slot |-> Nobody]
    /\ cwd = [p \in Proc |-> 1] /\ file = [p \in Proc |-> None]
    /\ pc = [p \in Proc |-> "idle"] /\ op = [p \in Proc |-> "none"]
    /\ path = [p \in Proc |-> <<>>]
    /\ cur = [p \in Proc |-> None] /\ ip = [p \in Proc |-> None]
    /\ todo = [p \in Proc |-> <<>>]

-----------------------------------------------------------------------------
(* iget(), idup(), ilock(), iupdate().                                     *)

Lowest(S) == CHOOSE s \in S : \A t \in S : s <= t

\* Where iget(i) finds or puts inode i, given the table tab.  There is room:
\* panic("iget: no inodes") is left out by NINODE >= NINODES.
SlotFor(tab, i) ==
    LET Known == {s \in Slot : tab[s].ref > 0 /\ tab[s].inum = i}
    IN Lowest(IF Known # {} THEN Known ELSE {s \in Slot : tab[s].ref = 0})

\* Mutant of Iget: an inode that is in the table gets no new reference.
IgetNoRef(tab, i) ==
    [tab EXCEPT ![SlotFor(tab, i)] =
        IF @.ref > 0 THEN @ ELSE [Unused EXCEPT !.inum = i, !.ref = 1]]

\* The table after iget(i).
Iget(tab, i) ==
    [tab EXCEPT ![SlotFor(tab, i)] =
        IF @.ref > 0 THEN [@ EXCEPT !.ref = @ + 1]
                     ELSE [Unused EXCEPT !.inum = i, !.ref = 1]]

Idup(tab, s) == [tab EXCEPT ![s].ref = @ + 1]

DiskOf(s) == dinode[itable[s].inum]

\* The table after ilock(ip) of slot s, which reads the inode if need be.
Ilock(s) ==
    [itable EXCEPT ![s] = IF @.valid THEN @
        ELSE [@ EXCEPT !.valid = TRUE, !.type = DiskOf(s).type,
                       !.nlink = DiskOf(s).nlink]]

\* p may ilock() s: it is free, and not a free inode (panic).
CanLock(s) == lock[s] = Nobody /\ Ilock(s)[s].type # "free"

At(p, l) == pc[p] = l /\ todo[p] = <<>>
Goto(p, l) == pc' = [pc EXCEPT ![p] = l]
Do(p, ops) == todo' = [todo EXCEPT ![p] = ops]

\* The call returns once the iput()s of ops are done.
Finish(p, ops) ==
    /\ Goto(p, "idle") /\ Do(p, ops)
    /\ op' = [op EXCEPT ![p] = "none"] /\ path' = [path EXCEPT ![p] = <<>>]
    /\ cur' = [cur EXCEPT ![p] = None] /\ ip' = [ip EXCEPT ![p] = None]

-----------------------------------------------------------------------------
(* iput() and the delayed iunlock()s.                                      *)

Head1(p, kind) == todo[p] # <<>> /\ Head(todo[p])[1] = kind
Target(p) == Head(todo[p])[2]

\* The last reference goes; an unused entry is forgotten.
Unrefd(s) ==
    IF itable[s].ref = 1 THEN [itable EXCEPT ![s] = Unused]
                         ELSE [itable EXCEPT ![s].ref = @ - 1]

\* Mutant of Frees: the other references are not looked at.
FreesAnyway(s) == itable[s].valid /\ itable[s].nlink = 0

\* iput()'s test under itable.lock.
Frees(s) == itable[s].ref = 1 /\ itable[s].valid /\ itable[s].nlink = 0

Put(p) ==
    /\ Head1(p, "put") /\ ~ Frees(Target(p))
    /\ itable' = Unrefd(Target(p))
    /\ Do(p, Tail(todo[p]))
    /\ UNCHANGED <<dinode, lock, cwd, file, pc, op, path, cur, ip>>

PutLast(p) ==
    /\ Head1(p, "put") /\ Frees(Target(p)) /\ lock[Target(p)] = Nobody
    /\ lock' = [lock EXCEPT ![Target(p)] = p]
    /\ Do(p, << <<"trunc", Target(p)>> >> \o Tail(todo[p]))
    /\ UNCHANGED <<dinode, itable, cwd, file, pc, op, path, cur, ip>>

\* Mutant of Truncated: ip->valid stays 1.
TruncatedValid(s) == [itable EXCEPT ![s].type = "free"]

Truncated(s) == [itable EXCEPT ![s].type = "free", ![s].valid = FALSE]

\* itrunc(), type = 0, iupdate(), valid = 0, releasesleep().
Trunc(p) ==
    /\ Head1(p, "trunc")
    /\ dinode' = [dinode EXCEPT ![itable[Target(p)].inum] = Free]
    /\ itable' = Truncated(Target(p))
    /\ lock' = [lock EXCEPT ![Target(p)] = Nobody]
    /\ Do(p, << <<"unref", Target(p)>> >> \o Tail(todo[p]))
    /\ UNCHANGED <<cwd, file, pc, op, path, cur, ip>>

Unref(p) ==
    /\ Head1(p, "unref")
    /\ itable' = Unrefd(Target(p))
    /\ Do(p, Tail(todo[p]))
    /\ UNCHANGED <<dinode, lock, cwd, file, pc, op, path, cur, ip>>

Unlock(p) ==
    /\ Head1(p, "unlock")
    /\ lock' = [lock EXCEPT ![Target(p)] = Nobody]
    /\ Do(p, Tail(todo[p]))
    /\ UNCHANGED <<dinode, itable, cwd, file, pc, op, path, cur, ip>>

-----------------------------------------------------------------------------
(* namex().                                                                *)

\* namex() starts with an iget() of the root or an idup() of cwd.
NamexStart(p) ==
    /\ Goto(p, "namex")
    /\ \/ /\ itable' = Iget(itable, ROOTINO)
          /\ cur' = [cur EXCEPT ![p] = SlotFor(itable, ROOTINO)]
       \/ /\ itable' = Idup(itable, cwd[p])
          /\ cur' = [cur EXCEPT ![p] = cwd[p]]

\* A system call with a path: begin_op(), and namex() starts.
Call(p, c, pth) ==
    /\ At(p, "idle")
    /\ NamexStart(p)
    /\ op' = [op EXCEPT ![p] = c] /\ path' = [path EXCEPT ![p] = pth]
    /\ UNCHANGED <<dinode, lock, cwd, file, ip, todo>>

\* The calls that use nameiparent().
ToParent == {"create", "mkdir", "unlink", "link_new"}

Entry(d, n) == IF n = ".." THEN d.dotdot ELSE d.dir[n]

\* p locks the directory that namex() has reached.
Walk(p) == At(p, "namex") /\ CanLock(cur[p])
Last(p) == Len(path[p]) = 1 /\ op[p] \in ToParent
Missing(p) ==
    \/ Ilock(cur[p])[cur[p]].type # "dir"
    \/ ~ Last(p) /\ Entry(DiskOf(cur[p]), Head(path[p])) = None

\* Not a directory, or no such entry: 0.  link() has an nlink++ to take back.
NamexFail(p) ==
    /\ Walk(p) /\ Missing(p)
    /\ itable' = Ilock(cur[p])
    /\ IF op[p] = "link_new"
         THEN /\ Goto(p, "link_bad") /\ Do(p, << <<"put", cur[p]>> >>)
              /\ cur' = [cur EXCEPT ![p] = None]
              /\ UNCHANGED <<op, path, ip>>
         ELSE Finish(p, << <<"put", cur[p]>> >>)
    /\ UNCHANGED <<dinode, lock, cwd, file>>

\* nameiparent() stops one level early.
NamexParent(p) ==
    /\ Walk(p) /\ Last(p) /\ ~ Missing(p)
    /\ itable' = Ilock(cur[p])
    /\ Goto(p, op[p])
    /\ UNCHANGED <<dinode, lock, cwd, file, op, path, cur, ip, todo>>

\* dirlookup() of the next element, iunlockput() of the directory.
NamexNext(p) ==
    /\ Walk(p) /\ ~ Last(p) /\ ~ Missing(p)
    /\ LET tab == Ilock(cur[p])
           i == Entry(DiskOf(cur[p]), Head(path[p]))
       IN /\ itable' = Iget(tab, i)
          /\ cur' = [cur EXCEPT ![p] = SlotFor(tab, i)]
    /\ Do(p, << <<"put", cur[p]>> >>)
    /\ path' = [path EXCEPT ![p] = Tail(@)]
    /\ Goto(p, IF Len(path[p]) = 1 THEN op[p] ELSE "namex")
    /\ UNCHANGED <<dinode, lock, cwd, file, op, ip>>

-----------------------------------------------------------------------------
(* open() and create().                                                    *)

\* filealloc() and fdalloc() for the inode of slot s: ops when the process
\* has no descriptor left, else the file keeps the reference.
OpenFile(p, s, done, fail) ==
    IF file[p] = None
      THEN file' = [file EXCEPT ![p] = s] /\ Finish(p, done)
      ELSE UNCHANGED file /\ Finish(p, fail)

\* open() of what namei() found: a directory only for reading.
Open(p) ==
    /\ At(p, "open") /\ CanLock(cur[p])
    /\ itable' = Ilock(cur[p])
    /\ \/ OpenFile(p, cur[p], <<>>, << <<"put", cur[p]>> >>)
       \/ /\ itable'[cur[p]].type = "dir"
          /\ UNCHANGED file /\ Finish(p, << <<"put", cur[p]>> >>)
    /\ UNCHANGED <<dinode, lock, cwd>>

InCreate(p) == pc[p] \in {"create", "mkdir"} /\ todo[p] = <<>> /\ CanLock(cur[p])
Child(p) == Entry(DiskOf(cur[p]), Head(path[p]))

\* create() finds the name: it lets the directory go.
CreateFound(p) ==
    /\ InCreate(p) /\ Child(p) # None
    /\ LET tab == Ilock(cur[p]) IN
       /\ itable' = Iget(tab, Child(p))
       /\ ip' = [ip EXCEPT ![p] = SlotFor(tab, Child(p))]
    /\ Do(p, << <<"put", cur[p]>> >>)
    /\ cur' = [cur EXCEPT ![p] = None]
    /\ Goto(p, "create_ip")
    /\ UNCHANGED <<dinode, lock, cwd, file, op, path>>

\* It is opened if it is a file and a file was asked for.
CreateExisting(p) ==
    /\ At(p, "create_ip") /\ CanLock(ip[p])
    /\ itable' = Ilock(ip[p])
    /\ IF op[p] = "create" /\ itable'[ip[p]].type = "file"
         THEN OpenFile(p, ip[p], <<>>, << <<"put", ip[p]>> >>)
         ELSE UNCHANGED file /\ Finish(p, << <<"put", ip[p]>> >>)
    /\ UNCHANGED <<dinode, lock, cwd>>

\* What open(O_CREATE) and mkdir() ask create() for.
Kind(c) == IF c = "mkdir" THEN "dir" ELSE "file"

FreeInodes == {i \in Inum : dinode[i].type = "free"}

\* ialloc() finds no free inode.
CreateNone(p) ==
    /\ InCreate(p) /\ Child(p) = None /\ FreeInodes = {}
    /\ itable' = Ilock(cur[p])
    /\ Finish(p, << <<"put", cur[p]>> >>)
    /\ UNCHANGED <<dinode, lock, cwd, file>>

\* ialloc(), ilock(), nlink = 1 and the entries "." and "..", name; the
\* directory is unlocked and put while the new inode is still locked.
CreateNew(p) ==
    /\ InCreate(p) /\ Child(p) = None /\ FreeInodes # {}
    /\ LET i == Lowest(FreeInodes)
           d == itable[cur[p]].inum
           type == Kind(op[p])
           up == IF op[p] = "mkdir" THEN 1 ELSE 0
           tab == Ilock(cur[p])
           s == SlotFor(tab, i)
           put == << <<"put", cur[p]>>, <<"unlock", s>> >>
       IN /\ lock[s] = Nobody
          /\ lock' = [lock EXCEPT ![s] = p]
          /\ dinode' = [dinode EXCEPT
                 ![i] = [Free EXCEPT !.type = type, !.nlink = 1,
                                     !.dotdot = IF up = 1 THEN d ELSE None],
                 ![d].dir[Head(path[p])] = i, ![d].nlink = @ + up]
          /\ itable' = [Iget(tab, i) EXCEPT
                 ![s].valid = TRUE, ![s].type = type, ![s].nlink = 1,
                 ![cur[p]].nlink = @ + up]
          /\ IF op[p] = "create"
               THEN OpenFile(p, s, put, Append(put, <<"put", s>>))
               ELSE UNCHANGED file /\ Finish(p, Append(put, <<"put", s>>))
    /\ UNCHANGED cwd

\* dirlink() fails: nlink = 0, and iput() frees the inode again while the
\* directory is still locked.
CreateFail(p) ==
    /\ InCreate(p) /\ Child(p) = None /\ FreeInodes # {}
    /\ LET i == Lowest(FreeInodes)
           type == Kind(op[p])
           tab == Ilock(cur[p])
           s == SlotFor(tab, i)
       IN /\ lock[s] = Nobody
          /\ lock' = [lock EXCEPT ![cur[p]] = p]
          /\ dinode' = [dinode EXCEPT ![i] = [Free EXCEPT !.type = type]]
          /\ itable' = [Iget(tab, i) EXCEPT ![s].valid = TRUE, ![s].type = type,
                                            ![s].nlink = 0]
          /\ Finish(p, << <<"put", s>>, <<"unlock", cur[p]>>, <<"put", cur[p]>> >>)
    /\ UNCHANGED <<cwd, file>>

-----------------------------------------------------------------------------
(* unlink().                                                               *)

UnlinkParent(p) == At(p, "unlink") /\ CanLock(cur[p])
Refused(p) == Head(path[p]) = ".." \/ Child(p) = None

UnlinkBad(p) ==
    /\ UnlinkParent(p) /\ Refused(p)
    /\ itable' = Ilock(cur[p])
    /\ Finish(p, << <<"put", cur[p]>> >>)
    /\ UNCHANGED <<dinode, lock, cwd, file>>

\* dirlookup() of the name; the directory stays locked.
UnlinkLookup(p) ==
    /\ UnlinkParent(p) /\ ~ Refused(p)
    /\ lock' = [lock EXCEPT ![cur[p]] = p]
    /\ LET tab == Ilock(cur[p]) IN
       /\ itable' = Iget(tab, Child(p))
       /\ ip' = [ip EXCEPT ![p] = SlotFor(tab, Child(p))]
    /\ Goto(p, "unlink_ip")
    /\ UNCHANGED <<dinode, cwd, file, op, path, cur, todo>>

\* isdirempty().
Empty(d) == \A n \in Name : d.dir[n] = None

NotEmpty(p) == Ilock(ip[p])[ip[p]].type = "dir" /\ ~ Empty(DiskOf(ip[p]))

UnlinkNotEmpty(p) ==
    /\ At(p, "unlink_ip") /\ CanLock(ip[p]) /\ NotEmpty(p)
    /\ itable' = Ilock(ip[p])
    /\ Finish(p, << <<"put", ip[p]>>, <<"unlock", cur[p]>>, <<"put", cur[p]>> >>)
    /\ UNCHANGED <<dinode, lock, cwd, file>>

\* The entry is cleared, nlink of a removed directory's parent and of the
\* inode go down; the inode is still locked while the parent is put.
Unlink(p) ==
    /\ At(p, "unlink_ip") /\ CanLock(ip[p]) /\ ~ NotEmpty(p)
    /\ LET d == itable[cur[p]].inum
           i == itable[ip[p]].inum
           down == IF DiskOf(ip[p]).type = "dir" THEN 1 ELSE 0
       IN /\ dinode' = [dinode EXCEPT
                 ![d].dir[Head(path[p])] = None, ![d].nlink = @ - down,
                 ![i].nlink = @ - 1]
          /\ itable' = [Ilock(ip[p]) EXCEPT ![cur[p]].nlink = @ - down,
                                            ![ip[p]].nlink = @ - 1]
    /\ lock' = [lock EXCEPT ![cur[p]] = Nobody, ![ip[p]] = p]
    /\ Finish(p, << <<"put", cur[p]>>, <<"unlock", ip[p]>>, <<"put", ip[p]>> >>)
    /\ UNCHANGED <<cwd, file>>

-----------------------------------------------------------------------------
(* link(), chdir() and close().                                            *)

\* Mutant of Linked: the new name is not counted.
LinkedNot(s, d) == dinode' = dinode /\ itable' = Ilock(s)

\* nlink of slot s changes by d, with iupdate().
Linked(s, d) ==
    /\ dinode' = [dinode EXCEPT ![itable[s].inum].nlink = @ + d]
    /\ itable' = [Ilock(s) EXCEPT ![s].nlink = @ + d]

LinkDir(p) ==
    /\ At(p, "link") /\ CanLock(cur[p]) /\ DiskOf(cur[p]).type = "dir"
    /\ itable' = Ilock(cur[p])
    /\ Finish(p, << <<"put", cur[p]>> >>)
    /\ UNCHANGED <<dinode, lock, cwd, file>>

\* The old path: nlink++; then the walk to the parent of the new one.
LinkOld(p, pth) ==
    /\ At(p, "link") /\ CanLock(cur[p]) /\ DiskOf(cur[p]).type # "dir"
    /\ Linked(cur[p], 1)
    /\ ip' = [ip EXCEPT ![p] = cur[p]] /\ cur' = [cur EXCEPT ![p] = None]
    /\ op' = [op EXCEPT ![p] = "link_new"] /\ path' = [path EXCEPT ![p] = pth]
    /\ Goto(p, "link_start")
    /\ UNCHANGED <<lock, cwd, file, todo>>

LinkStart(p) ==
    /\ At(p, "link_start")
    /\ NamexStart(p)
    /\ UNCHANGED <<dinode, lock, cwd, file, op, path, ip, todo>>

\* dirlink() finds the name: the inode it got is put under the lock.
LinkExists(p) ==
    /\ At(p, "link_new") /\ CanLock(cur[p]) /\ Child(p) # None
    /\ LET tab == Ilock(cur[p]) IN
       /\ itable' = Iget(tab, Child(p))
       /\ Do(p, << <<"put", SlotFor(tab, Child(p))>>, <<"unlock", cur[p]>>,
                   <<"put", cur[p]>> >>)
    /\ lock' = [lock EXCEPT ![cur[p]] = p]
    /\ cur' = [cur EXCEPT ![p] = None]
    /\ Goto(p, "link_bad")
    /\ UNCHANGED <<dinode, cwd, file, op, path, ip>>

\* dirlink() cannot write the entry.
LinkFull(p) ==
    /\ At(p, "link_new") /\ CanLock(cur[p]) /\ Child(p) = None
    /\ itable' = Ilock(cur[p])
    /\ Do(p, << <<"put", cur[p]>> >>)
    /\ cur' = [cur EXCEPT ![p] = None]
    /\ Goto(p, "link_bad")
    /\ UNCHANGED <<dinode, lock, cwd, file, op, path, ip>>

LinkNew(p) ==
    /\ At(p, "link_new") /\ CanLock(cur[p]) /\ Child(p) = None
    /\ itable' = Ilock(cur[p])
    /\ dinode' = [dinode EXCEPT ![itable[cur[p]].inum].dir[Head(path[p])] =
                                    itable[ip[p]].inum]
    /\ Finish(p, << <<"put", cur[p]>>, <<"put", ip[p]>> >>)
    /\ UNCHANGED <<lock, cwd, file>>

\* bad: nlink--, iunlockput(ip).
LinkBad(p) ==
    /\ At(p, "link_bad") /\ CanLock(ip[p])
    /\ Linked(ip[p], -1)
    /\ Finish(p, << <<"put", ip[p]>> >>)
    /\ UNCHANGED <<lock, cwd, file>>

Chdir(p) ==
    /\ At(p, "chdir") /\ CanLock(cur[p])
    /\ itable' = Ilock(cur[p])
    /\ IF itable'[cur[p]].type = "dir"
         THEN cwd' = [cwd EXCEPT ![p] = cur[p]] /\ Finish(p, << <<"put", cwd[p]>> >>)
         ELSE UNCHANGED cwd /\ Finish(p, << <<"put", cur[p]>> >>)
    /\ UNCHANGED <<dinode, lock, file>>

\* close(), the last fileclose() of the file.
Close(p) ==
    /\ At(p, "idle") /\ file[p] # None
    /\ file' = [file EXCEPT ![p] = None]
    /\ Do(p, << <<"put", file[p]>> >>)
    /\ UNCHANGED <<dinode, itable, lock, cwd, pc, op, path, cur, ip>>

-----------------------------------------------------------------------------
PutStep(p) == Put(p) \/ PutLast(p) \/ Trunc(p) \/ Unref(p) \/ Unlock(p)
NamexStep(p) == NamexFail(p) \/ NamexParent(p) \/ NamexNext(p)
CreateStep(p) ==
    \/ CreateFound(p) \/ CreateExisting(p) \/ CreateNone(p) \/ CreateNew(p)
    \/ CreateFail(p)
UnlinkStep(p) == UnlinkBad(p) \/ UnlinkLookup(p) \/ UnlinkNotEmpty(p) \/ Unlink(p)
LinkStep(p) ==
    \/ LinkDir(p) \/ LinkStart(p) \/ LinkExists(p) \/ LinkFull(p) \/ LinkNew(p)
    \/ LinkBad(p)
    \/ \E pth \in Paths : LinkOld(p, pth)

Next ==
    \E p \in Proc :
        \/ \E c \in Calls[p], pth \in Paths : Call(p, c, pth)
        \/ PutStep(p) \/ NamexStep(p) \/ Open(p) \/ CreateStep(p) \/ UnlinkStep(p)
        \/ LinkStep(p) \/ Chdir(p) \/ Close(p)

Spec == Init /\ [][Next]_vars

-----------------------------------------------------------------------------
(* Properties.                                                             *)

TypeOK ==
    /\ \A i \in Inum : /\ dinode[i].type \in {"free", "dir", "file"}
                       /\ dinode[i].nlink \in Nat
                       /\ dinode[i].dir \in [Name -> Inum \cup {None}]
                       /\ dinode[i].dotdot \in Inum \cup {None}
    /\ \A s \in Slot : /\ itable[s].inum \in Inum \cup {None}
                       /\ itable[s].ref \in Nat /\ itable[s].nlink \in Nat
    /\ lock \in [Slot -> Proc \cup {Nobody}]
    /\ cwd \in [Proc -> Slot] /\ file \in [Proc -> Slot \cup {None}]
    /\ cur \in [Proc -> Slot \cup {None}] /\ ip \in [Proc -> Slot \cup {None}]
    /\ pc \in [Proc -> {"idle", "namex", "open", "create", "mkdir", "create_ip",
                        "unlink", "unlink_ip", "link", "link_start", "link_new",
                        "link_bad", "chdir"}]

\* "ip->ref tracks the number of in-memory pointers to the entry (open files
\* and current directories)" (fs.c), and those of calls in progress, so that
\* an entry is recycled when nobody has a pointer to it, and only then.
Pointers(s) ==
    Cardinality({p \in Proc : cwd[p] = s}) + Cardinality({p \in Proc : file[p] = s})
    + Cardinality({p \in Proc : cur[p] = s}) + Cardinality({p \in Proc : ip[p] = s})
    + Cardinality({pk \in Proc \X (1 .. 3) :
            /\ pk[2] \in DOMAIN todo[pk[1]]
            /\ todo[pk[1]][pk[2]][1] # "unlock" /\ todo[pk[1]][pk[2]][2] = s})
RefCounted == TypeOK /\ \A s \in Slot : itable[s].ref = Pointers(s)

\* An inode has one entry in the table, and what the entry holds is what is on
\* disk, also for an inode that one process frees while another allocates it
\* again; the entry of an inode that was freed is not valid, so that create()'s
\* ilock() reads what ialloc() has written.
InodeCoherent ==
    /\ \A s, t \in Slot : s # t /\ itable[s].ref > 0 => itable[s].inum # itable[t].inum
    /\ \A s \in Slot : itable[s].valid =>
        /\ itable[s].type = DiskOf(s).type /\ itable[s].nlink = DiskOf(s).nlink
        /\ itable[s].type # "free"

\* "ip->ref == 1 means no other process can have ip locked, so this
\* acquiresleep() won't block (or deadlock)" (fs.c, iput()).
IputNoBlock ==
    \A p \in Proc : Head1(p, "put") /\ Frees(Target(p)) => lock[Target(p)] = Nobody

\* What nlink counts: the entries that name an inode, for a directory the ".."
\* of every subdirectory that has a name, and the entries that link() is about
\* to write.  mkfs gives the root one more.
Naming(i) == {dn \in Inum \X Name : dinode[dn[1]].dir[dn[2]] = i}
Subdirs(i) == {d \in Inum : dinode[d].type = "dir" /\ dinode[d].dotdot = i /\ Naming(d) # {}}
Linking(i) == {p \in Proc : op[p] = "link_new" /\ itable[ip[p]].inum = i}
Links(i) ==
    Cardinality(Naming(i)) + Cardinality(Subdirs(i)) + Cardinality(Linking(i))
    + (IF i = ROOTINO THEN 1 ELSE 0)

\* "iput() frees if the reference and link counts have fallen to zero"
\* (fs.c): an allocated inode without links is one that somebody still uses.
OrphansFreed ==
    \A i \in Inum : dinode[i].type # "free" /\ dinode[i].nlink = 0 =>
        \E s \in Slot : itable[s].ref > 0 /\ itable[s].inum = i

\* panic("ilock: no type") (fs.c): what a process is about to lock is an
\* allocated inode, the ".." of its directory too, for which create() has
\* counted a link ("for ".."", sysfile.c).
Wanted(p) ==
    IF pc[p] \in {"create_ip", "unlink_ip", "link_bad"} THEN ip[p] ELSE cur[p]
NoIlockPanic ==
    \A p \in Proc : Wanted(p) # None /\ ~ itable[Wanted(p)].valid =>
        DiskOf(Wanted(p)).type # "free"

=============================================================================
