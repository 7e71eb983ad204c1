------------------------------- MODULE Files --------------------------------
(***************************************************************************)
(* The contents of files: block allocation, bmap(), itrunc(), readi() and  *)
(* writei() of kernel/fs.c under fileread() and filewrite() of kernel/file.c*)
(* and open(O_TRUNC), on the image that mkfs/mkfs.c lays out.              *)
(*                                                                         *)
(* A block is BSIZE words. A word of an indirect block is a block number,  *)
(* so NINDIRECT = BSIZE; a word of a data block is a value, and whoever    *)
(* writes at a position of a file writes the value Word says. Blocks are  *)
(* numbered from the first one after the meta-data, and 0 is no block.     *)
(* ip->lock is held over several steps; a step handles one block, as the   *)
(* locks of the buffers make it.                                           *)
(***************************************************************************)
EXTENDS Naturals, Sequences, FiniteSets, SequencesExt

CONSTANTS
    Proc,      \* processes
    NoProc,    \* holder of a free lock
    NBlock,    \* data blocks of the disk
    BSIZE, NDIRECT,
    MaxChunk,  \* words that filewrite() writes in one transaction
    Sizes,     \* the n of read() and write()
    Calls,     \* what each process does: <<"read" or "write" or "trunc", inode>>
    Images     \* what mkfs is given: the sizes of the files, inodes 2, 3, ...

NINDIRECT == BSIZE
MAXFILE == NDIRECT + NINDIRECT
Block == 1 .. NBlock
Inode == 1 .. 1 + Len(CHOOSE image \in Images : TRUE)

\* What is written at position pos of inode i.
Word(i, pos) == 10 * i + pos

Zeroes == [k \in 0 .. BSIZE - 1 |-> 0]

\* What a free block holds: old data, which nobody may rely on.
Junk == [k \in 0 .. BSIZE - 1 |-> 1]

Least(a, b) == IF a < b THEN a ELSE b

VARIABLES
    content,  \* the blocks, as the buffer cache has them
    used,     \* the blocks marked in the bitmap
    inode,    \* ip->addrs, ip->size
    off,      \* f->off; the file of inode i is shared by the processes
    lock,     \* ip->lock
    call      \* per process: the call it is in

vars == <<content, used, inode, off, lock, call>>

-----------------------------------------------------------------------------
(* Blocks. A disk is a record of data, used and the inode at hand.         *)

Disk(i) == [data |-> content, used |-> used, ip |-> inode[i], addr |-> 0]

\* balloc(): the first free block, marked and zeroed; 0 when there is none.
Balloc(d) ==
    IF d.used = Block THEN [d EXCEPT !.addr = 0]
    ELSE LET b == CHOOSE x \in Block \ d.used : \A y \in Block \ d.used : x <= y
         IN [d EXCEPT !.used = @ \cup {b}, !.data[b] = Zeroes, !.addr = b]

\* ip->addrs[k], allocated if necessary.
Direct(d, k) ==
    IF d.ip.addrs[k] # 0 THEN [d EXCEPT !.addr = d.ip.addrs[k]]
    ELSE LET e == Balloc(d) IN [e EXCEPT !.ip.addrs[k] = e.addr]

\* Mutant of Bmap: a file goes on in the second indirect entry.
BmapShifted(d, bn) ==
    IF bn < NDIRECT THEN Direct(d, bn)
    ELSE LET e == Direct(d, NDIRECT)
             k == (bn - NDIRECT + (IF bn > NDIRECT THEN 0 ELSE 1)) % NINDIRECT
         IN IF e.addr = 0 \/ e.data[e.addr][k] # 0
            THEN [e EXCEPT !.addr = IF @ = 0 THEN 0 ELSE e.data[@][k]]
            ELSE LET g == Balloc(e)
                 IN IF g.addr = 0 THEN g ELSE [g EXCEPT !.data[e.addr][k] = g.addr]

\* bmap(): the disk with the bn-th block of the inode in addr, allocated if
\* there is none; addr is 0 when the disk is full.
Bmap(d, bn) ==
    IF bn < NDIRECT THEN Direct(d, bn)
    ELSE LET e == Direct(d, NDIRECT)
             k == bn - NDIRECT
         IN IF e.addr = 0 \/ e.data[e.addr][k] # 0
            THEN [e EXCEPT !.addr = IF @ = 0 THEN 0 ELSE e.data[@][k]]
            ELSE LET g == Balloc(e)
                 IN IF g.addr = 0 THEN g ELSE [g EXCEPT !.data[e.addr][k] = g.addr]

\* m words from position pos of inode i, copied to their places in block b.
Fill(d, b, i, pos, m) ==
    LET o == pos % BSIZE IN
    [d EXCEPT !.data[b] = [k \in DOMAIN @ |->
        IF k \in o .. o + m - 1 THEN Word(i, pos + k - o) ELSE @[k]]]

-----------------------------------------------------------------------------
(* mkfs. iappend() of a single word; an image is the disk, the inodes made *)
(* so far and freeblock.                                                   *)

NoInode == [addrs |-> [k \in 0 .. NDIRECT |-> 0], size |-> 0]

\* Block b for slot k of a table, taken from freeblock when the slot is 0.
Take(img, b) == IF b # 0 THEN <<b, img.freeblock>> ELSE <<img.freeblock, img.freeblock + 1>>

Iappend(img, i) ==
    LET ip == img.inode[i]
        fbn == ip.size \div BSIZE
        top == Least(fbn, NDIRECT)
        t == Take(img, ip.addrs[top])
        inner == Take([img EXCEPT !.freeblock = t[2]], img.data[t[1]][fbn - NDIRECT])
        x == IF fbn < NDIRECT THEN t ELSE inner
        linked == IF fbn < NDIRECT THEN img.data
                  ELSE [img.data EXCEPT ![t[1]][fbn - NDIRECT] = x[1]]
    IN [data |-> [linked EXCEPT ![x[1]][ip.size % BSIZE] = Word(i, ip.size)],
        inode |-> [img.inode EXCEPT ![i].addrs[top] = t[1], ![i].size = @ + 1],
        freeblock |-> x[2]]

\* The root directory gets "." and "..", an entry for each file before the
\* contents of the file, and a size of whole blocks.
Mkfs(image) ==
    LET blank == [data |-> [b \in Block |-> Zeroes],
                  inode |-> [i \in Inode |-> NoInode], freeblock |-> 1]
        AddFile(img, i) == FoldLeft(Iappend, Iappend(img, 1), [k \in 1 .. image[i - 1] |-> i])
        full == FoldLeft(AddFile, Iappend(Iappend(blank, 1), 1), [k \in DOMAIN image |-> k + 1])
    IN [full EXCEPT !.inode[1].size = ((@ \div BSIZE) + 1) * BSIZE]

Idle == [op |-> "none"]

Init ==
    \E image \in Images :
        LET img == Mkfs(image) IN
        /\ content = img.data /\ inode = img.inode
        /\ used = 1 .. img.freeblock - 1
        /\ off = [i \in Inode |-> 0] /\ lock = [i \in Inode |-> NoProc]
        /\ call = [p \in Proc |-> Idle]

-----------------------------------------------------------------------------
(* The calls.                                                              *)

Set(p, c) == call' = [call EXCEPT ![p] = c]
In(p, op) == call[p].op = op
Store(i, d) == content' = d.data /\ used' = d.used /\ inode' = [inode EXCEPT ![i] = d.ip]

\* ilock() in fileread(), then the checks of readi().
Read(p, i, n) ==
    /\ In(p, "none") /\ lock[i] = NoProc
    /\ off[i] <= inode[i].size
    /\ Set(p, [op |-> "readi", i |-> i, n |-> Least(n, inode[i].size - off[i]),
               at |-> off[i], got |-> <<>>])
    /\ lock' = [lock EXCEPT ![i] = p]
    /\ UNCHANGED <<content, used, inode, off>>

\* begin_op() and ilock() in filewrite(), then the checks of writei(), for a
\* write of n words of which done are written. An offset beyond the end, or
\* a file that would get too long, ends the call.
Writei(p, i, n, done) ==
    LET n1 == Least(n - done, MaxChunk) IN
    /\ lock[i] = NoProc
    /\ \/ /\ off[i] <= inode[i].size /\ off[i] + n1 <= MAXFILE * BSIZE
          /\ Set(p, [op |-> "writei", i |-> i, n |-> n, done |-> done,
                     n1 |-> n1, at |-> off[i], tot |-> 0])
          /\ lock' = [lock EXCEPT ![i] = p]
       \/ /\ off[i] > inode[i].size \/ off[i] + n1 > MAXFILE * BSIZE
          /\ Set(p, Idle) /\ UNCHANGED lock
    /\ UNCHANGED <<content, used, inode, off>>

Write(p, i, n) == In(p, "none") /\ Writei(p, i, n, 0)

\* The next part of a long write, in a transaction of its own.
WriteMore(p) == In(p, "write") /\ Writei(p, call[p].i, call[p].n, call[p].done)

\* sys_open() with O_TRUNC: ilock() and itrunc().
Trunc(p, i) ==
    /\ In(p, "none") /\ lock[i] = NoProc
    /\ Set(p, [op |-> "itrunc", i |-> i, k |-> 0])
    /\ lock' = [lock EXCEPT ![i] = p]
    /\ UNCHANGED <<content, used, inode, off>>

\* A turn of writei()'s loop: bmap(), either_copyin() of up to a block.
WriteBlock(p) ==
    LET c == call[p]
        pos == c.at + c.tot
        d == Bmap(Disk(c.i), pos \div BSIZE)
        m == Least(c.n1 - c.tot, BSIZE - (pos % BSIZE))
    IN /\ c.op = "writei" /\ c.tot < c.n1
       /\ IF d.addr = 0
            THEN Store(c.i, d) /\ Set(p, [c EXCEPT !.op = "written"])
            ELSE \E ok \in BOOLEAN, part \in 0 .. m :
                /\ ok => part = m
                /\ Store(c.i, Fill(d, d.addr, c.i, pos, part))
                /\ Set(p, IF ok THEN [c EXCEPT !.tot = @ + m] ELSE [c EXCEPT !.op = "written"])
       /\ UNCHANGED <<off, lock>>

\* ip->size after writei().
Grown(c, size) == IF c.at + c.tot > size THEN c.at + c.tot ELSE size

\* writei() returns, f->off moves, iunlock(); filewrite() goes on if all of
\* this part was written and there is more.
FileWriteDone(p) ==
    LET c == call[p] IN
    /\ \/ c.op = "writei" /\ c.tot = c.n1
       \/ c.op = "written"
    /\ inode' = [inode EXCEPT ![c.i].size = Grown(c, @)]
    /\ off' = [off EXCEPT ![c.i] = @ + c.tot]
    /\ lock' = [lock EXCEPT ![c.i] = NoProc]
    /\ Set(p, IF c.tot = c.n1 /\ c.done + c.tot < c.n
              THEN [op |-> "write", i |-> c.i, n |-> c.n, done |-> c.done + c.tot]
              ELSE Idle)
    /\ UNCHANGED <<content, used>>

\* A turn of readi()'s loop; the copy to the user may fail.
ReadBlock(p) ==
    LET c == call[p]
        pos == c.at + Len(c.got)
        d == Bmap(Disk(c.i), pos \div BSIZE)
        m == Least(c.n - Len(c.got), BSIZE - (pos % BSIZE))
    IN /\ c.op = "readi" /\ Len(c.got) < c.n
       /\ Store(c.i, d)
       /\ \/ /\ d.addr # 0
             /\ Set(p, [c EXCEPT !.got = @ \o [k \in 1 .. m |-> d.data[d.addr][(pos % BSIZE) + k - 1]]])
             /\ UNCHANGED lock
          \/ Set(p, Idle) /\ lock' = [lock EXCEPT ![c.i] = NoProc]
       /\ UNCHANGED <<off>>

FileReadDone(p) ==
    LET c == call[p] IN
    /\ c.op = "readi" /\ Len(c.got) = c.n
    /\ off' = [off EXCEPT ![c.i] = @ + Len(c.got)]
    /\ lock' = [lock EXCEPT ![c.i] = NoProc]
    /\ Set(p, Idle)
    /\ UNCHANGED <<content, used, inode>>

\* The k-th block itrunc() looks at: the direct ones, those in the indirect
\* block, and the indirect block.
TruncTarget(i, k) ==
    IF k < NDIRECT THEN inode[i].addrs[k]
    ELSE IF inode[i].addrs[NDIRECT] = 0 THEN 0
    ELSE IF k < MAXFILE THEN content[inode[i].addrs[NDIRECT]][k - NDIRECT]
    ELSE inode[i].addrs[NDIRECT]

\* Mutant of LastTrunc: the indirect block itself is forgotten.
LastTruncShort == MAXFILE - 1

LastTrunc == MAXFILE

\* A turn of itrunc()'s loops: bfree(), which must find the block in use.
TruncBlock(p) ==
    LET c == call[p]
        b == TruncTarget(c.i, c.k)
    IN /\ c.op = "itrunc" /\ c.k <= LastTrunc
       /\ b # 0 => b \in used
       /\ used' = used \ {b}
       /\ content' = IF b = 0 THEN content ELSE [content EXCEPT ![b] = Junk]
       /\ inode' = IF c.k < NDIRECT THEN [inode EXCEPT ![c.i].addrs[c.k] = 0]
                   ELSE IF c.k = LastTrunc THEN [inode EXCEPT ![c.i].addrs[NDIRECT] = 0]
                   ELSE inode
       /\ Set(p, [c EXCEPT !.k = @ + 1])
       /\ UNCHANGED <<off, lock>>

\* Mutant of TruncDone: ip->size stays.
TruncDoneSize(p) ==
    LET c == call[p] IN
    /\ c.op = "itrunc" /\ c.k > LastTrunc
    /\ \E o \in {0, off[c.i]} : off' = [off EXCEPT ![c.i] = o]
    /\ lock' = [lock EXCEPT ![c.i] = NoProc]
    /\ Set(p, Idle)
    /\ UNCHANGED <<content, used, inode>>

\* The inode is empty. The processes go on with the file they share, at the
\* offset it has, or with the new one of sys_open().
TruncDone(p) ==
    LET c == call[p] IN
    /\ c.op = "itrunc" /\ c.k > LastTrunc
    /\ inode' = [inode EXCEPT ![c.i].size = 0]
    /\ \E o \in {0, off[c.i]} : off' = [off EXCEPT ![c.i] = o]
    /\ lock' = [lock EXCEPT ![c.i] = NoProc]
    /\ Set(p, Idle)
    /\ UNCHANGED <<content, used>>

\* open() without O_TRUNC: the file is read or written from the start.
Reopen(i) ==
    /\ off' = [off EXCEPT ![i] = 0]
    /\ UNCHANGED <<content, used, inode, lock, call>>

Next ==
    \/ \E p \in Proc :
          \/ WriteMore(p) \/ WriteBlock(p) \/ FileWriteDone(p) \/ ReadBlock(p) \/ FileReadDone(p)
          \/ TruncBlock(p) \/ TruncDone(p)
    \/ \E p \in Proc, i \in Inode \ {1} :
          \/ <<"read", i>> \in Calls[p] /\ \E n \in Sizes : Read(p, i, n)
          \/ <<"write", i>> \in Calls[p] /\ \E n \in Sizes : Write(p, i, n)
          \/ <<"trunc", i>> \in Calls[p] /\ (Trunc(p, i) \/ Reopen(i))

Spec == Init /\ [][Next]_vars

-----------------------------------------------------------------------------
(* Properties.                                                             *)

Truncating(i) == \E p \in Proc : In(p, "itrunc") /\ call[p].i = i
TruncAt(i) == call[CHOOSE p \in Proc : In(p, "itrunc") /\ call[p].i = i].k

\* The places that refer to a block: <<inode, k>> as in TruncTarget.
Refs == {r \in Inode \X (0 .. MAXFILE) :
           /\ TruncTarget(r[1], r[2]) # 0
           /\ Truncating(r[1]) => r[2] >= TruncAt(r[1])}

\* The blocks marked in the bitmap are those that inodes and indirect blocks
\* refer to, and no block is referred to twice: writes that fail half-way on
\* a full disk and truncations leak no block and share none.
BlocksOwned ==
    /\ {TruncTarget(r[1], r[2]) : r \in Refs} = used
    /\ Cardinality(Refs) = Cardinality(used)

\* A file below its size, and what a read() has collected so far, is what was
\* written there: no word of another file, and none that was never written.
\* mkfs pads the root directory with zeroes.
FilesAsWritten ==
    /\ \A i \in Inode : ~Truncating(i) =>
         \A pos \in 0 .. inode[i].size - 1 :
             LET b == TruncTarget(i, pos \div BSIZE)
             IN b # 0 => content[b][pos % BSIZE] \in {Word(i, pos)} \cup (IF i = 1 THEN {0} ELSE {})
    /\ \A p \in Proc : In(p, "readi") =>
         LET c == call[p] IN
         c.i # 1 => c.got = [k \in 1 .. Len(c.got) |-> Word(c.i, c.at + k - 1)]

\* There is a block for every position below the size, so that bmap() in a
\* read(), which is no transaction and must not log_write(), never allocates.
\* The images are such that the entries of the root do not just fill a block:
\* mkfs would then give it a size with no block at its end.
NoHoles ==
    \A i \in Inode : ~Truncating(i) =>
        \A k \in 0 .. MAXFILE - 1 : k * BSIZE < inode[i].size => TruncTarget(i, k) # 0

=============================================================================
