------------------------------- MODULE MCDisk -------------------------------
(***************************************************************************)
(* The redo log and the buffer cache, explored one at a time: part is the  *)
(* one that runs. Log sees the cache through pinned blocks, Bcache sees    *)
(* the log through bpin() and bunpin().                                    *)
(***************************************************************************)
EXTENDS Log, Bcache, TLC

VARIABLE part

DiskSymmetry == Permutations(Thread) \cup Permutations(Block)

DiskInit ==
    /\ part \in {"log", "cache"}
    /\ Init /\ CacheInit
    /\ part # "log" => home = [k \in Block |-> CHOOSE v \in Val : TRUE]
    /\ part # "cache" => \A k \in Blockno : ondisk[k] = CHOOSE v \in Data : TRUE

DiskNext ==
    /\ UNCHANGED part
    /\ \/ part = "log" /\ Next /\ UNCHANGED cacheVars
       \/ part = "cache" /\ CacheNext /\ UNCHANGED vars

DiskSpec == DiskInit /\ [][DiskNext]_<<part, vars, cacheVars>>

=============================================================================
