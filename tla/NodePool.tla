------------------------------ MODULE NodePool ------------------------------
(***************************************************************************)
(* The preallocated nodes of the list of recorded files, dvr/ak_dvr_file.c *)
(* (mem_pool_init, malloc_record_file_entry, free_record_file_entry).  The *)
(* pool of directories, malloc_record_dir_entry and free_record_dir_entry, *)
(* is the same code with dir_top and total_dir.                            *)
(*                                                                         *)
(* A malloc walks from file_top to the next free node, under a mutex, and  *)
(* gives up at the end of the array, where it starts again the next time.  *)
(***************************************************************************)
EXTENDS Integers

CONSTANT TotalNode     \* total_node

ASSUME TotalNodeAssumption == TotalNode \in Nat \ {0}

VARIABLES mem_pool_init_flag,
          using_flg,   \* of every node
          file_top,    \* where the next walk begins
          held,        \* the nodes the callers have, as the callers see it
          refused      \* mallocs refused since a node was last given or freed

poolVars == <<mem_pool_init_flag, using_flg, file_top, held, refused>>

Node == 0..TotalNode - 1

PoolInit == /\ mem_pool_init_flag = FALSE
            /\ using_flg = [n \in Node |-> FALSE]
            /\ file_top = 0
            /\ held = {}
            /\ refused = 0

(* mem_pool_release leaves file_top where it is.                           *)
mem_pool_init == /\ ~mem_pool_init_flag
                 /\ mem_pool_init_flag' = TRUE
                 /\ using_flg' = [n \in Node |-> FALSE]
                 /\ refused' = 0
                 /\ UNCHANGED <<file_top, held>>

mem_pool_release == /\ mem_pool_init_flag
                    /\ mem_pool_init_flag' = FALSE
                    /\ held' = {}
                    /\ refused' = 0
                    /\ UNCHANGED <<using_flg, file_top>>

(* The do-while loop stops at the node n: the first free one, or the last. *)
MutStopsUsed(n) == /\ n \in file_top..TotalNode - 1
                   /\ \A j \in file_top..n - 1 : using_flg[j]

StopsAt(n) == /\ n \in file_top..TotalNode - 1
              /\ n = TotalNode - 1 \/ ~using_flg[n]
              /\ \A j \in file_top..n - 1 : using_flg[j]

GiveNode(n) == /\ mem_pool_init_flag
               /\ StopsAt(n)
               /\ n + 1 < TotalNode
               /\ using_flg' = [using_flg EXCEPT ![n] = TRUE]
               /\ file_top' = n + 1
               /\ held' = held \cup {n}
               /\ refused' = 0
               /\ UNCHANGED mem_pool_init_flag

StartsOver == file_top' = 0

RefuseNode == /\ mem_pool_init_flag
              /\ StopsAt(TotalNode - 1)
              /\ StartsOver
              /\ refused' = IF refused = 2 THEN 2 ELSE refused + 1
              /\ UNCHANGED <<mem_pool_init_flag, using_flg, held>>

malloc_record_file_entry == RefuseNode \/ \E n \in Node : GiveNode(n)

free_record_file_entry(n) == /\ mem_pool_init_flag
                             /\ n \in held
                             /\ using_flg' = [using_flg EXCEPT ![n] = FALSE]
                             /\ held' = held \ {n}
                             /\ refused' = 0
                             /\ UNCHANGED <<mem_pool_init_flag, file_top>>

PoolNext == \/ mem_pool_init
            \/ mem_pool_release
            \/ malloc_record_file_entry
            \/ \E n \in Node : free_record_file_entry(n)

PoolSpec == PoolInit /\ [][PoolNext]_poolVars

-----------------------------------------------------------------------------
(* The walk never begins past the last node: file_top++ stays within the   *)
(* array though a wrap ends in a refusal (lines 331-344).                  *)
PoolTypeOK == /\ mem_pool_init_flag \in BOOLEAN
              /\ using_flg \in [Node -> BOOLEAN]
              /\ file_top \in Node
              /\ held \subseteq Node
              /\ refused \in 0..2

(* A node some caller has is never handed to another, wherever the walk    *)
(* wraps: a recorded file's entry is not overwritten while it is listed.   *)
NodeGivenOnce == [][\A n \in Node : GiveNode(n) => n \notin held]_poolVars

(* A refusal need not mean that the pool is full, but a second one does:   *)
(* the walk it makes began at the first node.  Only the last node, which   *)
(* is never handed out, may be free.                                       *)
RefusedTwiceIsFull == refused = 2 => \A n \in Node \ {TotalNode - 1} : n \in held
=============================================================================
