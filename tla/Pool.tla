-------------------------------- MODULE Pool --------------------------------
(***************************************************************************)
(* The memory pool of array.h under the use toggle::Array makes of it.     *)
(* Free blocks are kept in lists by size class (bucket): one list per      *)
(* worker and bucket, and one global list per large bucket under a lock    *)
(* nobody waits for: a worker that does not get it asks the system.        *)
(*                                                                         *)
(* The lists run through the free blocks themselves: link[p] is the first  *)
(* word of block p, which belongs to the user while the block is in use.   *)
(***************************************************************************)
EXTENDS Integers, FiniteSets

CONSTANTS
  Workers,
  Arrays,        \* the Array objects of the program
  Blocks,        \* addresses the system can give out
  MaxBytes,      \* largest request
  Threshold1,    \* smallest bucket
  Threshold2,    \* smallest bucket with a global list
  null,
  UserData       \* the first word of a block in use

(* Of the powers of 2 it says only what arithmetic does: to the provers ^ *)
(* is any function.                                                       *)
ASSUME PoolAssumption ==
  /\ Threshold1 \in Nat /\ Threshold2 \in Nat /\ Threshold1 <= Threshold2
  /\ MaxBytes \in Nat \ {0}
  /\ null \notin Blocks \cup Arrays /\ UserData \notin Blocks \cup {null}
  /\ 2 ^ 0 = 1
  /\ \A k \in 0..(MaxBytes + Threshold1) : 2 ^ k \in Nat /\ 2 ^ (k + 1) = 2 * 2 ^ k

VARIABLES
  block_size,     \* size of each block the system has given out, 0 for others
  link,           \* the first word of each block
  local_cache,    \* list heads of each worker and bucket
  global_cache,   \* list heads of each large bucket
  global_lock,
  array,          \* data_ and size_ of each Array
  op,             \* what each worker is doing in allocate or deallocate
  closed          \* ~Pool has run

pool_vars == <<block_size, link, local_cache, global_cache, global_lock, array, op, closed>>
lists == <<local_cache, global_cache>>

-----------------------------------------------------------------------------
(* std::bit_width, and the bucket of a request. *)
bit_width(x) == IF x = 0 THEN 0 ELSE CHOOSE k \in 1..x : 2 ^ (k - 1) <= x /\ x < 2 ^ k

Bucket(bytes) ==
  IF bytes <= 2 ^ Threshold1 THEN Threshold1 ELSE bit_width(bytes - 1)

Buckets == {Bucket(bytes) : bytes \in 1..MaxBytes}
Large   == {b \in Buckets : b >= Threshold2}
Pointer == Blocks \cup {null}

NoArray == [alive |-> FALSE, data |-> null, size |-> 0]
CallPlaces == {"user", "allocate", "pop", "take", "new", "unlock",
               "deallocate", "link", "push", "pushed"}

(***************************************************************************)
(* The arguments of the call a worker is in: the Array it works for, the   *)
(* block it has got or is to give back, the bytes asked for, and the Array *)
(* a move assignment will take over afterwards.  The code resets data_     *)
(* only after deallocate; nobody can look at it in between.                *)
(***************************************************************************)
Outside == [at |-> "user", for |-> null, block |-> null, bytes |-> 0, from |-> null]

PoolInit ==
  /\ block_size = [p \in Blocks |-> 0]
  /\ link = [p \in Blocks |-> UserData]
  /\ local_cache = [w \in Workers |-> [b \in Buckets |-> null]]
  /\ global_cache = [b \in Large |-> null]
  /\ global_lock = FALSE
  /\ array = [a \in Arrays |-> NoArray]
  /\ op = [w \in Workers |-> Outside]
  /\ closed = FALSE

(* An Array no call is working on; two threads never share one. *)
Available(a) == \A w \in Workers : op[w].for # a /\ op[w].from # a

Goto(w, place) == op' = [op EXCEPT ![w].at = place]

BucketOf(w) == Bucket(op[w].bytes)

(* Bug for the mutation runs: the lock is not looked at. *)
TryLockAlways == TRUE

(* try_lock_global succeeds; deallocate keeps the block with the worker: a *)
(* small one, or the first of a large bucket. *)
TryLock  == ~ global_lock
Keeps(w) == BucketOf(w) < Threshold2 \/ local_cache[w][BucketOf(w)] = null

MovedFrom == [alive |-> TRUE, data |-> null, size |-> 0]

(* a is destroyed, or takes over from other. *)
Assigned(a, other) ==
  IF other = null THEN [array EXCEPT ![a] = NoArray]
  ELSE [array EXCEPT ![a] = array[other], ![other] = MovedFrom]

-----------------------------------------------------------------------------
(* Array(n) with n * sizeof(T) = bytes. *)
Construct(w, a, bytes) ==
  /\ ~ closed /\ op[w] = Outside
  /\ ~ array[a].alive /\ Available(a)
  /\ array' = [array EXCEPT ![a] = [alive |-> TRUE, data |-> null, size |-> bytes]]
  /\ op' = IF bytes = 0 THEN op
           ELSE [op EXCEPT ![w] = [Outside EXCEPT !.at = "allocate", !.for = a, !.bytes = bytes]]
  /\ UNCHANGED <<block_size, link, lists, global_lock, closed>>

(* Array(Array&&). *)
MoveConstruct(w, a, other) ==
  /\ ~ closed /\ op[w] = Outside
  /\ ~ array[a].alive /\ array[other].alive /\ Available(a) /\ Available(other)
  /\ array' = Assigned(a, other)
  /\ UNCHANGED <<block_size, link, lists, global_lock, op, closed>>

(* A worker leaves its call; a move assignment then takes over from other. *)
Finish(w) ==
  /\ op' = [op EXCEPT ![w] = Outside]
  /\ array' = Assigned(op[w].for, op[w].from)

(* ~Array, and operator=(Array&&) from another Array, which frees first. *)
Release(w, a, other) ==
  /\ ~ closed /\ op[w] = Outside
  /\ array[a].alive /\ Available(a)
  /\ other # null => other # a /\ array[other].alive /\ Available(other)
  /\ IF array[a].data # null
       THEN /\ op' = [op EXCEPT ![w] = [at |-> "deallocate", for |-> a, from |-> other,
                        block |-> array[a].data, bytes |-> array[a].size]]
            /\ array' = [array EXCEPT ![a].data = null]
       ELSE /\ array' = Assigned(a, other)
            /\ UNCHANGED op
  /\ UNCHANGED <<block_size, link, lists, global_lock, closed>>

-----------------------------------------------------------------------------
(* The Array gets its block. *)
Obtain(w, p) ==
  /\ array' = [array EXCEPT ![op[w].for].data = p]
  /\ op' = [op EXCEPT ![w] = Outside]

(* allocate: the worker's own list, else the global one if it is unlocked. *)
AllocateLocal(w) ==
  /\ op[w].at = "allocate"
  /\ LET p == local_cache[w][BucketOf(w)]
     IN  /\ p # null
         /\ local_cache' = [local_cache EXCEPT ![w][BucketOf(w)] = link[p]]
         /\ link' = [link EXCEPT ![p] = UserData]
         /\ Obtain(w, p)
  /\ UNCHANGED <<block_size, global_cache, global_lock, closed>>

AllocateTryLock(w) ==
  /\ op[w].at = "allocate"
  /\ local_cache[w][BucketOf(w)] = null
  /\ IF BucketOf(w) >= Threshold2 /\ TryLock
       THEN Goto(w, "pop") /\ global_lock' = TRUE
       ELSE Goto(w, "new") /\ UNCHANGED global_lock
  /\ UNCHANGED <<block_size, link, lists, array, closed>>

(* Under the lock: read the head of the global list, and advance it. *)
GlobalRead(w) ==
  /\ op[w].at = "pop"
  /\ LET p == global_cache[BucketOf(w)]
     IN  op' = [op EXCEPT ![w].at = IF p = null THEN "unlock" ELSE "take", ![w].block = p]
  /\ UNCHANGED <<block_size, link, lists, global_lock, array, closed>>

GlobalTake(w) ==
  /\ op[w].at = "take"
  /\ global_cache' = [global_cache EXCEPT ![BucketOf(w)] = link[op[w].block]]
  /\ link' = [link EXCEPT ![op[w].block] = UserData]
  /\ Goto(w, "unlock")
  /\ UNCHANGED <<block_size, local_cache, global_lock, array, closed>>

(* operator new of the size of the bucket. *)
New(w) ==
  /\ op[w].at = "new"
  /\ \E p \in Blocks :
       /\ block_size[p] = 0
       /\ block_size' = [block_size EXCEPT ![p] = 2 ^ BucketOf(w)]
       /\ Obtain(w, p)
  /\ UNCHANGED <<link, lists, global_lock, closed>>

(* deallocate: a small block, or the first large one, stays with the worker. *)
DeallocateLocal(w) ==
  /\ op[w].at = "deallocate"
  /\ LET b == BucketOf(w)
         p == op[w].block
     IN  /\ Keeps(w)
         /\ link' = [link EXCEPT ![p] = local_cache[w][b]]
         /\ local_cache' = [local_cache EXCEPT ![w][b] = p]
  /\ Finish(w)
  /\ UNCHANGED <<block_size, global_cache, global_lock, closed>>

DeallocateTryLock(w) ==
  /\ op[w].at = "deallocate"
  /\ ~ Keeps(w) /\ TryLock
  /\ Goto(w, "link") /\ global_lock' = TRUE
  /\ UNCHANGED <<block_size, link, lists, array, closed>>

(* deallocate: operator delete, when another worker has the lock. *)
Delete(w) ==
  /\ op[w].at = "deallocate"
  /\ ~ Keeps(w) /\ ~ TryLock
  /\ block_size' = [block_size EXCEPT ![op[w].block] = 0]
  /\ Finish(w)
  /\ UNCHANGED <<link, lists, global_lock, closed>>

(* Under the lock: link the block to the head of the global list, and *)
(* make it the head. *)
GlobalLink(w) ==
  /\ op[w].at = "link"
  /\ link' = [link EXCEPT ![op[w].block] = global_cache[BucketOf(w)]]
  /\ Goto(w, "push")
  /\ UNCHANGED <<block_size, lists, global_lock, array, closed>>

GlobalPush(w) ==
  /\ op[w].at = "push"
  /\ global_cache' = [global_cache EXCEPT ![BucketOf(w)] = op[w].block]
  /\ op' = [op EXCEPT ![w].at = "pushed", ![w].block = null]
  /\ UNCHANGED <<block_size, link, local_cache, global_lock, array, closed>>

(* unlock_global; an allocation then has its block or asks the system. *)
Unlock(w) ==
  /\ op[w].at \in {"unlock", "pushed"}
  /\ global_lock' = FALSE
  /\ IF op[w].at = "pushed" THEN Finish(w)
     ELSE IF op[w].block # null THEN Obtain(w, op[w].block)
     ELSE Goto(w, "new") /\ UNCHANGED array
  /\ UNCHANGED <<block_size, link, lists, closed>>

-----------------------------------------------------------------------------
(***************************************************************************)
(* The blocks of the list with this head: the least set that has the head  *)
(* and what its blocks link to.                                            *)
(***************************************************************************)
Follows(S, head) ==
  /\ head \in Blocks => head \in S
  /\ \A q \in S : link[q] \in Blocks => link[q] \in S

Listed(head) == {p \in Blocks : \A S \in SUBSET Blocks : Follows(S, head) => p \in S}

(* Bug: only the lists of the workers. *)
CachedLocally == UNION {Listed(local_cache[w][b]) : w \in Workers, b \in Buckets}

Cached ==
  (UNION {Listed(local_cache[w][b]) : w \in Workers, b \in Buckets})
    \cup (UNION {Listed(global_cache[b]) : b \in Large})

(* ~Pool, at the exit of the program: every list is followed and freed. *)
Close ==
  /\ ~ closed
  /\ \A a \in Arrays : ~ array[a].alive
  /\ \A w \in Workers : op[w] = Outside
  /\ closed' = TRUE
  /\ block_size' = [p \in Blocks |-> IF p \in Cached THEN 0 ELSE block_size[p]]
  /\ UNCHANGED <<link, lists, global_lock, array, op>>

Closed == closed /\ UNCHANGED pool_vars

Allocate(w) ==
  AllocateLocal(w) \/ AllocateTryLock(w) \/ GlobalRead(w) \/ GlobalTake(w) \/ New(w)
Deallocate(w) ==
  DeallocateLocal(w) \/ DeallocateTryLock(w) \/ GlobalLink(w) \/ GlobalPush(w) \/ Delete(w)

PoolNext ==
  \/ Close
  \/ Closed
  \/ \E w \in Workers :
       \/ Allocate(w)
       \/ Deallocate(w)
       \/ Unlock(w)
       \/ \E a \in Arrays :
            \/ \E bytes \in 0..MaxBytes : Construct(w, a, bytes)
            \/ \E other \in Arrays \ {a} : MoveConstruct(w, a, other)
            \/ \E other \in Arrays \cup {null} : Release(w, a, other)

PoolSpec == PoolInit /\ [][PoolNext]_pool_vars

-----------------------------------------------------------------------------
PoolTypeOK ==
  /\ block_size \in [Blocks -> {0} \cup {2 ^ b : b \in Buckets}]
  /\ link \in [Blocks -> Pointer \cup {UserData}]
  /\ local_cache \in [Workers -> [Buckets -> Pointer]]
  /\ global_cache \in [Large -> Pointer]
  /\ global_lock \in BOOLEAN
  /\ array \in [Arrays -> [alive : BOOLEAN, data : Pointer, size : 0..MaxBytes]]
  /\ op \in [Workers -> [at : CallPlaces, for : Arrays \cup {null}, block : Pointer,
                         bytes : 0..MaxBytes, from : Arrays \cup {null}]]
  /\ closed \in BOOLEAN

(***************************************************************************)
(* Everything that refers to a block, and where it points: the Arrays, the *)
(* workers on their way between an Array and a list, the heads of lists,   *)
(* and the links of the blocks in lists.  A worker that takes a block has  *)
(* not got it before the head is advanced; one that pushes a block has     *)
(* linked it already.                                                      *)
(***************************************************************************)
Referrers ==
  {<<"array", a>> : a \in Arrays} \cup {<<"worker", w>> : w \in Workers}
    \cup {<<"local", <<w, b>> >> : w \in Workers, b \in Buckets}
    \cup {<<"global", b>> : b \in Large} \cup {<<"link", p>> : p \in Blocks}

IsPushed(p) == \E w \in Workers : op[w].at = "push" /\ op[w].block = p

PointsTo(r) ==
  CASE r[1] = "array"  -> array[r[2]].data
    [] r[1] = "worker" -> IF op[r[2]].at = "take" THEN null ELSE op[r[2]].block
    [] r[1] = "local"  -> local_cache[r[2][1]][r[2][2]]
    [] r[1] = "global" -> global_cache[r[2]]
    [] r[1] = "link"   -> IF link[r[2]] \in Blocks /\ ~ IsPushed(r[2]) THEN link[r[2]] ELSE null

(***************************************************************************)
(* Every block the system has given out is referred to exactly once: by    *)
(* one Array, one list, or one worker on its way between them, and the     *)
(* others not at all.  So no block is used twice and none is leaked.       *)
(***************************************************************************)
BlocksHaveOneOwner ==
  \/ closed
  \/ \A p \in Blocks :
       Cardinality({r \in Referrers : PointsTo(r) = p}) = IF block_size[p] = 0 THEN 0 ELSE 1

(***************************************************************************)
(* Links never go in circles: any blocks begin with one that none of them  *)
(* links to.  So every block that is linked to is in the list of a head.   *)
(***************************************************************************)
ListsHaveHeads ==
  \A S \in SUBSET Blocks :
    S # {} => \E p \in S : \A q \in S : PointsTo(<<"link", q>>) # p

(***************************************************************************)
(* The first word of a block is a link as long as the block is in a list,  *)
(* or about to be pushed, and no list runs through a block in use.         *)
(***************************************************************************)
InUse(p) ==
  \/ \E a \in Arrays : array[a].data = p
  \/ \E w \in Workers : op[w].block = p /\ op[w].at \notin {"take", "push"}

LinksAreKept ==
  \/ closed
  \/ \A p \in Blocks : link[p] = UserData <=> block_size[p] = 0 \/ InUse(p)

(***************************************************************************)
(* A block is as large as its Array needs and is cached in the bucket it   *)
(* was allocated for, whoever frees it: reuse never gives a smaller one.   *)
(***************************************************************************)
BlocksFit ==
  \/ closed
  \/ /\ \A a \in Arrays :
          array[a].data # null => block_size[array[a].data] >= array[a].size
     /\ \A w \in Workers, b \in Buckets :
          \A p \in Listed(local_cache[w][b]) : block_size[p] = 2 ^ b
     /\ \A b \in Large : \A p \in Listed(global_cache[b]) : block_size[p] = 2 ^ b

(* A worker keeps at most one free block of each large bucket to itself. *)
LargeBlocksAreShared ==
  \A w \in Workers : \A b \in Large : Cardinality(Listed(local_cache[w][b])) <= 1

(***************************************************************************)
(* The lock is held by the one worker that is inside and by nobody else;   *)
(* a worker that failed to get it never unlocks it for the others.         *)
(***************************************************************************)
Locked(w) == op[w].at \in {"pop", "take", "unlock", "link", "push", "pushed"}

LockHasOneHolder ==
  Cardinality({w \in Workers : Locked(w)}) = IF global_lock THEN 1 ELSE 0

(***************************************************************************)
(* Each call works for Arrays of its own, which nobody uses meanwhile.     *)
(***************************************************************************)
Allocating   == {"allocate", "pop", "take", "unlock", "new"}
WithBlock    == {"take", "deallocate", "link", "push"}
WithoutBlock == {"allocate", "pop", "new", "pushed"}

HasItsArrays(w) ==
  /\ op[w].for \in Arrays /\ array[op[w].for].alive /\ array[op[w].for].data = null
  /\ op[w].from # null => op[w].from # op[w].for /\ array[op[w].from].alive
  /\ op[w].bytes # 0
  /\ op[w].at \in Allocating => op[w].from = null /\ array[op[w].for].size = op[w].bytes
  /\ op[w].at \in WithBlock => op[w].block # null
  /\ op[w].at \in WithoutBlock => op[w].block = null

CallsAreApart ==
  /\ \A w \in Workers : IF op[w].at = "user" THEN op[w] = Outside ELSE HasItsArrays(w)
  /\ \A w, u \in Workers :
       w # u => {op[w].for, op[w].from} \cap {op[u].for, op[u].from} \subseteq {null}
  /\ \A a \in Arrays : IF array[a].alive THEN array[a].data # null => array[a].size # 0
                       ELSE array[a].data = null
  /\ closed => \A w \in Workers : op[w] = Outside

(* Under the lock the head of the global list stays what was read of it. *)
HeadsStay ==
  \A w \in Workers :
    /\ Locked(w) => BucketOf(w) \in Large
    /\ op[w].at = "take" => global_cache[BucketOf(w)] = op[w].block
    /\ op[w].at = "push" => link[op[w].block] = global_cache[BucketOf(w)]

PoolInvariant ==
  /\ PoolTypeOK
  /\ CallsAreApart
  /\ HeadsStay
  /\ BlocksHaveOneOwner
  /\ ListsHaveHeads
  /\ LinksAreKept
  /\ BlocksFit
  /\ LockHasOneHolder
  /\ LargeBlocksAreShared

(* After ~Pool the system has all its blocks back. *)
EverythingIsReturned == closed => \A p \in Blocks : block_size[p] = 0

=============================================================================
