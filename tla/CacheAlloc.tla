----------------------------- MODULE CacheAlloc -----------------------------
(***************************************************************************)
(* The block cache, utils/cache_alloc.c: `capacity` elements of one size   *)
(* on a free list, malloc behind it.  A cache is its free list.            *)
(***************************************************************************)
EXTENDS Naturals, Sequences

CONSTANTS
  WBUF_CACHE_CAPCITY,  \* 1024 elements
  CMD_CACHE_SIZE       \* of 1024 bytes

ASSUME CacheConstantsOK == WBUF_CACHE_CAPCITY \in Nat /\ CMD_CACHE_SIZE \in Nat

\* A block that is not of the cache: malloc and free look after it.
Heap == 0

create_cache_allocer == [i \in 1 .. WBUF_CACHE_CAPCITY |-> WBUF_CACHE_CAPCITY + 1 - i]

cache_alloc(free_list, size) ==
  IF size <= CMD_CACHE_SIZE /\ free_list # <<>>
  THEN [mem |-> Head(free_list), rest |-> Tail(free_list)]
  ELSE [mem |-> Heap, rest |-> free_list]

cache_free_all(free_list, mem) ==  \* fault: does not look where the block is from
  <<mem>> \o free_list

cache_free(free_list, mem) ==
  IF mem # Heap THEN <<mem>> \o free_list ELSE free_list
=============================================================================
