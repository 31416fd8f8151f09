-------------------------------- MODULE M61 --------------------------------
(***************************************************************************)
(* The m61 debugging allocator (src/pset1/m61.c), driven by a client that *)
(* calls m61_malloc, m61_free, m61_realloc and m61_calloc in any order,    *)
(* on any pointer m61 ever returned (so double frees are included).        *)
(*                                                                         *)
(* Each block is one chunk of the system allocator, identified by its      *)
(* address; the m61_meta record at the front of the chunk is meta[a]. It   *)
(* keeps the bytes m61 last wrote there after the chunk is given back, and *)
(* is overwritten when the system allocator hands the chunk out again.     *)
(* The active blocks form a list linked by prev (towards older blocks) and *)
(* next, whose newest element is root.                                     *)
(*                                                                         *)
(* size_t has W bits and int IW bits; every size is reduced modulo 2^W as *)
(* the C arithmetic does.  OVERHEAD is pad + sizeof(m61_meta) +            *)
(* sizeof(m61_foot).  Every call is made at one of a few source sites     *)
(* (file, line); fill_heavy files each allocation under its site in the    *)
(* heavy-hitter hash table, with hash() computed on 32-bit words.  The     *)
(* messages are left out.                                                  *)
(***************************************************************************)
EXTENDS Naturals, FiniteSets, Sequences, FiniteSetsExt, Bitwise, TLC

CONSTANTS
    Addrs,          \* chunk addresses the system malloc may return (> 0)
    W,              \* bits of size_t
    IW,             \* bits of int
    OVERHEAD,       \* pad + sizeof(m61_meta) + sizeof(m61_foot)
    Sizes,          \* sizes the client asks m61_malloc / m61_realloc for
    CallocArgs,     \* <<nmemb, sz>> pairs the client passes to m61_calloc
    Sites,          \* <<file, line>> of the calls: file is the low 32 bits
                    \* of the __FILE__ pointer as a word (W32), line < 2^16
    TableSize,      \* table_size
    MaxOps          \* bound on the number of calls

ASSUME /\ Addrs \subseteq Nat \ {0}
       /\ W \in Nat \ {0} /\ IW \in 1 .. W
       /\ Sizes \subseteq 0 .. 2^W - 1
       /\ CallocArgs \subseteq (0 .. 2^W - 1) \X (0 .. 2^W - 1)
       /\ TableSize \in Nat \ {0}

NULL == 0
SIZE_MAX1 == 2^W               \* size_t arithmetic is modulo SIZE_MAX + 1

\* (int) sz < 0: the low IW bits of sz, read as a two's-complement int
IntNegative(sz) == sz % 2^IW >= 2^(IW - 1)

\* struct m61_statistics; the heap_min / heap_max fields are left out: no
\* statement reads them, and the updates in m61_free (lines 251-256) never
\* fire because pad is 0, so meta is the chunk's start.
Stats == [nactive : Nat, ntotal : Nat, nfail : Nat,
          active_size : Nat, total_size : Nat, fail_size : Nat]

MetaRec == [size : 0 .. SIZE_MAX1 - 1, is_active : BOOLEAN,
            prev : Addrs \cup {NULL}, next : Addrs \cup {NULL}]

-----------------------------------------------------------------------------
(* hash(key) (hash32shiftmult) on 32-bit ints.  TLC's integers are 32-bit *)
(* signed, so a word is kept as two 16-bit halves and every intermediate   *)
(* stays below 2^31.  Signed overflow in key + (key << 3) and key * c2 is  *)
(* undefined in C; gcc compiles both to wrapping lea/imul, modelled here.  *)
(* >> on an int is gcc's arithmetic shift.                                 *)
H16 == 2^16
W32(hi, lo) == [hi |-> hi, lo |-> lo]
IsNeg(a) == a.hi >= 2^15
XorW(a, b) == W32(a.hi ^^ b.hi, a.lo ^^ b.lo)
AddW(a, b) == W32((a.hi + b.hi + (a.lo + b.lo) \div H16) % H16, (a.lo + b.lo) % H16)
Shl(a, n) == W32((a.hi * 2^n + a.lo \div 2^(16 - n)) % H16, (a.lo * 2^n) % H16)
Sar(a, n) ==
    IF n >= 16
    THEN W32(IF IsNeg(a) THEN H16 - 1 ELSE 0,
             a.hi \div 2^(n - 16) + (IF IsNeg(a) THEN H16 - 2^(32 - n) ELSE 0))
    ELSE W32(a.hi \div 2^n + (IF IsNeg(a) THEN H16 - 2^(16 - n) ELSE 0),
             a.lo \div 2^n + (a.hi % 2^n) * 2^(16 - n))
\* the low 16 bits of x * y, for x, y < 2^16, without a product >= 2^31
MulLo(x, y) == (x * (y % 256) + ((x * (y \div 256)) % 256) * 256) % H16
MulW(a, b) ==
    LET p0 == a.lo * (b.lo % 256)
        p1 == a.lo * (b.lo \div 256)
        lo == p0 + (p1 % 256) * 256
    IN  W32((lo \div H16 + p1 \div 256 + MulLo(a.hi, b.lo) + MulLo(b.hi, a.lo)) % H16,
            lo % H16)

hash(key) ==
    LET c2 == W32(10196, 60205)            \* 0x27d4eb2d
        k1 == XorW(XorW(key, W32(0, 61)), Sar(key, 16))
        k2 == AddW(k1, Shl(k1, 3))
        k3 == XorW(k2, Sar(k2, 4))
        k4 == MulW(k3, c2)
    IN  XorW(k4, Sar(k4, 15))

\* C's int % n (n > 0), which takes the sign of the dividend
CRem(w, n) ==
    LET low == ((w.hi % 2^15) * (H16 % n) + w.lo) % n
        r   == (low - ((2 * (2^30 % n)) % n)) % n
    IN  IF ~IsNeg(w) THEN low ELSE IF r = 0 THEN 0 ELSE r - n

\* fill_heavy: key = (int) meta->file + meta->line; index = hash(key) % table_size
Bucket(site) == CRem(hash(AddW(site[1], W32(0, site[2]))), TableSize)
SiteBucket == [site \in Sites |-> Bucket(site)]

HeavyRec == [site : Sites, size : 0 .. SIZE_MAX1 - 1, allocs : Nat]

-----------------------------------------------------------------------------
VARIABLES
    meta,          \* meta[a]: the m61_meta bytes at the front of chunk a
    root,          \* the newest active block
    heap,          \* chunks the system malloc has handed out and not freed
    total_stats,
    returned,      \* every pointer m61 has returned to the client
    ops,           \* calls made so far
    hash_table,    \* the non-NULL buckets: each a chain of heavy_stats
    allocs_at      \* allocs_at[site]: blocks m61_malloc handed out there

vars == <<meta, root, heap, total_stats, returned, ops, hash_table, allocs_at>>

\* The allocator's state as one record, so that realloc and calloc can
\* apply m61_malloc and m61_free to it in sequence
Cur == [meta |-> meta, root |-> root, heap |-> heap, stats |-> total_stats,
        heavy |-> hash_table]

Apply(s) ==
    /\ meta' = s.meta
    /\ root' = s.root
    /\ heap' = s.heap
    /\ total_stats' = s.stats
    /\ hash_table' = s.heavy

Init ==
    /\ meta = [a \in Addrs |-> [size |-> 0, is_active |-> FALSE,
                                prev |-> NULL, next |-> NULL]]
    /\ root = NULL
    /\ heap = {}
    /\ total_stats = [nactive |-> 0, ntotal |-> 0, nfail |-> 0,
                      active_size |-> 0, total_size |-> 0, fail_size |-> 0]
    /\ returned = {}
    /\ ops = 0
    /\ hash_table = << >>
    /\ allocs_at = [site \in Sites |-> 0]

-----------------------------------------------------------------------------
(* m61_printleakreport: the blocks met walking from root along prev.  The *)
(* walk is cut after k steps, leaving the marker -1, so that a cycle in   *)
(* the list is seen instead of looping.                                   *)
RECURSIVE Walk(_, _)
Walk(node, k) ==
    IF node = NULL THEN << >>
    ELSE IF k = 0 THEN << -1 >>
    ELSE << node >> \o Walk(meta[node].prev, k - 1)

LeakReport == Walk(root, Cardinality(Addrs))

\* A failed allocation of sz bytes is counted
Fail(s, sz) ==
    [s EXCEPT !.stats.nfail = @ + 1, !.stats.fail_size = @ + sz]

\* Mutant: a new entry appended to a chain starts at 1 before its ++
fill_heavy_chain_counts_twice(tbl, site, sz) ==
    LET b     == SiteBucket[site]
        found == {i \in DOMAIN tbl[b] : tbl[b][i].site = site}
    IN  IF b \notin DOMAIN tbl
        THEN b :> << [site |-> site, size |-> sz, allocs |-> 1] >> @@ tbl
        ELSE IF found = {}
        THEN [tbl EXCEPT ![b] = Append(@, [site |-> site, size |-> sz, allocs |-> 1 + 1])]
        ELSE [tbl EXCEPT ![b][Min(found)].allocs = @ + 1]

\* fill_heavy(meta): an empty bucket gets a new head with allocs 1;
\* otherwise the chain is walked to the entry of the same file and line,
\* and a new entry (allocs = 0) is appended at its end if there is none;
\* the entry's allocs is then incremented.
fill_heavy(tbl, site, sz) ==
    LET b     == SiteBucket[site]
        found == {i \in DOMAIN tbl[b] : tbl[b][i].site = site}
    IN  IF b \notin DOMAIN tbl
        THEN b :> << [site |-> site, size |-> sz, allocs |-> 1] >> @@ tbl
        ELSE IF found = {}
        THEN [tbl EXCEPT ![b] = Append(@, [site |-> site, size |-> sz, allocs |-> 0 + 1])]
        ELSE [tbl EXCEPT ![b][Min(found)].allocs = @ + 1]

\* Mutant: the statistics count the block before the size checks
m61_malloc_counts_early(s, sz, a, site) ==
    LET new_sz == (sz + OVERHEAD) % SIZE_MAX1
        counted == [s EXCEPT !.stats.active_size = @ + sz]
        linked ==
            [counted EXCEPT
               !.meta = [s.meta EXCEPT
                           ![a] = [size |-> sz, is_active |-> TRUE,
                                   prev |-> s.root, next |-> NULL],
                           ![s.root] = IF s.root = NULL THEN @
                                       ELSE [@ EXCEPT !.next = a]],
               !.root = a,
               !.heap = @ \cup {a},
               !.stats.ntotal = @ + 1, !.stats.nactive = @ + 1,
               !.stats.total_size = @ + sz,
               !.heavy = fill_heavy(@, site, sz)]
    IN  IF new_sz < sz \/ IntNegative(sz) \/ a = NULL
        THEN [s |-> Fail(counted, sz), ret |-> NULL]
        ELSE [s |-> linked, ret |-> a]

\* m61_malloc(sz): a is the chunk the system malloc returns, NULL if it
\* fails.  The result is [s |-> new state, ret |-> returned pointer].
m61_malloc(s, sz, a, site) ==
    LET new_sz == (sz + OVERHEAD) % SIZE_MAX1
        linked ==
            [s EXCEPT
               !.meta = [s.meta EXCEPT
                           ![a] = [size |-> sz, is_active |-> TRUE,
                                   prev |-> s.root, next |-> NULL],
                           ![s.root] = IF s.root = NULL THEN @
                                       ELSE [@ EXCEPT !.next = a]],
               !.root = a,
               !.heap = @ \cup {a},
               !.stats.ntotal = @ + 1, !.stats.nactive = @ + 1,
               !.stats.total_size = @ + sz, !.stats.active_size = @ + sz,
               !.heavy = fill_heavy(@, site, sz)]
    IN  IF new_sz < sz \/ IntNegative(sz) \/ a = NULL
        THEN [s |-> Fail(s, sz), ret |-> NULL]
        ELSE [s |-> linked, ret |-> a]

\* Mutant: m61_free without the is_active test, so a double free goes on
\* to unlink the stale meta again
m61_free_no_active_check(s, ptr) ==
    LET m == s.meta[ptr]
        unlinked ==
            IF s.root = ptr
            THEN [s EXCEPT !.root = m.prev,
                           !.meta = IF m.prev = NULL THEN s.meta
                                    ELSE [s.meta EXCEPT ![m.prev].next = NULL]]
            ELSE [s EXCEPT !.meta =
                    [a \in Addrs |->
                       IF a = m.next /\ m.next # NULL THEN [s.meta[a] EXCEPT !.prev = m.prev]
                       ELSE IF a = m.prev /\ m.prev # NULL THEN [s.meta[a] EXCEPT !.next = m.next]
                       ELSE s.meta[a]]]
    IN  IF m.prev # NULL /\ s.meta[m.prev].next # ptr
        THEN s
        ELSE [unlinked EXCEPT
                !.meta[ptr].is_active = FALSE,
                !.stats.nactive = @ - 1,
                !.stats.active_size = @ - m.size,
                !.heap = @ \ {ptr}]

\* Mutant: freeing the root does not clear its predecessor's next
m61_free_root_keeps_next(s, ptr) ==
    LET m == s.meta[ptr]
        unlinked ==
            IF s.root = ptr
            THEN [s EXCEPT !.root = m.prev]
            ELSE [s EXCEPT !.meta =
                    [a \in Addrs |->
                       IF a = m.next /\ m.next # NULL THEN [s.meta[a] EXCEPT !.prev = m.prev]
                       ELSE IF a = m.prev /\ m.prev # NULL THEN [s.meta[a] EXCEPT !.next = m.next]
                       ELSE s.meta[a]]]
    IN  IF ~m.is_active
        THEN s
        ELSE IF m.prev # NULL /\ s.meta[m.prev].next # ptr
        THEN s
        ELSE [unlinked EXCEPT
                !.meta[ptr].is_active = FALSE,
                !.stats.nactive = @ - 1,
                !.stats.active_size = @ - m.size,
                !.heap = @ \ {ptr}]

\* m61_free(ptr) for a pointer m61 returned: a block whose meta says it is
\* not active is reported and left alone; so is one
\* whose predecessor does not point back to it; otherwise it is unlinked,
\* counted out and handed back to the system.
m61_free(s, ptr) ==
    LET m == s.meta[ptr]
        unlinkRoot ==
            [s EXCEPT !.root = m.prev,
                      !.meta = IF m.prev = NULL THEN s.meta
                               ELSE [s.meta EXCEPT ![m.prev].next = NULL]]
        unlinkInner ==
            [s EXCEPT !.meta =
                [a \in Addrs |->
                   IF a = m.next /\ m.next # NULL THEN [s.meta[a] EXCEPT !.prev = m.prev]
                   ELSE IF a = m.prev /\ m.prev # NULL THEN [s.meta[a] EXCEPT !.next = m.next]
                   ELSE s.meta[a]]]
        unlinked == IF s.root = ptr THEN unlinkRoot ELSE unlinkInner
    IN  IF ~m.is_active
        THEN s    \* reported, with find_meta's block if it finds one
        ELSE IF m.prev # NULL /\ s.meta[m.prev].next # ptr
        THEN s
        ELSE [unlinked EXCEPT
                !.meta[ptr].is_active = FALSE,
                !.stats.nactive = @ - 1,
                !.stats.active_size = @ - m.size,
                !.heap = @ \ {ptr}]

\* m61_realloc(ptr, sz): a new block when sz # 0, then the old one freed,
\* whether or not the new allocation succeeded
m61_realloc(s, ptr, sz, a, site) ==
    LET r == IF sz # 0 THEN m61_malloc(s, sz, a, site) ELSE [s |-> s, ret |-> NULL]
    IN  [s |-> IF ptr # NULL THEN m61_free(r.s, ptr) ELSE r.s, ret |-> r.ret]

\* m61_calloc(nmemb, sz): allocate nmemb * sz bytes (modulo SIZE_MAX + 1)
\* if the product is at least nmemb; on NULL, count one more failure
m61_calloc(s, nmemb, sz, a, site) ==
    LET prod == (nmemb * sz) % SIZE_MAX1
        r    == IF prod >= nmemb THEN m61_malloc(s, prod, a, site)
                ELSE [s |-> s, ret |-> NULL]
    IN  IF r.ret = NULL THEN [r EXCEPT !.s = Fail(r.s, prod)] ELSE r

-----------------------------------------------------------------------------
(* The client's calls.  a ranges over the system malloc's possible        *)
(* results: a chunk not handed out, or NULL.                               *)

SysResults == (Addrs \ heap) \cup {NULL}

\* The client keeps what it gets; a non-NULL result is a block allocated
\* at site
Return(r, site) ==
    /\ Apply(r.s)
    /\ returned' = IF r.ret = NULL THEN returned ELSE returned \cup {r.ret}
    /\ allocs_at' = IF r.ret = NULL THEN allocs_at
                    ELSE [allocs_at EXCEPT ![site] = @ + 1]
    /\ ops' = ops + 1

Malloc(sz, a, site) ==
    /\ ops < MaxOps
    /\ a \in SysResults
    /\ Return(m61_malloc(Cur, sz, a, site), site)

\* The client frees a pointer m61 returned to it, perhaps not for the
\* first time
Free(ptr) ==
    /\ ops < MaxOps
    /\ ptr \in returned
    /\ Apply(m61_free(Cur, ptr))
    /\ ops' = ops + 1
    /\ UNCHANGED <<returned, allocs_at>>

Realloc(ptr, sz, a, site) ==
    /\ ops < MaxOps
    /\ ptr \in returned \cup {NULL}
    /\ a \in SysResults
    /\ Return(m61_realloc(Cur, ptr, sz, a, site), site)

Calloc(args, a, site) ==
    /\ ops < MaxOps
    /\ a \in SysResults
    /\ Return(m61_calloc(Cur, args[1], args[2], a, site), site)

\* The client has made all its calls
Done ==
    /\ ops = MaxOps
    /\ UNCHANGED vars

Ptrs == Addrs \cup {NULL}

Next ==
    \/ \E sz \in Sizes, a \in Ptrs, site \in Sites : Malloc(sz, a, site)
    \/ \E ptr \in Addrs : Free(ptr)
    \/ \E ptr \in Ptrs, sz \in Sizes, a \in Ptrs, site \in Sites :
           Realloc(ptr, sz, a, site)
    \/ \E args \in CallocArgs, a \in Ptrs, site \in Sites : Calloc(args, a, site)
    \/ Done

Spec == Init /\ [][Next]_vars

-----------------------------------------------------------------------------
(* Properties.                                                            *)

TypeOK ==
    /\ meta \in [Addrs -> MetaRec]
    /\ root \in Addrs \cup {NULL}
    /\ heap \subseteq Addrs
    /\ total_stats \in Stats
    /\ returned \subseteq Addrs
    /\ ops \in 0 .. MaxOps
    /\ \A b \in DOMAIN hash_table : hash_table[b] \in Seq(HeavyRec)
    /\ allocs_at \in [Sites -> Nat]

\* The leak report is exact whatever the client frees, double frees
\* included: the list walked from root by prev holds every chunk m61 holds
\* from the system once, ends, and is linked both ways, and a chunk is
\* held exactly when its meta says it is active.
LeakListExact ==
    /\ heap = {a \in Addrs : meta[a].is_active}
    /\ {LeakReport[i] : i \in DOMAIN LeakReport} = heap
    /\ Len(LeakReport) = Cardinality(heap)
    /\ \A a \in heap : meta[a].prev # NULL => meta[meta[a].prev].next = a
    /\ root # NULL => meta[root].next = NULL

\* The statistics m61_getstatistics reports agree with the active blocks:
\* nactive counts them and active_size adds up their sizes.
StatsMatch ==
    /\ total_stats.nactive = Cardinality(heap)
    /\ total_stats.active_size = MapThenSumSet(LAMBDA a : meta[a].size, heap)
    /\ total_stats.nactive <= total_stats.ntotal

\* The heavy-hitter table (fill_heavy, called at line 191) counts every
\* block m61_malloc hands out, directly or for m61_realloc or m61_calloc,
\* under the file and line that asked for it: the bucket hash() % table_size
\* picks is an index of hash_table (hash never returns a negative int), and
\* each site has one entry, found in its bucket's chain also when another
\* site's entry got there first, whose allocs is the number of blocks
\* allocated there.
HeavyCountsExact ==
    /\ DOMAIN hash_table \subseteq 0 .. TableSize - 1
    /\ \A site \in Sites :
         LET at == {e \in UNION {{<<b, i>> : i \in DOMAIN hash_table[b]} :
                                  b \in DOMAIN hash_table} :
                      hash_table[e[1]][e[2]].site = site}
         IN  /\ Cardinality(at) = IF allocs_at[site] = 0 THEN 0 ELSE 1
             /\ \A e \in at : hash_table[e[1]][e[2]].allocs = allocs_at[site]

=============================================================================
