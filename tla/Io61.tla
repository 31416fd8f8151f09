-------------------------------- MODULE Io61 --------------------------------
(***************************************************************************)
(* The io61 cache (src/pset3/io61.c) for one open io61_file: a regular     *)
(* file read through mmap, a pipe read with read(), or a regular file      *)
(* written with write().  The file holds NUM_CACHE cache slots of          *)
(* BUFFER_SIZE bytes; reads fill slots with fill_new_cache, evicting the   *)
(* oldest, and io61_seek looks slots up with find_cache_offset; writes go  *)
(* through slot 0 and io61_flush.                                          *)
(*                                                                         *)
(* Each call is one atomic step (the library is single-threaded); its     *)
(* loops and recursive calls are evaluated inside the step by the         *)
(* operators below, which take the file's state as a record and return    *)
(* the new record and the call's result.  size_t has W bits.  Data is     *)
(* abstracted as in Io61File: byte i of the input is i, the k-th byte the *)
(* caller writes is k, and a byte read from beyond the caller's buffer is *)
(* JUNK.  A pipe's read() returns any count from 1 up to what was asked   *)
(* and is available; the counts of one call are the sequence chunks.      *)
(***************************************************************************)
EXTENDS Io61Data, Integers

CONSTANTS
    LEN, Kinds, ReadSizes, WriteSizes, SeekTargets, MaxOps,
    BUFFER_SIZE,    \* bytes per cache slot
    NUM_CACHE,      \* cache slots per file
    W,              \* bits of size_t
    WriteSeekTargets \* pos arguments of io61_seek on a written file

ASSUME /\ BUFFER_SIZE \in Nat \ {0} /\ NUM_CACHE \in Nat \ {0}
       /\ LEN < 2^(W - 1)

JUNK == -2
CRASH == -3     \* the call never returns: it runs off the caller's buffer

U(x) == x % 2^W                 \* a size_t value
Slots == 0 .. NUM_CACHE - 1
Buf == 1 .. BUFFER_SIZE
SlotRec == [is_active : BOOLEAN, pos : Nat, offset : Nat, buff_size : Nat,
            created_count : Nat, buf : [Buf -> Int]]

\* The longest call: a read of the largest size, one byte per read()
MaxFills == Max(ReadSizes \cup {0}) + 2
Chunks == [1 .. MaxFills -> 1 .. BUFFER_SIZE]
NoChunks == [i \in 1 .. MaxFills |-> BUFFER_SIZE]

VARIABLES
    kind,
    cache,          \* cache[i]: cache slot i
    curr_cache,     \* index of the current slot, -1 before the first fill
    cache_count,
    fdpos,          \* the descriptor's offset: bytes taken from the pipe,
                    \* or where the next write() of a written file goes
    disk,           \* contents of the file being written, on disk
    sent, call, ret, closed, ops

vars == <<kind, cache, curr_cache, cache_count, fdpos, disk, sent, call, ret,
          closed, ops>>

Cur == [kind |-> kind, cache |-> cache, curr |-> curr_cache,
        count |-> cache_count, fdpos |-> fdpos, disk |-> disk,
        chunks |-> << >>]

-----------------------------------------------------------------------------
(* get_free_cache: the first inactive slot, marked active, or else the    *)
(* active slot with the lowest created_count (the first one on a tie).    *)
get_free_cache(s) ==
    LET inactive == {i \in Slots : ~s.cache[i].is_active}
        oldest == CHOOSE i \in Slots :
                     \A j \in Slots :
                        \/ s.cache[i].created_count < s.cache[j].created_count
                        \/ s.cache[i].created_count = s.cache[j].created_count
                           /\ i <= j
        i == IF inactive # {} THEN Min(inactive) ELSE oldest
    IN  [s |-> [s EXCEPT !.cache[i].is_active = TRUE], i |-> i]

\* Mutant: a pipe's read() taken to fill the whole request
Fetch_full_read(s, i, offset) ==
    IF s.kind = ReadPipe
    THEN LET ask == IF s.chunks = << >> THEN BUFFER_SIZE ELSE Head(s.chunks)
             got == Min({ask, LEN - s.fdpos})
             n == Min({BUFFER_SIZE, LEN - s.fdpos})
         IN  [n |-> n, fdpos |-> s.fdpos + got,
              chunks |-> IF s.chunks = << >> THEN << >> ELSE Tail(s.chunks),
              buf |-> [k \in Buf |-> IF k <= got THEN s.fdpos + k - 1
                                     ELSE s.cache[i].buf[k]]]
    ELSE LET left == U(LEN - offset)
         IN  [n |-> IF left < BUFFER_SIZE THEN left ELSE BUFFER_SIZE,
              fdpos |-> s.fdpos, chunks |-> s.chunks,
              buf |-> [k \in Buf |-> offset + k - 1]]

\* What read() or the mmap'd file gives fill_new_cache(f, offset): the
\* count chars_read and the bytes placed in slot i.
Fetch(s, i, offset) ==
    IF s.kind = ReadPipe
    THEN LET ask == IF s.chunks = << >> THEN BUFFER_SIZE ELSE Head(s.chunks)
             n == Min({ask, LEN - s.fdpos})
         IN  [n |-> n, fdpos |-> s.fdpos + n,
              chunks |-> IF s.chunks = << >> THEN << >> ELSE Tail(s.chunks),
              buf |-> [k \in Buf |-> IF k <= n THEN s.fdpos + k - 1
                                     ELSE s.cache[i].buf[k]]]
    ELSE LET left == U(LEN - offset)
         IN  [n |-> IF left < BUFFER_SIZE THEN left ELSE BUFFER_SIZE,
              fdpos |-> s.fdpos, chunks |-> s.chunks,
              buf |-> [k \in Buf |-> offset + k - 1]]

\* fill_new_cache(f, offset): [s |-> new state, ok |-> FALSE for NULL]
fill_new_cache(s, offset) ==
    LET g == get_free_cache(s)
        i == g.i
        r == Fetch(g.s, i, offset)
        t == [g.s EXCEPT !.fdpos = r.fdpos, !.chunks = r.chunks]
    IN  IF r.n = 0
        THEN [s |-> [t EXCEPT !.cache[i].is_active = FALSE], ok |-> FALSE]
        ELSE [s |-> [t EXCEPT !.cache[i] = [is_active |-> TRUE, pos |-> 0,
                                            offset |-> offset,
                                            buff_size |-> r.n,
                                            created_count |-> s.count + 1,
                                            buf |-> r.buf],
                              !.count = s.count + 1,
                              !.curr = i],
              ok |-> TRUE]

\* find_cache_offset(f, offset): the first active slot holding offset
\* becomes the current one.
find_cache_offset(s, offset) ==
    LET holding == {i \in Slots : /\ s.cache[i].is_active
                                  /\ s.cache[i].offset <= offset
                                  /\ offset < s.cache[i].offset
                                              + s.cache[i].buff_size}
    IN  IF holding = {} THEN [s |-> s, found |-> FALSE]
        ELSE [s |-> [s EXCEPT !.curr = Min(holding)], found |-> TRUE]

\* io61_flush(f): on a written file, write() the first pos bytes of every
\* slot, in slot order, at the descriptor's offset.
io61_flush(s) ==
    LET RECURSIVE From(_, _)
        From(t, i) ==
            IF i = NUM_CACHE THEN t
            ELSE LET c == t.cache[i]
                 IN  From(IF c.pos > 0
                          THEN [t EXCEPT
                                  !.disk = Put(@, t.fdpos,
                                                    SubSeq(c.buf, 1, c.pos)),
                                  !.fdpos = @ + c.pos,
                                  !.cache[i].pos = 0]
                          ELSE t, i + 1)
    IN  IF s.kind # WriteFile THEN s ELSE From(s, 0)

\* The current slot of s
CurSlot(s) == s.cache[s.curr]

\* io61_readc(f): [s |-> new state, res |-> result].  The recursive call
\* after a refill happens at most once: a fresh slot is never empty.
RECURSIVE io61_readc(_)
io61_readc(s) ==
    LET f0 == IF s.curr = -1 THEN fill_new_cache(s, 0)
              ELSE [s |-> s, ok |-> TRUE]
        t == f0.s
        c == CurSlot(t)
        f1 == fill_new_cache(t, c.offset + c.pos)
    IN  IF ~f0.ok THEN [s |-> t, res |-> Result(<< >>, EOF)]
        ELSE IF c.pos < c.buff_size
        THEN [s |-> [t EXCEPT !.cache[t.curr].pos = @ + 1],
              res |-> Result(<< c.buf[c.pos + 1] >>, c.buf[c.pos + 1])]
        ELSE IF ~f1.ok THEN [s |-> f1.s, res |-> Result(<< >>, EOF)]
        ELSE io61_readc(f1.s)

\* The copy loop of io61_read (lines 250-287) from nread bytes read and
\* total_char_left = tcl on; got is every byte memcpy'd into buf, the ones
\* past buf[sz - 1] included.
RECURSIVE ReadLoop(_, _, _, _, _)
ReadLoop(s, sz, nread, tcl, got) ==
    IF nread = sz THEN [s |-> s, res |-> Result(got, nread)]
    ELSE LET tcl1 == U(tcl - nread)
             c == CurSlot(s)
             char_left == c.buff_size - c.pos
             n == IF char_left < tcl1 THEN char_left ELSE tcl1
             got1 == got \o [k \in 1 .. n |-> c.buf[c.pos + k]]
             nread1 == U(nread + n)
             t == [s EXCEPT !.cache[s.curr].pos = @ + n]
             f == fill_new_cache(t, c.offset + c.pos + n)
         IN  IF c.pos + n # c.buff_size
             THEN ReadLoop(t, sz, nread1, tcl1, got1)
             ELSE IF ~f.ok THEN [s |-> f.s, res |-> Result(got1, nread1)]
             ELSE ReadLoop(f.s, sz, nread1, tcl1, got1)

\* io61_read(f, buf, sz).  The caller sees the first sz bytes of buf.
RECURSIVE io61_read(_, _)
io61_read(s, sz) ==
    LET f0 == IF s.curr = -1 THEN fill_new_cache(s, 0)
              ELSE [s |-> s, ok |-> TRUE]
        t == f0.s
        c == CurSlot(t)
        f1 == fill_new_cache(t, c.offset + c.pos)
        r == ReadLoop(t, sz, 0, sz, << >>)
    IN  IF ~f0.ok THEN [s |-> t, res |-> Result(<< >>, 0)]
        ELSE IF c.pos < c.buff_size
        THEN [r EXCEPT !.res.bytes = SubSeq(@, 1, Min({sz, Len(@)}))]
        ELSE IF ~f1.ok THEN [s |-> f1.s, res |-> Result(<< >>, 0)]
        ELSE io61_read(f1.s, sz)

\* The first use of a written file takes slot 0 (lines 308-313)
TakeSlot0(s) ==
    IF s.curr # -1 THEN s
    ELSE [s EXCEPT !.curr = 0,
                   !.cache[0].buff_size = BUFFER_SIZE,
                   !.cache[0].pos = 0,
                   !.cache[0].is_active = TRUE]

\* io61_writec(f, ch)
RECURSIVE io61_writec(_, _)
io61_writec(s, ch) ==
    LET t == TakeSlot0(s)
        c == CurSlot(t)
    IN  IF c.pos < c.buff_size
        THEN [s |-> [t EXCEPT !.cache[t.curr].buf[c.pos + 1] = ch,
                              !.cache[t.curr].pos = @ + 1],
              res |-> Result(<< >>, 0)]
        ELSE io61_writec(io61_flush(t), ch)

\* The copy loop of io61_write (lines 356-380); byte j of the caller's
\* buffer is sent + j, and JUNK past its end.  A loop that copies past the
\* end only stops when nwritten wraps round to sz; fuel bounds it, and a
\* call that has not stopped by then never returns (CRASH).
RECURSIVE WriteLoop(_, _, _, _, _, _)
WriteLoop(s, sent0, sz, nw, tcl, fuel) ==
    IF nw = sz THEN [s |-> s, res |-> Result(<< >>, nw)]
    ELSE IF fuel = 0 THEN [s |-> s, res |-> Result(<< >>, CRASH)]
    ELSE LET tcl1 == U(tcl - nw)
             c == CurSlot(s)
             char_left == c.buff_size - c.pos
             n == IF char_left < tcl1 THEN char_left ELSE tcl1
             Src(j) == IF j <= sz THEN sent0 + j ELSE JUNK
             t == [s EXCEPT
                     !.cache[s.curr].buf =
                         [k \in Buf |-> IF k > c.pos /\ k <= c.pos + n
                                        THEN Src(nw + k - c.pos) ELSE @[k]],
                     !.cache[s.curr].pos = @ + n]
             u == IF c.pos + n = c.buff_size THEN io61_flush(t) ELSE t
         IN  WriteLoop(u, sent0, sz, U(nw + n), tcl1, fuel - 1)

\* io61_write(f, buf, sz) with the caller's next sz bytes
RECURSIVE io61_write(_, _, _)
io61_write(s, sent0, sz) ==
    LET t == TakeSlot0(s)
        c == CurSlot(t)
    IN  IF c.pos < c.buff_size
        THEN WriteLoop(t, sent0, sz, 0, sz, 2^W)
        ELSE io61_write(io61_flush(t), sent0, sz)

\* Mutant: the reverse-reading refill without the pos < BUFFER_SIZE case
SeekReverse_no_low_guard(s, pos) ==
    LET c == CurSlot(s)
        pos_diff == pos - (c.offset + c.pos - 1)
        back == find_cache_offset(s, pos + pos_diff)
    IN  IF s.curr = -1 \/ pos_diff # -1 THEN [s |-> s, ok |-> TRUE]
        ELSE IF back.found THEN [s |-> back.s, ok |-> TRUE]
        ELSE fill_new_cache(back.s, pos - BUFFER_SIZE + 1)

\* io61_seek's reverse-reading heuristic (lines 427-444): seeking to two
\* bytes before the position, with no slot holding the byte before the
\* target, fills the slot that ends at the target.  ok is FALSE when
\* io61_seek returns early.
SeekReverse(s, pos) ==
    LET c == CurSlot(s)
        pos_diff == pos - (c.offset + c.pos - 1)
        back == find_cache_offset(s, pos + pos_diff)
    IN  IF s.curr = -1 \/ pos_diff # -1 THEN [s |-> s, ok |-> TRUE]
        ELSE IF back.found THEN [s |-> back.s, ok |-> TRUE]
        ELSE fill_new_cache(back.s, IF pos < BUFFER_SIZE THEN 0
                                    ELSE pos - BUFFER_SIZE + 1)

\* Mutant: the slot holding the target is made current, but its pos is
\* left where it was
SeekTo_keeps_pos(s, pos) ==
    LET at == find_cache_offset(s, pos)
        fill == fill_new_cache(at.s, pos)
    IN  IF at.found THEN at.s ELSE fill.s

\* io61_seek, lines 446-457: the slot holding pos, filled if none does,
\* becomes current with pos at the target.
SeekTo(s, pos) ==
    LET at == find_cache_offset(s, pos)
        fill == fill_new_cache(at.s, pos)
        Set(t) == [t EXCEPT !.cache[t.curr].pos = pos - t.cache[t.curr].offset]
    IN  IF at.found THEN Set(at.s)
        ELSE IF fill.ok THEN Set(fill.s)
        ELSE fill.s

\* io61_seek(f, pos) on a regular file; lseek succeeds, so r = pos and the
\* call returns 0.  A written file is flushed after the lseek (line 459).
io61_seek(s, pos) ==
    IF s.kind = WriteFile
    THEN [s |-> io61_flush([s EXCEPT !.fdpos = pos]), res |-> Result(<< >>, 0)]
    ELSE LET h == SeekReverse(s, pos)
         IN  [s |-> IF h.ok THEN SeekTo(h.s, pos) ELSE h.s,
              res |-> Result(<< >>, 0)]

\* io61_close(f): io61_flush, then munmap, close and free
io61_close(s) == [s |-> io61_flush(s), res |-> Result(<< >>, 0)]

-----------------------------------------------------------------------------
\* io61_fdopen on a freshly zeroed heap chunk: every slot inactive
Init ==
    /\ kind \in Kinds
    /\ cache = [i \in Slots |-> [is_active |-> FALSE, pos |-> 0, offset |-> 0,
                                 buff_size |-> 0, created_count |-> 0,
                                 buf |-> [k \in Buf |-> 0]]]
    /\ curr_cache = -1
    /\ cache_count = 0
    /\ fdpos = 0
    /\ disk = << >>
    /\ sent = 0
    /\ call = <<"fdopen">>
    /\ ret = Result(<< >>, 0)
    /\ closed = FALSE
    /\ ops = 0

\* The caller makes another call: the file is open and no call hung
Call(c) == /\ ~closed /\ ret.ret # CRASH
           /\ ops < MaxOps /\ ops' = ops + 1 /\ call' = c

Apply(r) ==
    /\ cache' = r.s.cache
    /\ curr_cache' = r.s.curr
    /\ cache_count' = r.s.count
    /\ fdpos' = r.s.fdpos
    /\ disk' = r.s.disk
    /\ ret' = r.res

Reading == kind \in {ReadFile, ReadPipe}

\* The read() counts of a call: any for a pipe, none for a regular file
Counts(ch) == ch \in Chunks /\ (kind = ReadPipe \/ ch = NoChunks)

ReadC(ch) ==
    /\ Call(<<"readc">>) /\ Reading /\ Counts(ch)
    /\ Apply(io61_readc([Cur EXCEPT !.chunks = ch]))
    /\ UNCHANGED <<kind, sent, closed>>

Read(sz, ch) ==
    /\ Call(<<"read", sz>>) /\ Reading /\ Counts(ch)
    /\ Apply(io61_read([Cur EXCEPT !.chunks = ch], sz))
    /\ UNCHANGED <<kind, sent, closed>>

WriteC ==
    /\ Call(<<"writec">>) /\ kind = WriteFile
    /\ Apply(io61_writec(Cur, sent + 1))
    /\ sent' = sent + 1
    /\ UNCHANGED <<kind, closed>>

Write(sz) ==
    /\ Call(<<"write", sz>>) /\ kind = WriteFile
    /\ Apply(io61_write(Cur, sent, sz))
    /\ sent' = sent + sz
    /\ UNCHANGED <<kind, closed>>

\* The caller seeks only a seekable file
Seek(pos) ==
    /\ Call(<<"seek", pos>>) /\ kind # ReadPipe
    /\ pos \in IF kind = WriteFile THEN WriteSeekTargets ELSE SeekTargets
    /\ Apply(io61_seek(Cur, pos))
    /\ UNCHANGED <<kind, sent, closed>>

Flush ==
    /\ Call(<<"flush">>)
    /\ Apply([s |-> io61_flush(Cur), res |-> Result(<< >>, 0)])
    /\ UNCHANGED <<kind, sent, closed>>

Close ==
    /\ Call(<<"close">>)
    /\ Apply(io61_close(Cur))
    /\ closed' = TRUE
    /\ UNCHANGED <<kind, sent>>

\* The caller has made its last call
Done ==
    /\ closed \/ ret.ret = CRASH \/ ops = MaxOps
    /\ UNCHANGED vars

Next ==
    \/ \E ch \in Chunks : ReadC(ch)
    \/ \E sz \in ReadSizes, ch \in Chunks : Read(sz, ch)
    \/ WriteC
    \/ \E sz \in WriteSizes : Write(sz)
    \/ \E pos \in SeekTargets \cup WriteSeekTargets : Seek(pos)
    \/ Flush
    \/ Close
    \/ Done

Spec == Init /\ [][Next]_vars

-----------------------------------------------------------------------------
(* Refinement.  The position io61 reads at is the current slot's offset    *)
(* plus pos; the file being written is what io61_flush would leave on      *)
(* disk, and its position is where the descriptor would then be.          *)
Flushed == io61_flush(Cur)

MappedPos ==
    IF kind = WriteFile THEN Flushed.fdpos
    ELSE IF curr_cache = -1 THEN 0
    ELSE cache[curr_cache].offset + cache[curr_cache].pos

Contract == INSTANCE Io61File
                WITH fpos <- MappedPos, wfile <- Flushed.disk,
                     SeekTargets <- SeekTargets \cup WriteSeekTargets

-----------------------------------------------------------------------------
(* Properties.                                                             *)

TypeOK ==
    /\ kind \in Kinds
    /\ cache \in [Slots -> SlotRec]
    /\ curr_cache \in Slots \cup {-1}
    /\ cache_count \in Nat
    /\ fdpos \in Nat
    /\ disk \in Seq(Int)
    /\ sent \in Nat

\* Every active slot of a file being read holds, from its offset on, the
\* bytes of the input at those offsets, and lies within the input: what
\* fill_new_cache stores (line 114 / the read() at line 105) matches the
\* offset it records (line 124), for short pipe reads and after evictions.
CacheCoherent ==
    Reading =>
      /\ \A i \in Slots :
           cache[i].is_active =>
             /\ cache[i].buff_size \in 1 .. BUFFER_SIZE
             /\ cache[i].offset + cache[i].buff_size <= LEN
             /\ \A k \in 1 .. cache[i].buff_size :
                  cache[i].buf[k] = cache[i].offset + k - 1
      /\ curr_cache # -1 =>
           cache[curr_cache].pos <= cache[curr_cache].buff_size

\* io61 implements the contract of Io61File: every call returns the bytes
\* and the value the comments of io61_readc, io61_read, io61_write,
\* io61_seek and io61_flush promise, and the file written is the one the
\* calls describe.
IoRefinement == Contract!Spec
=============================================================================
