------------------------------ MODULE Io61File ------------------------------
(***************************************************************************)
(* What an io61_file promises its caller, as the comments above each       *)
(* function of src/pset3/io61.c state it: a file is a sequence of bytes    *)
(* with a position.  io61_readc returns the byte at the position or EOF;   *)
(* io61_read returns up to sz bytes, a short count only at end of file;   *)
(* io61_seek moves the position; io61_writec / io61_write put bytes at the *)
(* position; io61_flush and io61_close make no difference the caller can   *)
(* see in the file's contents.                                             *)
(*                                                                         *)
(* Data is abstracted to positions: the byte at offset i of a file being  *)
(* read is i, and the k-th byte the caller hands to io61_writec /          *)
(* io61_write is k, so a result shows exactly which bytes came back.  A    *)
(* file being written starts empty; a hole left by a seek past its end     *)
(* reads as HOLE.                                                          *)
(***************************************************************************)
EXTENDS Io61Data

CONSTANTS
    LEN,            \* bytes of the file (or pipe stream) being read
    Kinds,          \* the kinds of io61_file a run opens
    ReadSizes,      \* sz arguments of io61_read
    WriteSizes,     \* sz arguments of io61_write
    SeekTargets,    \* pos arguments of io61_seek
    MaxOps          \* bound on the number of calls

ASSUME Kinds \subseteq {ReadFile, ReadPipe, WriteFile}

VARIABLES
    kind,       \* which kind of file is open
    fpos,       \* the file position
    wfile,      \* contents of a file being written
    sent,       \* bytes the caller has handed to io61 to write
    call,       \* the last call and its argument
    ret,        \* result of the last call
    closed,     \* io61_close has been called
    ops

vars == <<kind, fpos, wfile, sent, call, ret, closed, ops>>

Reading == kind \in {ReadFile, ReadPipe}

Init ==
    /\ kind \in Kinds
    /\ fpos = 0
    /\ wfile = <<>>
    /\ sent = 0
    /\ call = <<"fdopen">>
    /\ ret = Result(<<>>, 0)
    /\ closed = FALSE
    /\ ops = 0

Call(c) == ~closed /\ ops < MaxOps /\ ops' = ops + 1 /\ call' = c

ReadC ==
    /\ Call(<<"readc">>) /\ Reading
    /\ IF fpos < LEN
       THEN ret' = Result(<<fpos>>, fpos) /\ fpos' = fpos + 1
       ELSE ret' = Result(<<>>, EOF) /\ UNCHANGED fpos
    /\ UNCHANGED <<kind, wfile, sent, closed>>

Read(sz) ==
    LET n == Min({sz, LEN - fpos})
    IN  /\ Call(<<"read", sz>>) /\ Reading
        /\ ret' = Result([i \in 1 .. n |-> fpos + i - 1], n)
        /\ fpos' = fpos + n
        /\ UNCHANGED <<kind, wfile, sent, closed>>

\* Writing sz bytes: the caller's next sz bytes land at the position
WriteBytes(c, sz, r) ==
    /\ Call(c) /\ kind = WriteFile
    /\ wfile' = Put(wfile, fpos, [i \in 1 .. sz |-> sent + i])
    /\ fpos' = fpos + sz
    /\ sent' = sent + sz
    /\ ret' = Result(<<>>, r)
    /\ UNCHANGED <<kind, closed>>

WriteC == WriteBytes(<<"writec">>, 1, 0)

Write(sz) == WriteBytes(<<"write", sz>>, sz, sz)

\* Seeking a pipe is not part of the contract modelled here.
Seek(pos) ==
    /\ Call(<<"seek", pos>>) /\ kind # ReadPipe
    /\ fpos' = pos
    /\ ret' = Result(<<>>, 0)
    /\ UNCHANGED <<kind, wfile, sent, closed>>

Flush ==
    /\ Call(<<"flush">>)
    /\ ret' = Result(<<>>, 0)
    /\ UNCHANGED <<kind, fpos, wfile, sent, closed>>

Close ==
    /\ Call(<<"close">>)
    /\ closed' = TRUE
    /\ ret' = Result(<<>>, 0)
    /\ UNCHANGED <<kind, fpos, wfile, sent>>

Next ==
    \/ ReadC
    \/ \E sz \in ReadSizes : Read(sz)
    \/ WriteC
    \/ \E sz \in WriteSizes : Write(sz)
    \/ \E pos \in SeekTargets : Seek(pos)
    \/ Flush
    \/ Close

Spec == Init /\ [][Next]_vars
=============================================================================
