------------------------------ MODULE Io61Data ------------------------------
(***************************************************************************)
(* Values shared by the io61 contract (Io61File) and the io61 cache        *)
(* (Io61): the kinds of file, the return values, and file contents as a    *)
(* sequence of bytes (offset i is element i + 1).                          *)
(***************************************************************************)
EXTENDS Naturals, Sequences, FiniteSetsExt

\* A regular file opened O_RDONLY, a pipe opened O_RDONLY, a regular file
\* opened O_WRONLY.
ReadFile == "read_file"
ReadPipe == "read_pipe"
WriteFile == "write_file"

EOF == -1
HOLE == 0       \* a byte of a hole left by seeking past the end

\* Result of a call: the bytes it delivered into buf, and its return value
Result(bytes, r) == [bytes |-> bytes, ret |-> r]

\* The contents f with the bytes data written from offset p on
Put(f, p, data) ==
    [i \in 1 .. Max({Len(f), p + Len(data)}) |->
        IF i > p /\ i <= p + Len(data) THEN data[i - p]
        ELSE IF i <= Len(f) THEN f[i] ELSE HOLE]
=============================================================================
