------------------------------ MODULE MCKernel ------------------------------
(***************************************************************************)
(* A small machine for TLC: 10 physical pages, page 0 reserved and page 1  *)
(* the kernel's, pages 2..7 below PROC_START_ADDR (the only ones page      *)
(* tables may use) and 8..9 above it; user pages 8..10, 8 holding the      *)
(* program image and 10 the stack; three process slots.                    *)
(***************************************************************************)
EXTENDS Kernel, TLC

MC_ReservedPages == {0}
MC_KernelPages   == {1}
\* A read-only code page, as a program's text segment is
MC_ImageRO       == [v \in {8} |-> FALSE]
\* A writable data page only
MC_ImageRW       == [v \in {8} |-> TRUE]
\* A read-only text page and a writable data page
MC_ImageMixed    == (9 :> FALSE) @@ (10 :> TRUE)
\* States that differ only in values no later step of exception() reads
\* are one state: the page table and registers left in a freed slot (fork()
\* overwrites them before the slot runs again), and the saved %eax and
\* interrupt number (a trap overwrites both before they are read; the
\* action properties read only the values a step writes).
KernelView ==
    <<pageinfo,
      [p \in Pids |-> IF processes[p].p_state = P_FREE
                      THEN [p_state |-> P_FREE, p_pagetable |-> NoTable,
                            eax |-> 0, intno |-> "none"]
                      ELSE [processes[p] EXCEPT !.eax = 0, !.intno = "none"]],
      current, cpu>>
=============================================================================
