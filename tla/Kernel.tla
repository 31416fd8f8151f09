------------------------------- MODULE Kernel -------------------------------
(***************************************************************************)
(* The WeensyOS kernel of src/pset6/kernel.c: the physical page table      *)
(* pageinfo[], the process table processes[], the current process, and     *)
(* the exception handler exception() with everything it calls:            *)
(* schedule(), fork(), copy_pagetable(), sys_exit(), physical_page_alloc()*)
(* and the find_free_page scans.  Interrupts are disabled in the kernel,  *)
(* so one call of exception() is one atomic step of this specification.   *)
(*                                                                         *)
(* Addresses are page numbers.  The low region 0..PROC_START_PN-1 of the   *)
(* user's address space is a copy of the kernel's and is not represented; *)
(* the user part PROC_START_PN..MEMSIZE_VIRTUAL_PN-1 is, page by page.     *)
(***************************************************************************)
EXTENDS Integers, FiniteSets, FiniteSetsExt

CONSTANTS
    NPROC,              \* capacity of processes[]; slot 0 is never used
    NPAGES,             \* physical pages 0..NPAGES-1
    PROC_START_PN,      \* PAGENUMBER(PROC_START_ADDR)
    MEMSIZE_VIRTUAL_PN, \* PAGENUMBER(MEMSIZE_VIRTUAL)
    ReservedPages,      \* pages with physical_memory_isreserved(addr)
    KernelPages,        \* kernel code and data, and the kernel stack page
    Image,              \* the program image: user page -> is it writable?
    BootCommand,        \* the boot loader's command string
    EaxValues           \* what %eax may hold when a process traps for fork

Pages  == 0 .. NPAGES - 1
VPages == PROC_START_PN .. MEMSIZE_VIRTUAL_PN - 1
Pids   == 0 .. NPROC - 1

\* pageowner_t; a positive owner is a process id
PO_FREE     == 0
PO_RESERVED == -1
PO_KERNEL   == -2
Owners == {PO_KERNEL, PO_RESERVED, PO_FREE} \cup (1 .. NPROC - 1)

P_FREE     == "free"
P_RUNNABLE == "runnable"
P_BROKEN   == "broken"

\* Interrupt numbers, saved in p_registers.reg_intno at every trap
IntNos == {"none", "panic", "getpid", "yield", "page_alloc", "timer",
           "fork", "exit", "pagefault"}

\* A user page-table entry: no mapping, or a physical page and PTE_W
NoMap == [pa |-> -1, w |-> FALSE]
Mappings == {NoMap} \cup [pa : Pages, w : BOOLEAN]
\* A process page table: the level-1 and level-2 pages and the user mappings
NoTable == [l1 |-> -1, l2 |-> -1, map |-> [v \in VPages |-> NoMap]]
Tables == [l1 : Pages \cup {-1}, l2 : Pages \cup {-1},
           map : [VPages -> Mappings]]

BootPids == IF BootCommand \in {"fork", "forkexit"} THEN {1} ELSE 1 .. 4

ASSUME /\ NPROC >= 2 /\ BootPids \subseteq 1 .. NPROC - 1
       /\ PROC_START_PN < NPAGES /\ PROC_START_PN < MEMSIZE_VIRTUAL_PN
       /\ ReservedPages \cup KernelPages \subseteq 0 .. PROC_START_PN - 1
       /\ DOMAIN Image \subseteq VPages \ {MEMSIZE_VIRTUAL_PN - 1}

VARIABLES
    pageinfo,   \* pageinfo[pn] = [owner, refcount]
    processes,  \* processes[pid] = [p_state, p_pagetable, eax, intno]
    current,    \* the pid `current` points to
    cpu         \* "user": current runs; "idle": schedule() spins; "halted"

vars == <<pageinfo, processes, current, cpu>>

-----------------------------------------------------------------------------
(* Physical pages: the scans and the allocation primitive.                 *)

\* find_free_page(): the lowest page whose owner is PO_FREE, or -1
find_free_page(pi) ==
    LET free == {i \in Pages : pi[i].owner = PO_FREE}
    IN  IF free = {} THEN -1 ELSE Min(free)

\* find_free_page_table(): the same scan, below PROC_START_ADDR only
find_free_page_table(pi) ==
    LET free == {i \in 0 .. PROC_START_PN - 1 : pi[i].owner = PO_FREE}
    IN  IF free = {} THEN -1 ELSE Min(free)

\* physical_page_alloc(addr, owner): r is 0 or -1, pi the new pageinfo.
\* The -1 address of an exhausted scan fails the alignment test.
physical_page_alloc(pi, addr, owner) ==
    IF addr = -1 \/ pi[addr].refcount # 0
    THEN [r |-> -1, pi |-> pi]
    ELSE [r |-> 0, pi |-> [pi EXCEPT ![addr] = [owner |-> owner, refcount |-> 1]]]

\* pageinfo_init()
pageinfo_init ==
    [pn \in Pages |->
        LET owner == IF pn \in ReservedPages THEN PO_RESERVED
                     ELSE IF pn \in KernelPages THEN PO_KERNEL
                     ELSE PO_FREE
        IN  [owner |-> owner, refcount |-> IF owner # PO_FREE THEN 1 ELSE 0]]

-----------------------------------------------------------------------------
(* Address spaces.                                                         *)

\* copy_pagetable(pagetable, owner): two fresh pages below PROC_START_ADDR
\* for the level-1 and level-2 tables.  Only the low region is copied, so
\* the user part starts empty.  A failure of the second allocation leaves
\* the first one allocated to `owner`.
copy_pagetable(pi, owner) ==
    LET a1 == physical_page_alloc(pi, find_free_page_table(pi), owner)
        a2 == physical_page_alloc(a1.pi, find_free_page_table(a1.pi), owner)
    IN  IF a1.r = -1 THEN [ok |-> FALSE, pi |-> pi]
        ELSE IF a2.r = -1 THEN [ok |-> FALSE, pi |-> a1.pi]
        ELSE [ok |-> TRUE, pi |-> a2.pi,
              pt |-> [NoTable EXCEPT !.l1 = find_free_page_table(pi),
                                     !.l2 = find_free_page_table(a1.pi)]]

\* program_load(p, program_number): each page of the image gets the lowest
\* free page, mapped with the image's permission.  Boot does not fail.
RECURSIVE LoadPages(_, _, _, _)
LoadPages(pi, pt, pid, vs) ==
    IF vs = {} THEN [pi |-> pi, pt |-> pt]
    ELSE LET v == Min(vs)
             f == find_free_page(pi)
         IN  LoadPages(physical_page_alloc(pi, f, pid).pi,
                       [pt EXCEPT !.map[v] = [pa |-> f, w |-> Image[v]]],
                       pid, vs \ {v})

\* process_setup(pid, program_number), from the state k = [pi, ps]
process_setup(k, pid) ==
    LET cp    == copy_pagetable(k.pi, pid)
        ld    == LoadPages(cp.pi, cp.pt, pid, DOMAIN Image)
        stack == find_free_page(ld.pi)
        pt    == [ld.pt EXCEPT !.map[MEMSIZE_VIRTUAL_PN - 1] =
                                   [pa |-> stack, w |-> TRUE]]
    IN  IF ~cp.ok
        THEN [k EXCEPT !.pi = cp.pi]
        ELSE [pi |-> physical_page_alloc(ld.pi, stack, pid).pi,
              ps |-> [k.ps EXCEPT ![pid] = [p_state |-> P_RUNNABLE,
                                            p_pagetable |-> pt,
                                            eax |-> 0, intno |-> "none"]]]

RECURSIVE SetupAll(_, _)
SetupAll(k, pids) ==
    IF pids = {} THEN k
    ELSE SetupAll(process_setup(k, Min(pids)), pids \ {Min(pids)})

\* kernel(command): pageinfo_init, the process table, the boot processes
Boot ==
    SetupAll([pi |-> pageinfo_init,
              ps |-> [p \in Pids |-> [p_state |-> P_FREE,
                                      p_pagetable |-> NoTable,
                                      eax |-> 0, intno |-> "none"]]],
             BootPids)

ASSUME \A p \in BootPids :
          /\ Boot.ps[p].p_state = P_RUNNABLE
          /\ \A v \in DOMAIN Image \cup {MEMSIZE_VIRTUAL_PN - 1} :
                Boot.ps[p].p_pagetable.map[v].pa # -1

-----------------------------------------------------------------------------
(* Process lifecycle.                                                      *)

\* Mutant: sys_exit() without the refcount decrement of shared pages
sys_exit_no_release(k, pid) ==
    [pi |-> [pn \in Pages |->
               IF k.pi[pn].owner = pid THEN [owner |-> PO_FREE, refcount |-> 0]
               ELSE k.pi[pn]],
     ps |-> [k.ps EXCEPT ![pid].p_state = P_FREE]]

\* Mutant: sys_exit() frees the owner but forgets to zero the refcount
sys_exit_keeps_refcount(k, pid) ==
    [pi |-> [pn \in Pages |->
               LET e == IF k.pi[pn].owner = pid
                        THEN [k.pi[pn] EXCEPT !.owner = PO_FREE]
                        ELSE k.pi[pn]
               IN  IF e.refcount > 1 /\ e.owner > 0
                   THEN [e EXCEPT !.refcount = @ - 1] ELSE e],
     ps |-> [k.ps EXCEPT ![pid].p_state = P_FREE]]

\* sys_exit(pid).  The loop looks every physical page up through the
\* kernel page table, which maps physical memory one to one, so it visits
\* each page once: a page owned by pid is freed, and then any page with
\* refcount > 1 and a process owner loses one reference, whoever maps it.
sys_exit(k, pid) ==
    [pi |-> [pn \in Pages |->
               LET e == IF k.pi[pn].owner = pid
                        THEN [owner |-> PO_FREE, refcount |-> 0]
                        ELSE k.pi[pn]
               IN  IF e.refcount > 1 /\ e.owner > 0
                   THEN [e EXCEPT !.refcount = @ - 1] ELSE e],
     ps |-> [k.ps EXCEPT ![pid].p_state = P_FREE]]

\* Mutant: fork() maps a writable page into the child instead of copying it
RECURSIVE CloneRange_shares_writable(_, _, _, _, _)
CloneRange_shares_writable(pi, src, dst, child, vs) ==
    IF vs = {} THEN [ok |-> TRUE, pi |-> pi, map |-> dst]
    ELSE LET v == Min(vs)  m == src[v]  rest == vs \ {v}
         IN  IF m = NoMap THEN CloneRange_shares_writable(pi, src, dst, child, rest)
             ELSE IF m.w \/ (pi[m.pa].refcount > 0 /\ pi[m.pa].owner > 0)
             THEN CloneRange_shares_writable([pi EXCEPT ![m.pa].refcount = @ + 1],
                                             src, [dst EXCEPT ![v] = m], child, rest)
             ELSE CloneRange_shares_writable(pi, src, dst, child, rest)

\* Mutant: fork() shares a read-only page without counting the reference
RECURSIVE CloneRange_no_refcount(_, _, _, _, _)
CloneRange_no_refcount(pi, src, dst, child, vs) ==
    IF vs = {} THEN [ok |-> TRUE, pi |-> pi, map |-> dst]
    ELSE LET v == Min(vs)  m == src[v]  rest == vs \ {v}
             f == find_free_page(pi)  a == physical_page_alloc(pi, f, child)
         IN  IF m = NoMap THEN CloneRange_no_refcount(pi, src, dst, child, rest)
             ELSE IF m.w
             THEN IF a.r = -1 THEN [ok |-> FALSE, pi |-> pi, map |-> dst]
                  ELSE CloneRange_no_refcount(a.pi, src,
                           [dst EXCEPT ![v] = [pa |-> f, w |-> TRUE]], child, rest)
             ELSE IF pi[m.pa].refcount > 0 /\ pi[m.pa].owner > 0
             THEN CloneRange_no_refcount(pi, src,
                           [dst EXCEPT ![v] = [pa |-> m.pa, w |-> FALSE]], child, rest)
             ELSE CloneRange_no_refcount(pi, src, dst, child, rest)

\* The page loop of fork(): the user pages from PROC_START_ADDR up.  A
\* writable page is copied into a fresh page of the child; a read-only
\* page is shared, only when its refcount is positive and a process owns
\* it.  Stops at the first allocation that fails.
RECURSIVE CloneRange(_, _, _, _, _)
CloneRange(pi, src, dst, child, vs) ==
    IF vs = {} THEN [ok |-> TRUE, pi |-> pi, map |-> dst]
    ELSE LET v    == Min(vs)
             m    == src[v]
             rest == vs \ {v}
             f    == find_free_page(pi)
             a    == physical_page_alloc(pi, f, child)
         IN  IF m = NoMap THEN CloneRange(pi, src, dst, child, rest)
             ELSE IF m.w
             THEN IF a.r = -1 THEN [ok |-> FALSE, pi |-> pi, map |-> dst]
                  ELSE CloneRange(a.pi, src, [dst EXCEPT ![v] = [pa |-> f, w |-> TRUE]],
                                  child, rest)
             ELSE IF pi[m.pa].refcount > 0 /\ pi[m.pa].owner > 0
             THEN CloneRange([pi EXCEPT ![m.pa].refcount = @ + 1], src,
                             [dst EXCEPT ![v] = [pa |-> m.pa, w |-> FALSE]],
                             child, rest)
             ELSE CloneRange(pi, src, dst, child, rest)

\* Mutant: a failed fork() frees the slot without sys_exit(child)
fork_no_cleanup(k, c) ==
    LET free  == {i \in 1 .. NPROC - 1 : k.ps[i].p_state = P_FREE}
        slot  == Min(free)
        cp    == copy_pagetable(k.pi, slot)
        ps2   == [k.ps EXCEPT ![slot].p_state = P_RUNNABLE, ![slot].p_pagetable = cp.pt]
        cl    == CloneRange(cp.pi, k.ps[c].p_pagetable.map, NoTable.map, slot, VPages)
        fail(pi) == [pi |-> pi, ps |-> [k.ps EXCEPT ![c].eax = -1]]
    IN  IF free = {} THEN k
        ELSE IF ~cp.ok THEN fail(cp.pi)
        ELSE IF ~cl.ok THEN fail(cl.pi)
        ELSE [pi |-> cl.pi,
              ps |-> [ps2 EXCEPT ![slot].p_pagetable.map = cl.map, ![slot].eax = 0,
                                 ![slot].intno = k.ps[c].intno, ![c].eax = slot]]

\* fork(), called for the current process c
fork(k, c) ==
    LET free  == {i \in 1 .. NPROC - 1 : k.ps[i].p_state = P_FREE}
        slot  == Min(free)
        ps1   == [k.ps EXCEPT ![slot].p_state = P_RUNNABLE]
        cp    == copy_pagetable(k.pi, slot)
        ps2   == [ps1 EXCEPT ![slot].p_pagetable = cp.pt]
        cl    == CloneRange(cp.pi, k.ps[c].p_pagetable.map, NoTable.map, slot, VPages)
        ps3   == [ps2 EXCEPT ![slot].p_pagetable.map = cl.map]
        fail(pi, ps) == sys_exit([pi |-> pi, ps |-> [ps EXCEPT ![c].eax = -1]], slot)
    IN  IF free = {} THEN k
        ELSE IF ~cp.ok THEN fail(cp.pi, ps1)
        ELSE IF ~cl.ok THEN fail(cl.pi, ps3)
        ELSE [pi |-> cl.pi,
              ps |-> [ps3 EXCEPT ![slot].eax = 0, ![slot].intno = k.ps[c].intno,
                                 ![c].eax = slot]]

-----------------------------------------------------------------------------
(* Scheduling.                                                             *)

\* Mutant: schedule() takes the lowest runnable slot, not the next one
schedule_from_first(ps) ==
    LET runnable == {n \in 1 .. NPROC - 1 : ps[n].p_state = P_RUNNABLE}
    IN  IF runnable = {}
        THEN /\ cpu' = "idle" /\ UNCHANGED current
        ELSE /\ cpu' = "user" /\ current' = Min(runnable)

\* schedule(): the first runnable slot after `current`, going round the
\* table and ending at `current` itself; with none it spins for ever.
schedule(ps) ==
    LET ahead == {n \in 1 .. NPROC : ps[(current + n) % NPROC].p_state = P_RUNNABLE}
    IN  IF ahead = {}
        THEN /\ cpu' = "idle" /\ UNCHANGED current
        ELSE /\ cpu' = "user" /\ current' = (current + Min(ahead)) % NPROC

\* Mutant: exception() returns to `current` without checking its state
ReturnOrSchedule_always_returns(ps) ==
    cpu' = "user" /\ UNCHANGED current

\* The end of exception(): run(current) if it is still runnable, else
\* schedule()
ReturnOrSchedule(ps) ==
    IF ps[current].p_state = P_RUNNABLE
    THEN cpu' = "user" /\ UNCHANGED current
    ELSE schedule(ps)

-----------------------------------------------------------------------------
(* virtual_memory_check(), run on every entry to exception() from user  *)
(* mode.  It asserts: slot 0 is free; the level-1 and level-2 page       *)
(* tables of every process that is not free are owned by it with         *)
(* refcount 1; a referenced page owned by a pid (or marked free) has a   *)
(* process that is not free.  The kernel page table keeps owner          *)
(* PO_KERNEL and refcount 1, as no process shares it.                    *)

virtual_memory_check ==
    /\ processes[0].p_state = P_FREE
    /\ \A p \in 1 .. NPROC - 1 :
          processes[p].p_state # P_FREE =>
             \A pn \in {processes[p].p_pagetable.l1, processes[p].p_pagetable.l2} :
                 pageinfo[pn] = [owner |-> p, refcount |-> 1]
    /\ \A pn \in Pages :
          pageinfo[pn].refcount > 0 /\ pageinfo[pn].owner >= 0
             => processes[pageinfo[pn].owner].p_state # P_FREE

\* A trap from user mode whose virtual_memory_check() passes
Entry == cpu = "user" /\ virtual_memory_check

\* A trap from user mode whose virtual_memory_check() fails an assertion:
\* assert() panics, whatever the interrupt number
VMCheckPanic ==
    /\ cpu = "user"
    /\ ~virtual_memory_check
    /\ cpu' = "halted"
    /\ UNCHANGED <<pageinfo, processes, current>>

-----------------------------------------------------------------------------
(* exception(reg): one action per interrupt number.  Each one first saves *)
(* the trap's registers into current->p_registers.                         *)

SysPanic ==
    /\ Entry
    /\ cpu' = "halted"
    /\ processes' = [processes EXCEPT ![current].intno = "panic"]
    /\ UNCHANGED <<pageinfo, current>>

SysGetpid ==
    /\ Entry
    /\ processes' = [processes EXCEPT ![current].intno = "getpid",
                                       ![current].eax = current]
    /\ UNCHANGED <<pageinfo, current, cpu>>

SysYield ==
    /\ Entry
    /\ processes' = [processes EXCEPT ![current].intno = "yield"]
    /\ schedule(processes')
    /\ UNCHANGED pageinfo

\* The timer interrupt; `ticks` only paces the memory display
Timer ==
    /\ Entry
    /\ processes' = [processes EXCEPT ![current].intno = "timer"]
    /\ schedule(processes')
    /\ UNCHANGED pageinfo

\* INT_SYS_PAGE_ALLOC with the virtual address v in %eax
SysPageAlloc(v) ==
    LET f == find_free_page(pageinfo)
        a == physical_page_alloc(pageinfo, f, current)
        m == IF a.r >= 0 THEN [pa |-> f, w |-> TRUE]
             ELSE processes[current].p_pagetable.map[v]
    IN  /\ Entry
        /\ pageinfo' = a.pi
        /\ processes' = [processes EXCEPT ![current].intno = "page_alloc",
                                           ![current].eax = a.r,
                                           ![current].p_pagetable.map[v] = m]
        /\ UNCHANGED <<current, cpu>>

\* INT_SYS_FORK, with whatever value e the process had in %eax
SysFork(e) ==
    LET k == fork([pi |-> pageinfo,
                   ps |-> [processes EXCEPT ![current].intno = "fork",
                                            ![current].eax = e]], current)
    IN  /\ Entry
        /\ pageinfo' = k.pi
        /\ processes' = k.ps
        /\ ReturnOrSchedule(k.ps)

SysExit ==
    LET k == sys_exit([pi |-> pageinfo,
                       ps |-> [processes EXCEPT ![current].intno = "exit"]], current)
    IN  /\ Entry
        /\ pageinfo' = k.pi
        /\ processes' = k.ps
        /\ ReturnOrSchedule(k.ps)

\* INT_PAGEFAULT from user mode: the process is marked broken
UserPageFault ==
    /\ Entry
    /\ processes' = [processes EXCEPT ![current].intno = "pagefault",
                                       ![current].p_state = P_BROKEN]
    /\ ReturnOrSchedule(processes')
    /\ UNCHANGED pageinfo

\* No runnable process (schedule() spins) or a panic: nothing happens again
Spin ==
    /\ cpu \in {"idle", "halted"}
    /\ UNCHANGED vars

Init ==
    /\ pageinfo = Boot.pi
    /\ processes = Boot.ps
    /\ current = 1
    /\ cpu = "user"

Next ==
    \/ SysPanic
    \/ SysGetpid
    \/ SysYield
    \/ \E v \in VPages : SysPageAlloc(v)
    \/ Timer
    \/ \E e \in EaxValues : SysFork(e)
    \/ SysExit
    \/ UserPageFault
    \/ VMCheckPanic
    \/ Spin

Spec == Init /\ [][Next]_vars

\* The timer interrupts a running process sooner or later; exception()
\* then runs, and panics if virtual_memory_check fails
FairSpec == Spec /\ WF_vars(Timer \/ VMCheckPanic)

-----------------------------------------------------------------------------
(* Properties.                                                             *)

Live == {p \in 1 .. NPROC - 1 : processes[p].p_state # P_FREE}

\* The live processes whose page tables use physical page pn
Holders(pn) ==
    {p \in Live : LET pt == processes[p].p_pagetable
                  IN  pn \in {pt.l1, pt.l2} \/ \E v \in VPages : pt.map[v].pa = pn}

\* Every variable has its type; a refcount never exceeds the number of
\* processes that could share a page (pageinfo's refcount is an int8_t).
TypeOK ==
    /\ pageinfo \in [Pages -> [owner : Owners, refcount : 0 .. NPROC - 1]]
    /\ processes \in [Pids -> [p_state : {P_FREE, P_RUNNABLE, P_BROKEN},
                               p_pagetable : Tables,
                               eax : {-1} \cup Pids \cup VPages \cup EaxValues,
                               intno : IntNos]]
    /\ current \in 1 .. NPROC - 1
    /\ cpu \in {"user", "idle", "halted"}

\* pageinfo: a page is free exactly when its refcount is 0, across
\* physical_page_alloc, the sharing in fork() and the release in sys_exit().
FreeIffUnreferenced ==
    \A pn \in Pages : pageinfo[pn].refcount = 0 <=> pageinfo[pn].owner = PO_FREE

\* virtual_memory_check(), its last loop: a referenced page that a process
\* owns belongs to a process that is not free; sys_exit() and the failure
\* paths of fork() leave no page to a freed slot.
ReferencedPagesHaveLiveOwner ==
    \A pn \in Pages : pageinfo[pn].refcount > 0 /\ pageinfo[pn].owner > 0
                       => processes[pageinfo[pn].owner].p_state # P_FREE

\* Isolation of writable memory: a page mapped writable in a live process
\* belongs to it, and no other live process maps it writable, whatever
\* sequence of fork(), sys_exit() and INT_SYS_PAGE_ALLOC led there.
WritablePagesPrivate ==
    \A p \in Live, v \in VPages :
        LET m == processes[p].p_pagetable.map[v]
        IN  m.w => /\ pageinfo[m.pa].owner = p
                  /\ \A q \in Live \ {p}, u \in VPages :
                        processes[q].p_pagetable.map[u] # m

\* run(p) asserts that p is runnable: the CPU never returns to a process
\* that exited or broke in the exception it is returning from.
RunningIsRunnable ==
    cpu = "user" => processes[current].p_state = P_RUNNABLE

\* A step of exception() for INT_SYS_FORK made by `current`
ForkStep == cpu = "user" /\ processes'[current].intno = "fork"

\* The slot a successful fork() fills
NewChild(k) == processes[k].p_state = P_FREE /\ processes'[k].p_state = P_RUNNABLE

\* fork()'s copy/share law: in a successful fork the child gets a fresh
\* page of its own for every writable page of the parent, the same page
\* for every read-only page the parent's owner still holds (one more
\* reference to it), nothing where the parent has nothing; the child sees
\* 0 in %eax and the parent the child's pid.
ForkCopyShareLaw ==
    [][ForkStep =>
        \A k \in 1 .. NPROC - 1 : NewChild(k) =>
          /\ processes'[k].eax = 0
          /\ processes'[current].eax = k
          /\ \A v \in VPages :
               LET m  == processes[current].p_pagetable.map[v]
                   cm == processes'[k].p_pagetable.map[v]
               IN  /\ m.w => /\ cm.w
                             /\ pageinfo[cm.pa].owner = PO_FREE
                             /\ pageinfo'[cm.pa] = [owner |-> k, refcount |-> 1]
                   /\ (m # NoMap /\ ~m.w /\ pageinfo[m.pa].owner > 0) =>
                         /\ cm = m
                         /\ pageinfo'[m.pa].refcount = pageinfo[m.pa].refcount + 1
                   /\ m = NoMap => cm = NoMap
      ]_vars

\* Round robin: a runnable process runs again sooner or later, unless
\* the kernel panicked.
RunnableEventuallyRuns ==
    \A p \in 1 .. NPROC - 1 :
        processes[p].p_state = P_RUNNABLE
            ~> \/ cpu = "user" /\ current = p
               \/ processes[p].p_state # P_RUNNABLE
               \/ cpu = "halted"

\* A page mapped in a live process's address space is allocated: no
\* process can read a page that sys_exit() gave back to the free pool and
\* that the next allocation hands to someone else.
NoDanglingMapping ==
    \A p \in Live, v \in VPages :
        LET m == processes[p].p_pagetable.map[v]
        IN  m # NoMap => pageinfo[m.pa].owner # PO_FREE

\* The fork system call returns the child's pid to the parent, or a
\* negative value when it fails.
ForkReturnValue ==
    [][ForkStep =>
        LET r == processes'[current].eax
        IN  r = -1 \/ (r \in 1 .. NPROC - 1 /\ NewChild(r))
      ]_vars

=============================================================================
