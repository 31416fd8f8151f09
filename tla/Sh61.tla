-------------------------------- MODULE Sh61 --------------------------------
(***************************************************************************)
(* The sh61 shell of src/pset4/sh61.c: eval_line parses a command line    *)
(* into lists (separated by ; and &), conditionals (&& and ||) and         *)
(* pipeline commands (|); run_list runs the conditionals of a list,        *)
(* forking one child per command through start_command and waiting for    *)
(* it; main reads lines until end of input and calls reap_zombies after    *)
(* each.                                                                   *)
(*                                                                         *)
(* Every process is a record in procs, indexed by its pid.  A shell       *)
(* process carries main's, eval_line's and run_list's locals; a forked    *)
(* child is a copy of its parent's record, as fork() copies the address   *)
(* space, and a child whose execvp succeeds becomes a "cmd" process that  *)
(* only exits.  Data is abstracted away: words are true, false (programs  *)
(* exiting 0 and 1), cd with an argument dir (exists) or anything else,   *)
(* and any other word is a program execvp cannot find.  Pipe and          *)
(* redirection file descriptors, process groups, the terminal and SIGINT  *)
(* are not modelled.                                                      *)
(***************************************************************************)
EXTENDS Naturals, Sequences, SequencesExt

CONSTANTS
    Script,     \* the input: a sequence of lines, each a sequence of tokens
    MaxProcs,   \* fork() fails (EAGAIN) once this many processes exist
    FinalNewline \* the script's last line ends in '\n'

(***************************************************************************)
(* Parsing: eval_line's token loop, one step per token.  The current      *)
(* list, conditional and command are always the last ones allocated, so   *)
(* the parser state is the list group, the three pending flags, and the   *)
(* redirection whose file name the next token is ("" when none).  A       *)
(* redirection slot holds its file name, "" for NULL.                     *)
(***************************************************************************)
NewCommand == [argv |-> <<>>, cd |-> FALSE,
               rd_in |-> "", rd_out |-> "", rd_err |-> ""]
NewCond    == [cont |-> 0, cmds |-> <<NewCommand>>]
NewList    == [bg |-> FALSE, conds |-> <<NewCond>>]

command_append_arg(c, word)         == [c EXCEPT !.argv = Append(@, word)]
conditional_append_arg(cond, c)     == [cond EXCEPT !.cmds = Append(@, c)]
command_list_append_arg(list, cond) == [list EXCEPT !.conds = Append(@, cond)]
list_group_append_lst(group, list)  == Append(group, list)

\* the slot of a redirection token
RdSlot(tok) == CASE tok = "<" -> "rd_in" [] tok = ">" -> "rd_out"
                 [] tok = "2>" -> "rd_err"

LastList(g) == Len(g)
LastCond(g) == Len(g[Len(g)].conds)
LastCmd(g)  == Len(g[Len(g)].conds[LastCond(g)].cmds)

ParseTok(st, tok) ==
    LET g1 == IF st.new_list THEN list_group_append_lst(st.group, NewList)
              ELSE st.group
        g2 == IF st.new_cond
              THEN [g1 EXCEPT ![LastList(g1)] = command_list_append_arg(@, NewCond)]
              ELSE g1
        g  == IF st.new_pipe
              THEN [g2 EXCEPT ![LastList(g2)].conds[LastCond(g2)] =
                                  conditional_append_arg(@, NewCommand)]
              ELSE g2
        L == LastList(g)  C == LastCond(g)  K == LastCmd(g)
        st0 == [group |-> g, new_list |-> FALSE, new_cond |-> FALSE,
                new_pipe |-> FALSE, rd |-> ""]
        F == LastList(st.group)  D == LastCond(st.group)  E == LastCmd(st.group)
    IN CASE st.rd # "" -> [st EXCEPT !.group[F].conds[D].cmds[E][st.rd] = tok,
                                     !.rd = ""]
         [] tok \in {"<", ">", "2>"} -> [st0 EXCEPT !.rd = RdSlot(tok)]
         [] tok = "&"  -> [st0 EXCEPT !.group[L].bg = TRUE, !.new_list = TRUE]
         [] tok = ";"  -> [st0 EXCEPT !.new_list = TRUE]
         [] tok = "&&" -> [st0 EXCEPT !.group[L].conds[C].cont = 0,
                                      !.new_cond = TRUE]
         [] tok = "||" -> [st0 EXCEPT !.group[L].conds[C].cont = 1,
                                      !.new_cond = TRUE]
         [] tok = "|"  -> [st0 EXCEPT !.new_pipe = TRUE]
         [] OTHER      -> [st0 EXCEPT !.group[L].conds[C].cmds[K] =
                               [command_append_arg(@, tok) EXCEPT
                                    !.cd = @ \/ tok = "cd"]]

ParseInit == [group |-> <<NewList>>, new_list |-> FALSE,
              new_cond |-> FALSE, new_pipe |-> FALSE, rd |-> ""]

eval_line_parse(line) == FoldLeft(ParseTok, ParseInit, line).group

Parsed == [k \in 1 .. Len(Script) |-> eval_line_parse(Script[k])]

(***************************************************************************)
(* The programs: execvp finds true and false; chdir(argv[1]) succeeds     *)
(* for dir.                                                               *)
(***************************************************************************)
Found(c) == Len(c.argv) > 0 /\ c.argv[1] \in {"true", "false"}
ExitCode(c) == IF c.argv[1] = "true" THEN 0 ELSE 1
ChdirStatus(c) == IF Len(c.argv) > 1 /\ c.argv[2] = "dir" THEN 0 ELSE 1

\* handle_rd: open() of every redirection succeeds; only the file f can be
\* opened (read, or created for writing)
RdOk(c) == \A slot \in {"rd_in", "rd_out", "rd_err"} : c[slot] \in {"", "f"}

\* waitpid's first argument after a failed fork: any child
ANY == -1

\* The fields main, eval_line and run_list keep; a "cmd" process has them too
\* but never reads them.
Proc == [kind: {"shell", "cmd"}, parent: Nat, exited: BOOLEAN,
         reaped: BOOLEAN, code: Nat, pc: {"read", "list", "cond", "cmd",
         "wait", "reap", "done"}, ln: Nat, line: Nat, li: Nat, ci: Nat,
         cj: Nat, status: Nat, wpid: Int, zk: Nat, stop: BOOLEAN]

VARIABLES
    procs,  \* pid -> process record; pid 1 is the shell started by the user
    ran     \* <<line, list, conditional, command>> of every command a
            \* process ran (a cd, or a fork whose child ran execvp)

vars == <<procs, ran>>

Init ==
    /\ procs = <<[kind |-> "shell", parent |-> 0, exited |-> FALSE,
                  reaped |-> FALSE, code |-> 0, pc |-> "read", ln |-> 1,
                  line |-> 0, li |-> 0, ci |-> 0, cj |-> 0, status |-> 0,
                  wpid |-> 0, zk |-> 0, stop |-> FALSE]>>
    /\ ran = <<>>

Pids == 1 .. MaxProcs
Live(p) == p <= Len(procs) /\ ~procs[p].exited
Kids(p) == {q \in 1 .. Len(procs) : procs[q].parent = p /\ ~procs[q].reaped}
Conds(s) == Parsed[s.line][s.li].conds
Cmd(s) == Conds(s)[s.ci].cmds[s.cj]
Pos(s) == <<s.line, s.li, s.ci, s.cj>>

(***************************************************************************)
(* Actions.  s is the process's record, p its pid.                        *)
(***************************************************************************)
Set(p, r) == procs' = [procs EXCEPT ![p] = r]
Shell(p, pc) == Live(p) /\ procs[p].kind = "shell" /\ procs[p].pc = pc

\* main: fgets the next line and run eval_line on it, or leave at end of
\* input (return 0); eval_line first empties the zombie list
ReadLine(p) ==
    LET s == procs[p] IN
    /\ Shell(p, "read")
    /\ IF s.ln > Len(Script)
       THEN Set(p, [s EXCEPT !.exited = TRUE, !.code = 0, !.pc = "done"])
       ELSE IF s.ln = Len(Script) /\ ~FinalNewline
       \* fgets stops at end of file: no '\n', so no eval_line; after
       \* reap_zombies, feof ends the loop
       THEN Set(p, [s EXCEPT !.ln = s.ln + 1, !.pc = "reap"])
       ELSE Set(p, [s EXCEPT !.line = s.ln, !.ln = s.ln + 1, !.li = 1,
                             !.zk = 0, !.pc = "list"])
    /\ UNCHANGED ran

\* eval_line's loop over the lists: a foreground list runs in run_list;
\* stop_process is local to the iteration and starts at 0
RunList(p) ==
    LET s == procs[p] IN
    /\ Shell(p, "list")
    /\ s.li <= Len(Parsed[s.line]) /\ ~Parsed[s.line][s.li].bg
    /\ Set(p, [s EXCEPT !.stop = FALSE, !.ci = 1, !.pc = "cond"])
    /\ UNCHANGED ran

\* a background list: the child runs it with stop_process set, the parent
\* goes on with the next list; if fork fails the parent skips the list
Background(p) ==
    LET s == procs[p] IN
    /\ Shell(p, "list")
    /\ s.li <= Len(Parsed[s.line]) /\ Parsed[s.line][s.li].bg
    /\ IF Len(procs) < MaxProcs
       THEN procs' = Append([procs EXCEPT ![p].li = s.li + 1],
                            [s EXCEPT !.parent = p, !.stop = TRUE,
                                      !.ci = 1, !.pc = "cond"])
       ELSE Set(p, [s EXCEPT !.li = s.li + 1])
    /\ UNCHANGED ran

\* end of eval_line: back in main, reap_zombies
ListsDone(p) ==
    LET s == procs[p] IN
    /\ Shell(p, "list") /\ s.li > Len(Parsed[s.line])
    /\ Set(p, [s EXCEPT !.pc = "reap"])
    /\ UNCHANGED ran

\* run_list's loop over the conditionals
CondStart(p) ==
    LET s == procs[p] IN
    /\ Shell(p, "cond") /\ s.ci <= Len(Conds(s))
    /\ Set(p, [s EXCEPT !.status = 0, !.cj = 1, !.pc = "cmd"])
    /\ UNCHANGED ran

\* run_list returns; a background child then breaks out of eval_line
RunListDone(p) ==
    LET s == procs[p] IN
    /\ Shell(p, "cond") /\ s.ci > Len(Conds(s))
    /\ Set(p, IF s.stop THEN [s EXCEPT !.pc = "reap"]
              ELSE [s EXCEPT !.li = s.li + 1, !.pc = "list"])
    /\ UNCHANGED ran

\* after the last command of a conditional: skip the next conditional if
\* the status does not satisfy this one's && or ||
Skip(s) == LET cont == Conds(s)[s.ci].cont IN
           IF (s.status = 0 /\ cont # 0) \/ (s.status # 0 /\ cont = 0)
           THEN 1 ELSE 0

CondDone(p) ==
    LET s == procs[p] IN
    /\ Shell(p, "cmd") /\ s.cj > Len(Conds(s)[s.ci].cmds)
    /\ Set(p, [s EXCEPT !.ci = s.ci + 1 + Skip(s), !.pc = "cond"])
    /\ UNCHANGED ran

\* start_command for cd: handle_rd and chdir in the shell itself; a failed
\* open() exits the shell with status 1.  Otherwise c->pid is the shell's
\* own pid, so run_list's waitpid fails and status is chdir's result
RunCd(p) ==
    LET s == procs[p] IN
    /\ Shell(p, "cmd") /\ s.cj <= Len(Conds(s)[s.ci].cmds) /\ Cmd(s).cd
    /\ Set(p, IF RdOk(Cmd(s))
              THEN [s EXCEPT !.status = ChdirStatus(Cmd(s)), !.cj = s.cj + 1]
              ELSE [s EXCEPT !.exited = TRUE, !.code = 1, !.pc = "done"])
    /\ ran' = Append(ran, Pos(s))

StartsFork(p) ==
    Shell(p, "cmd") /\ procs[p].cj <= Len(Conds(procs[p])[procs[p].ci].cmds)
    /\ ~Cmd(procs[p]).cd

\* fork fails: start_command returns -1 and run_list waits for any child
ForkFails(p) ==
    /\ StartsFork(p) /\ Len(procs) >= MaxProcs
    /\ Set(p, [procs[p] EXCEPT !.wpid = ANY, !.pc = "wait"])
    /\ UNCHANGED ran

\* fork succeeds, and the child either exits 1 in handle_rd or execs the
\* program execvp finds
ForkExec(p) ==
    LET s == procs[p] IN
    /\ StartsFork(p) /\ Len(procs) < MaxProcs
    /\ ~RdOk(Cmd(s)) \/ Found(Cmd(s))
    /\ procs' = Append([procs EXCEPT ![p].wpid = Len(procs) + 1,
                                     ![p].pc = "wait"],
                       [s EXCEPT !.kind = "cmd", !.parent = p, !.pc = "done",
                                 !.code = IF RdOk(Cmd(s)) THEN ExitCode(Cmd(s))
                                          ELSE 1])
    /\ ran' = Append(ran, Pos(s))

\* fork succeeds but execvp fails and returns: the child, which has
\* appended its fork result 0 to its zombie list, leaves start_command
\* with pid 0, does not wait, takes status 0 from c->status and goes on
\* with run_list as a second shell
ForkNoExec(p) ==
    LET s == procs[p] IN
    /\ StartsFork(p) /\ Len(procs) < MaxProcs
    /\ RdOk(Cmd(s)) /\ ~Found(Cmd(s))
    /\ procs' = Append([procs EXCEPT ![p].wpid = Len(procs) + 1,
                                     ![p].pc = "wait"],
                       [s EXCEPT !.parent = p, !.zk = s.zk + 1,
                                 !.status = 0, !.cj = s.cj + 1])
    /\ ran' = Append(ran, Pos(s))

\* waitpid(pid): blocks until the child exits, reaps it and takes its
\* exit status
WaitChild(p) ==
    LET s == procs[p] IN
    /\ Shell(p, "wait") /\ s.wpid # ANY /\ procs[s.wpid].exited
    /\ procs' = [procs EXCEPT ![s.wpid].reaped = TRUE,
                              ![p] = [s EXCEPT !.status = procs[s.wpid].code,
                                               !.cj = s.cj + 1, !.pc = "cmd"]]
    /\ UNCHANGED ran

\* waitpid(-1) with no children fails, leaving c->status 0
WaitAnyNone(p) ==
    LET s == procs[p] IN
    /\ Shell(p, "wait") /\ s.wpid = ANY /\ Kids(p) = {}
    /\ Set(p, [s EXCEPT !.status = 0, !.cj = s.cj + 1, !.pc = "cmd"])
    /\ UNCHANGED ran

\* waitpid(-1) reaps whichever child exits
WaitAnyReap(p, q) ==
    LET s == procs[p] IN
    /\ Shell(p, "wait") /\ s.wpid = ANY /\ q \in Kids(p) /\ procs[q].exited
    /\ procs' = [procs EXCEPT ![q].reaped = TRUE,
                              ![p] = [s EXCEPT !.status = procs[q].code,
                                               !.cj = s.cj + 1, !.pc = "cmd"]]
    /\ UNCHANGED ran

\* reap_zombies: waitpid(z.pids[i]) for each recorded pid; the recorded
\* pids are all 0, "any child in my process group"
ReapDone(p) ==
    /\ Shell(p, "reap") /\ procs[p].zk = 0
    /\ Set(p, [procs[p] EXCEPT !.pc = "read"])
    /\ UNCHANGED ran

ReapNone(p) ==
    /\ Shell(p, "reap") /\ procs[p].zk > 0 /\ Kids(p) = {}
    /\ Set(p, [procs[p] EXCEPT !.zk = @ - 1])
    /\ UNCHANGED ran

ReapOne(p, q) ==
    /\ Shell(p, "reap") /\ procs[p].zk > 0
    /\ q \in Kids(p) /\ procs[q].exited
    /\ procs' = [procs EXCEPT ![q].reaped = TRUE, ![p].zk = @ - 1]
    /\ UNCHANGED ran

\* a program the shell exec'd runs and exits
CmdExit(p) ==
    /\ Live(p) /\ procs[p].kind = "cmd"
    /\ Set(p, [procs[p] EXCEPT !.exited = TRUE])
    /\ UNCHANGED ran

Terminated == \A p \in 1 .. Len(procs) : procs[p].exited

Done == Terminated /\ UNCHANGED vars

Next ==
    \/ \E p \in Pids :
          \/ ReadLine(p) \/ RunList(p) \/ Background(p) \/ ListsDone(p)
          \/ CondStart(p) \/ RunListDone(p) \/ CondDone(p) \/ RunCd(p)
          \/ ForkFails(p) \/ ForkExec(p) \/ ForkNoExec(p)
          \/ WaitChild(p) \/ WaitAnyNone(p) \/ ReapDone(p) \/ ReapNone(p)
          \/ CmdExit(p)
          \/ \E q \in Pids : WaitAnyReap(p, q) \/ ReapOne(p, q)
    \/ Done

Spec == Init /\ [][Next]_vars

(***************************************************************************)
(* What a POSIX shell runs.  The status of a command is 1 when one of its *)
(* redirections cannot be opened, and otherwise its exit status, 127 when *)
(* it cannot be found, or chdir's result for cd; a pipeline's             *)
(* status is its last command's.  In an AND-OR list the first pipeline    *)
(* runs, and each later one runs exactly when the operator before it is   *)
(* && and the last status is 0, or || and the last status is not 0; a     *)
(* pipeline that does not run leaves the last status as it was.           *)
(***************************************************************************)
PosixStatus(c) ==
    IF ~RdOk(c) THEN 1
    ELSE IF Len(c.argv) > 0 /\ c.argv[1] = "cd" THEN ChdirStatus(c)
    ELSE IF Found(c) THEN ExitCode(c) ELSE 127

PosixRuns(conds) ==
    LET RECURSIVE R(_, _)
        R(k, st) ==
            IF k > Len(conds) THEN {}
            ELSE IF \/ k = 1
                    \/ conds[k - 1].cont = 0 /\ st = 0
                    \/ conds[k - 1].cont = 1 /\ st # 0
                 THEN {k} \cup R(k + 1, PosixStatus(Last(conds[k].cmds)))
                 ELSE R(k + 1, st)
    IN R(1, 0)

Expected ==
    UNION {UNION {UNION {{<<ln, li, ci, cj>> :
                              cj \in DOMAIN Parsed[ln][li].conds[ci].cmds} :
                         ci \in PosixRuns(Parsed[ln][li].conds)} :
                  li \in DOMAIN Parsed[ln]} :
           ln \in DOMAIN Parsed}

-----------------------------------------------------------------------------
TypeOK ==
    /\ procs \in Seq(Proc) /\ Len(procs) <= MaxProcs
    /\ ran \in Seq(Nat \X Nat \X Nat \X Nat)

\* The commands of the script run as a POSIX shell runs them: each at most
\* once, only those && and || select, and all of them once every process
\* has exited.  It relates run_list's skip of one conditional (sh61.c
\* 458-463), the child left running when execvp fails (start_command) and
\* the background child that returns to main's read loop (eval_line) to
\* the commands that actually run.
RunsAsPosix ==
    /\ IsInjective(ran)
    /\ ToSet(ran) \subseteq Expected
    /\ Terminated => Expected \subseteq ToSet(ran)

====
