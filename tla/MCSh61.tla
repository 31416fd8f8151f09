------------------------------- MODULE MCSh61 -------------------------------
(***************************************************************************)
(* Scripts for sh61 run as `sh61 -q script`: the file is read into the    *)
(* stdio buffer by the first fgets, so a forked shell keeps its own copy  *)
(* of the lines not yet read.                                              *)
(***************************************************************************)
EXTENDS Sh61, TLC

\* false && true && true
MC_Chain == <<<<"false", "&&", "true", "&&", "true">>>>
\* a command execvp cannot find, then a second line
MC_NoCmd == <<<<"nocmd">>, <<"true">>>>
\* a background list, then a second line
MC_Background == <<<<"true", "&">>, <<"false">>>>
\* cd whose output redirection cannot be opened, then a second line
MC_RedirCd == <<<<"cd", "dir", ">", "nof">>, <<"true">>>>
\* a pipeline with redirections, in a conditional and in the background
MC_Redir == <<<<"true", "<", "f", "|", "false", "2>", "nof", "||",
                "cd", "dir", ">", "f", "&">>>>
\* one command on a last line without a newline (with FinalNewline = FALSE)
MC_OneLine == <<<<"true">>>>
=============================================================================
