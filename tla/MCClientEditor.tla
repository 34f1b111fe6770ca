--------------------------- MODULE MCClientEditor ---------------------------
(***************************************************************************)
(* ClientEditor for TLC: two files with a conflict on the same line, and   *)
(* the statement of the sources that the editor does not keep of them.     *)
(***************************************************************************)
EXTENDS ClientEditor

TwoConflicts ==
    {[opens |-> 2, shows |-> 1, closes |-> 0, refreshes |-> 0, types |-> 1, acts |-> 1, saves |-> 0,
      edits |-> 0, fails |-> 0, hunks |-> 1, conflicts |-> {"f", "g"}]}

\* "a DIRTY buffer is the only copy of the reader's text and keeps it"
\* (editor-openers.ts:445-446): edits leave a loaded buffer when the reader discards them, or
\* resolves a conflict of that buffer over what they typed since.
DirtyKeepsText == [][\A f \in Files : Loses(f) => LetGo(f) \/ Outrun(f)]_edvars
=============================================================================
