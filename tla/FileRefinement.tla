--------------------------- MODULE FileRefinement ---------------------------
(***************************************************************************)
(* The transfer of FileAccess to one destination implements Transfer: its  *)
(* loop, its retries and its answers from whoever sends them are invisible *)
(* to a reader of the stations' files and of the exit code.                *)
(***************************************************************************)
EXTENDS FileAccess

Decision ==
    IF pc # "done" THEN "running" ELSE IF rv = HPAV_OK THEN "ok" ELSE "failed"

T == INSTANCE Transfer WITH
         Stations <- Sta,
         job <- [to |-> Receivers(MacList[1]), fragments |-> Fragments],
         carried <- stored,
         outcome <- Decision

\* Seen from the stations' files and its exit code, the command with one
\* destination is a Transfer: no step leaves a hole in a file, none decides
\* twice or reports a success that is not one, and a decision comes.
ImplementsTransfer == T!Spec

\* The part of it that says what no step does.
TransferSafety == T!Init /\ [][T!Next]_(T!vars)
=============================================================================
