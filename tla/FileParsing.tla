----------------------------- MODULE FileParsing -----------------------------
(***************************************************************************)
(* What an analysis is promised by the parsing of its files                *)
(* (DNAOrchestrator.parseRepositoryFiles over IAstEngine.parseFiles): every*)
(* file is answered once and in the order of the inputs; unless the        *)
(* analysis is aborted, a file that parses is recorded with what its source*)
(* says and no other file is reported as failed.  Nothing is said of       *)
(* workers.                                                                *)
(***************************************************************************)
EXTENDS Naturals

CONSTANTS
    FileCount,    \* the files to parse are numbered 1 .. FileCount
    Unparsable    \* those for which the parser reports an error

VARIABLES
    answered,     \* how many files were answered
    files,        \* the parsed files
    failed,       \* the files reported as failed
    aborted,      \* the abort signal of the analysis
    stage         \* "parsing", "complete", "cancelled"

vars == <<answered, files, failed, aborted, stage>>

Init ==
    /\ answered = 0
    /\ files = {}
    /\ failed = {}
    /\ aborted = FALSE
    /\ stage = "parsing"

Answer ==
    LET file == answered + 1
    IN  /\ stage = "parsing"
        /\ file <= FileCount
        /\ answered' = file
        /\ \/ /\ file \notin Unparsable
              /\ files' = files \cup {[input |-> file, content |-> "source"]}
              /\ failed' = failed
           \/ /\ file \in Unparsable \/ aborted
              /\ failed' = failed \cup {file}
              /\ files' = files
        /\ UNCHANGED <<aborted, stage>>

Abort ==
    /\ stage = "parsing"
    /\ aborted' = TRUE
    /\ UNCHANGED <<answered, files, failed, stage>>

Finish ==
    /\ stage = "parsing"
    /\ aborted \/ answered = FileCount
    /\ stage' = IF aborted THEN "cancelled" ELSE "complete"
    /\ UNCHANGED <<answered, files, failed, aborted>>

Next == Answer \/ Abort \/ Finish

Spec == Init /\ [][Next]_vars
=============================================================================
