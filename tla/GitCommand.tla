----------------------------- MODULE GitCommand -----------------------------
(***************************************************************************)
(* A child process of the impact queries, as the promise around spawn sees *)
(* it: runGit of the two Git providers, and runProcess and archiveTree of  *)
(* the materializer of historical trees.  They differ in what a command's  *)
(* output goes to: a string, or the archive file, which is flushed to disk *)
(* on its own time and after whose end nobody but the listeners waits.     *)
(*                                                                         *)
(* Output is counted in chunks.  Every listener runs to its end before     *)
(* another event is delivered.                                             *)
(***************************************************************************)
EXTENDS Integers

CONSTANTS
    Chunks,     \* chunks a command writes at most
    MaxChunks   \* limit: MAX_OUTPUT_BYTES, or maxArchiveBytes for an archive

ASSUME CommandAssumption == Chunks \in Nat /\ MaxChunks \in Nat

VARIABLES
    signal,     \* "none": the caller gave none
    command     \* the promise, the child process and its output

Command ==
    [kind : {"none", "text", "archive"},
     child : {"none", "running", "exited", "failed", "killed"},
     size : 0 .. Chunks,       \* what the command has to say
     read : 0 .. Chunks,       \* chunks its 'data' events delivered
     flushed : 0 .. Chunks,    \* chunks of the archive file on disk
     file : {"none", "open", "ended", "finished", "destroyed"},
     childClosed : BOOLEAN,
     timer : BOOLEAN,
     listening : BOOLEAN,      \* to the signal's 'abort'
     outcome : {"pending", "ok", "failed"}]

NoCommand ==
    [kind |-> "none", child |-> "none", size |-> 0, read |-> 0, flushed |-> 0,
     file |-> "none", childClosed |-> FALSE, timer |-> FALSE, listening |-> FALSE,
     outcome |-> "ok"]

CommandTypeOK ==
    /\ signal \in {"none", "live", "aborted"}
    /\ command \in Command

Running == command.outcome = "pending"
Archiving == command.kind = "archive"

\* An 'abort' listener added after the abort is never called.
Spawned(kind, size) ==
    [kind |-> kind, child |-> "running", size |-> size, read |-> 0, flushed |-> 0,
     file |-> IF kind = "archive" THEN "open" ELSE "none", childClosed |-> FALSE,
     timer |-> TRUE, listening |-> signal = "live", outcome |-> "pending"]

\* Mutant: a process whose promise was rejected is left alone.
SettledAlive(c, outcome) ==
    [c EXCEPT !.outcome = outcome, !.timer = FALSE, !.listening = FALSE,
              !.file = IF outcome # "ok" /\ c.kind = "archive" THEN "destroyed" ELSE @]

\* finish: settles the promise once, and on an error destroys the streams and
\* kills the process.
Settled(c, outcome) ==
    [c EXCEPT !.outcome = outcome, !.timer = FALSE, !.listening = FALSE,
              !.child = IF outcome # "ok" /\ c.child = "running" THEN "killed" ELSE @,
              !.file = IF outcome # "ok" /\ c.kind = "archive" THEN "destroyed" ELSE @]

Finish(c, outcome) == command' = IF c.outcome = "pending" THEN Settled(c, outcome) ELSE c

-----------------------------------------------------------------------------
(* Events *)

ReadChunk ==
    /\ command.child = "running"
    /\ Running
    /\ command.read < command.size
    /\ LET c == [command EXCEPT !.read = @ + 1]
       IN  IF c.read > MaxChunks THEN Finish(c, "failed") ELSE command' = c

FlushChunk ==
    /\ command.file \in {"open", "ended"}
    /\ command.flushed < command.read
    /\ command' = [command EXCEPT !.flushed = @ + 1]

\* Standard output ends: the archive file is ended too.
EndOutput ==
    /\ command.child = "running"
    /\ command.file = "open"
    /\ command.read = command.size
    /\ command' = [command EXCEPT !.file = "ended"]

\* Mutant: the exit of git archive settles the promise by itself.
CloseUnflushed ==
    /\ command.child = "running"
    /\ Running
    /\ command.read = command.size
    /\ Archiving => command.file # "open"
    /\ Finish([command EXCEPT !.child = "exited"], "ok")

\* 'close' with code 0 comes after the streams of the process have ended.
Close ==
    /\ command.child = "running"
    /\ Running
    /\ command.read = command.size
    /\ Archiving => command.file # "open"
    /\ LET c == [command EXCEPT !.child = "exited"]
       IN  IF ~Archiving \/ c.file = "finished"
             THEN Finish(c, "ok")
             ELSE command' = [c EXCEPT !.childClosed = TRUE]

FinishFile ==
    /\ command.file = "ended"
    /\ command.flushed = command.read
    /\ LET c == [command EXCEPT !.file = "finished"]
       IN  IF c.childClosed THEN Finish(c, "ok") ELSE command' = c

\* Another exit code, or no such program.
ChildFails ==
    /\ command.child = "running"
    /\ Finish([command EXCEPT !.child = "failed"], "failed")

\* Too much standard error output, or a write error of the archive file.
StreamFails ==
    /\ Running
    /\ command.child = "running" \/ command.file \in {"open", "ended"}
    /\ Finish(command, "failed")

\* Mutant: the limit on time is forgotten once the process has exited.
TimeoutOfChild ==
    /\ command.timer
    /\ command.child = "running"
    /\ Finish(command, "failed")

Timeout ==
    /\ command.timer
    /\ Finish(command, "failed")

\* The caller aborts: the listener of the running command is called.
AbortSignal ==
    /\ signal = "live"
    /\ signal' = "aborted"
    /\ IF command.listening THEN Finish(command, "failed") ELSE UNCHANGED command

CommandStep ==
    /\ \/ ReadChunk \/ FlushChunk \/ EndOutput \/ Close \/ FinishFile
       \/ ChildFails \/ StreamFails \/ Timeout
    /\ UNCHANGED signal

-----------------------------------------------------------------------------
(* Properties *)

\* What a command leaves behind: once its promise is settled neither its timer
\* nor its abort listener is left, and unless it exited by itself its process
\* was killed.  Every path through the listeners ends in the same finish.
CommandIsReleased ==
    ~Running =>
        /\ ~command.timer
        /\ ~command.listening
        /\ command.child # "running"

=============================================================================
