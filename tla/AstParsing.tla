----------------------------- MODULE AstParsing ------------------------------
(***************************************************************************)
(* The parsing stage of an analysis: the loop of                           *)
(* DNAOrchestrator.parseRepositoryFiles, which consumes the generator      *)
(* AstEngine.parseFiles, which consumes the worker pool and goes on        *)
(* without it when the pool fails.                                         *)
(*                                                                         *)
(* The loop's body has no await, and asking a suspended generator for a    *)
(* result runs it up to its next await or yield.  So Process is one step   *)
(* through all three: the body, the rest of the engine's iteration, and    *)
(* what the pool does when it is asked.                                    *)
(***************************************************************************)
EXTENDS AstWorkerPool

CONSTANT MinimumParallelFiles   \* options.minimumParallelFiles

ASSUME EngineAssumption == MinimumParallelFiles \in Nat \ {0}

VARIABLES
    engine,            \* where parseFiles is, see below
    answer,            \* the result it is about to yield, or has yielded
    parsedInParallel,
    index,             \* of the sequential loop
    files,             \* of the orchestrator: the parsed files
    failed,            \*   failedPaths
    stage              \*   "parsing", "complete", "cancelled"

engineVars == <<engine, answer, parsedInParallel, index>>
stageVars == <<files, failed, stage>>
vars == <<aborted, processed, poolVars, engineVars, stageVars>>

(***************************************************************************)
(* engine:                                                                 *)
(*   "start"       called, not asked for a result yet                      *)
(*   "streaming"   awaits the pool                                         *)
(*   "yieldPooled", "yieldAborted"   yielded from the loop over the pool   *)
(*   "returning"   leaves that loop, awaits the pool                       *)
(*   "parsing"     awaits parseFile                                        *)
(*   "yieldParsed" yielded from the sequential loop                        *)
(*   "yieldLast"   yielded a cancellation, with nothing left to do         *)
(*   "done"                                                                *)
(***************************************************************************)
Yields == {"yieldPooled", "yieldAborted", "yieldParsed", "yieldLast"}

\* Err(new Error('AST parsing cancelled')), whatever file it is counted for
Cancelled == [input |-> 0, content |-> "source", ok |-> FALSE]

CanParseInParallel == WorkerCount > 1 /\ FileCount >= MinimumParallelFiles

Init ==
    /\ aborted = FALSE
    /\ processed = 0
    /\ PoolInit
    /\ engine = "start"
    /\ answer = None
    /\ parsedInParallel = 0
    /\ index = 0
    /\ files = {}
    /\ failed = {}
    /\ stage = "parsing"

-----------------------------------------------------------------------------
(* AstEngine.parseFiles *)

\* The head of the sequential loop
ParseFrom(i) ==
    \/ /\ i > FileCount
       /\ engine' = "done"
       /\ UNCHANGED <<answer, index>>
    \/ /\ i <= FileCount
       /\ aborted
       /\ engine' = "yieldLast"
       /\ answer' = Cancelled
       /\ UNCHANGED index
    \/ /\ i <= FileCount
       /\ ~aborted
       /\ engine' = "parsing"
       /\ answer' = Parsed(i, processed')
       /\ index' = i

Start ==
    /\ engine = "start"
    /\ UNCHANGED processed
    /\ \/ /\ CanParseInParallel
          /\ StartPool
          /\ engine' = "streaming"
          /\ UNCHANGED <<answer, index>>
       \/ /\ ~CanParseInParallel \/ "script" \in Faults   \* workerScriptPath is null
          /\ ParseFrom(1)
          /\ UNCHANGED poolVars
    /\ UNCHANGED <<parsedInParallel, stageVars, aborted>>

\* Mutant: the results taken from the pool are not counted.
TakeResultUncounted ==
    /\ engine = "streaming"
    /\ stream = "yielded"
    /\ IF aborted
         THEN engine' = "yieldAborted" /\ answer' = Cancelled
         ELSE engine' = "yieldPooled" /\ answer' = yielded
    /\ UNCHANGED <<parsedInParallel, index, poolVars, processed, stageVars, aborted>>

TakeResult ==
    /\ engine = "streaming"
    /\ stream = "yielded"
    /\ IF aborted
         THEN engine' = "yieldAborted" /\ answer' = Cancelled /\ UNCHANGED parsedInParallel
         ELSE engine' = "yieldPooled" /\ answer' = yielded /\ parsedInParallel' = parsedInParallel + 1
    /\ UNCHANGED <<index, poolVars, processed, stageVars, aborted>>

PoolEnds ==
    /\ engine = "streaming"
    /\ stream = "closed"
    /\ UNCHANGED processed
    /\ \/ /\ ending = "complete"
          /\ engine' = "done"
          /\ UNCHANGED <<answer, index>>
       \/ /\ ending # "complete"
          /\ ending = "cancelled" \/ aborted
          /\ engine' = "yieldLast"
          /\ answer' = Cancelled
          /\ UNCHANGED index
       \/ /\ ending # "complete"
          /\ ~(ending = "cancelled" \/ aborted)
          /\ ParseFrom(parsedInParallel + 1)
    /\ UNCHANGED <<parsedInParallel, poolVars, stageVars, aborted>>

PoolReturned ==
    /\ engine = "returning"
    /\ stream = "closed"
    /\ engine' = "done"
    /\ UNCHANGED <<answer, parsedInParallel, index, poolVars, processed, stageVars, aborted>>

\* parseFile looks at the signal again when the parser succeeded
FinishFile ==
    /\ engine = "parsing"
    /\ engine' = "yieldParsed"
    /\ answer' = IF aborted /\ answer.ok THEN Cancelled ELSE answer
    /\ UNCHANGED <<parsedInParallel, index, poolVars, processed, stageVars, aborted>>

-----------------------------------------------------------------------------
(* DNAOrchestrator.parseRepositoryFiles *)

\* A result is attributed to the next input, whose content is released
Record ==
    /\ processed' = processed + 1
    /\ IF answer.ok
         THEN /\ files' = files \cup {[input |-> answer.input, content |-> answer.content]}
              /\ UNCHANGED failed
         ELSE /\ failed' = failed \cup ({processed + 1} \cap Tasks)
              /\ UNCHANGED files

Process ==
    /\ engine \in Yields
    /\ Record
    /\ \/ /\ engine = "yieldPooled"
          /\ engine' = "streaming"
          /\ Demand
          /\ UNCHANGED <<answer, index>>
       \/ /\ engine = "yieldAborted"
          /\ engine' = "returning"
          /\ ReturnEarly
          /\ UNCHANGED <<answer, index>>
       \/ /\ engine = "yieldParsed"
          /\ ParseFrom(index + 1)
          /\ UNCHANGED poolVars
       \/ /\ engine = "yieldLast"
          /\ engine' = "done"
          /\ UNCHANGED <<answer, index, poolVars>>
    /\ UNCHANGED <<parsedInParallel, stage, aborted>>

\* Inputs without an answer count as failed
FinishStage ==
    /\ engine = "done"
    /\ stage = "parsing"
    /\ IF aborted
         THEN stage' = "cancelled" /\ UNCHANGED failed
         ELSE stage' = "complete" /\ failed' = failed \cup {t \in Tasks : t > processed}
    /\ UNCHANGED <<files, engineVars, poolVars, processed, aborted>>

-----------------------------------------------------------------------------

\* The user cancels the analysis
Abort ==
    /\ stage = "parsing"
    /\ ~aborted
    /\ aborted' = TRUE
    /\ AbortListener
    /\ UNCHANGED <<processed, engineVars, stageVars>>

EngineStep == Start \/ TakeResult \/ PoolEnds \/ PoolReturned \/ FinishFile

PoolStep ==
    /\ \/ Resume
       \/ Closed
       \/ \E s \in Slots : WorkerStep(s) \/ ListenerStep(s)
    /\ UNCHANGED <<engineVars, stageVars, aborted>>

Fault ==
    /\ \E s \in Slots : WorkerFault(s)
    /\ UNCHANGED <<engineVars, stageVars, aborted>>

ParsingStep == EngineStep \/ Process \/ FinishStage \/ PoolStep

Next == ParsingStep \/ Abort \/ Fault

Spec == Init /\ [][Next]_vars

\* The event loop runs what is ready, a parser returns and a worker that is told
\* to terminates; weak fairness of each worker's steps, because one that is slow
\* does not stop the others
Fairness ==
    /\ WF_vars(EngineStep \/ Process \/ FinishStage)
    /\ WF_vars((Resume \/ Closed) /\ UNCHANGED <<engineVars, stageVars, aborted>>)
    /\ \A s \in Slots :
          WF_vars((WorkerStep(s) \/ ListenerStep(s)) /\ UNCHANGED <<engineVars, stageVars, aborted>>)

FairSpec == Spec /\ Fairness

-----------------------------------------------------------------------------
(* Properties *)

\* Types
TypeOK ==
    /\ aborted \in BOOLEAN
    /\ processed \in 0 .. FileCount
    /\ PoolTypeOK
    /\ engine \in Yields \cup {"start", "streaming", "returning", "parsing", "done"}
    /\ answer \in ParseResult \cup {None, Cancelled}
    /\ parsedInParallel \in 0 .. FileCount
    /\ index \in 0 .. FileCount
    /\ files \subseteq [input : Tasks, content : {"source", "released"}]
    /\ failed \subseteq Tasks
    /\ stage \in {"parsing", "complete", "cancelled"}

\* The stage is what an analysis is promised: with workers that finish in any
\* order, crash, or cannot be started, a fallback in the middle of the files, and
\* contents released behind the consumer, every file is answered once, in order,
\* from its source (packages/ast-engine/src/ast-engine.ts:169-210).
Promise == INSTANCE FileParsing WITH answered <- processed
ParsesEveryFile == Promise!Spec

\* While the generator waits, the promise it awaits is going to be resolved: the
\* next result is not there yet, nothing has failed, and a worker is at work on
\* that very file or has sent its answer (the idle slots are only given tasks when
\* a result is consumed).
NextResultIsUnderWay ==
    stream = "waiting" /\ awaiting =>
      /\ failure = None
      /\ results[nextResultIndex] = None
      /\ \E s \in Slots :
            /\ taskOf[s] = nextResultIndex
            /\ events[s] # <<>> \/ (thread[s] = "running" /\ request[s] # None)

\* As long as nothing failed, a file that was dispatched and not yet yielded is in
\* one place, a slot or the buffered results, and no other file is.
TasksAreInOnePlace ==
    LET Holders(t) == {s \in Slots : taskOf[s] = t}
    IN  stream \in {"waiting", "yielded"} /\ failure = None =>
          /\ idleSlots = Holders(None)
          /\ \A t \in Tasks :
                Cardinality(Holders(t)) + (IF results[t] = None THEN 0 ELSE 1)
                  = IF t \in nextResultIndex .. nextTaskIndex - 1 THEN 1 ELSE 0

\* When the stage is over no worker thread is left, however it ended.
WorkersAreTerminated ==
    stage # "parsing" => \A s \in Slots : thread[s] \in {"none", "gone"}

\* Once the signal is aborted no file is sent to a worker and none is parsed by
\* the engine itself.
AbortStartsNothing ==
    [][aborted => /\ \A s \in Slots : request'[s] \in {request[s], None}
                  /\ engine' = "parsing" => engine = "parsing"]_vars

\* The stage comes to an end: no lost wake-up, no task without a worker, no
\* termination waited for in vain, for any faults and with or without an abort.
StageEnds == <>(stage # "parsing")
=============================================================================
