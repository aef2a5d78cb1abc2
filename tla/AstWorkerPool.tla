---------------------------- MODULE AstWorkerPool ----------------------------
(***************************************************************************)
(* DeterministicAstWorkerPool.parseAndRelease: an asynchronous generator   *)
(* that lets several worker threads parse the files of an analysis and     *)
(* yields the results in the order of the files.                           *)
(*                                                                         *)
(* The generator runs when its consumer asks for a result (Demand) and     *)
(* when the promise it awaits is resolved (Resume); the listeners of the   *)
(* workers and of the abort signal run whenever it is suspended.  Slots and*)
(* tasks count from 1 where the code counts from 0.                        *)
(***************************************************************************)
EXTENDS Naturals, Sequences, FiniteSets

CONSTANTS
    FileCount,    \* inputs.length
    WorkerCount,  \* options.workerCount
    Unparsable,   \* the files for which the parser reports an error
    Faults,       \* what may go wrong: "start", "post", "crash", "reply"
    None          \* the null of the code

ASSUME PoolAssumption ==
    /\ FileCount \in Nat
    /\ WorkerCount \in Nat \ {0}
    /\ None \notin 1 .. FileCount
    /\ None \notin [input : 0 .. FileCount, content : {"source", "released"}, ok : BOOLEAN]
    /\ None \notin {"worker", "cancelled"}

VARIABLES
    aborted,         \* signal.aborted
    processed,       \* the consumer has released the content of the first inputs
    stream,          \* where the generator is: "initial", "waiting", "yielded",
                     \* "closing", "closed"
    ending,          \* how it ends: "complete", "failed", "cancelled", "returned"
    yielded,         \* the result it last yielded
    taskOf,          \* slot.taskIndex
    idleSlots,
    results,
    nextTaskIndex,
    nextResultIndex,
    failure,
    awaiting,        \* wakeConsumer # null: the awaited promise is not resolved
    thread,          \* the worker threads: "none", "running", "crashed",
                     \* "terminating", "gone"
    request,         \* the request a worker has not answered yet
    events           \* the events a worker emitted and the pool has not handled

scheduleVars == <<taskOf, idleSlots, results, nextTaskIndex, nextResultIndex>>
workerVars == <<thread, request, events>>
poolVars == <<stream, ending, yielded, scheduleVars, failure, awaiting, workerVars>>

-----------------------------------------------------------------------------
(* Data *)

Lesser(m, n) == IF m < n THEN m ELSE n

Tasks == 1 .. FileCount
Slots == 1 .. Lesser(WorkerCount, FileCount)

\* The result for a file: what it was computed from and whether that parses
ParseResult == [input : Tasks, content : {"source", "released"}, ok : BOOLEAN]

\* inputs[t] when the consumer has released the first n inputs
InputContent(t, n) == IF t <= n THEN "released" ELSE "source"

Parsed(t, n) ==
    [input |-> t, content |-> InputContent(t, n), ok |-> t \notin Unparsable]

Message(r) == [kind |-> "message", value |-> r]
Garbage == [kind |-> "garbage", value |-> None]
Error == [kind |-> "error", value |-> None]
Exit == [kind |-> "exit", value |-> None]
Event == {Message(r) : r \in ParseResult} \cup {Garbage, Error, Exit}

\* Types
PoolTypeOK ==
    /\ stream \in {"initial", "waiting", "yielded", "closing", "closed"}
    /\ ending \in {"open", "complete", "failed", "cancelled", "returned"}
    /\ yielded \in ParseResult \cup {None}
    /\ taskOf \in [Slots -> Tasks \cup {None}]
    /\ idleSlots \subseteq Slots
    /\ results \in [Tasks -> ParseResult \cup {None}]
    /\ nextTaskIndex \in 1 .. FileCount + 1
    /\ nextResultIndex \in 1 .. FileCount + 1
    /\ failure \in {None, "worker", "cancelled"}
    /\ awaiting \in BOOLEAN
    /\ thread \in [Slots -> {"none", "running", "crashed", "terminating", "gone"}]
    /\ request \in [Slots -> ParseResult \cup {None}]
    /\ events \in [Slots -> Seq(Event)]

PoolInit ==
    /\ stream = "initial"
    /\ ending = "open"
    /\ yielded = None
    /\ taskOf = [s \in Slots |-> None]
    /\ idleSlots = {}
    /\ results = [t \in Tasks |-> None]
    /\ nextTaskIndex = 1
    /\ nextResultIndex = 1
    /\ failure = None
    /\ awaiting = FALSE
    /\ thread = [s \in Slots |-> "none"]
    /\ request = [s \in Slots |-> None]
    /\ events = [s \in Slots |-> <<>>]

-----------------------------------------------------------------------------
(* Scheduling *)

\* Where s comes in the order of the slots S
Rank(S, s) == Cardinality({o \in S : o <= s})

\* dispatch() for the slots S in the order of their indices, as long as there are
\* tasks.  The first `sent` posts succeed; if one fails, the remaining slots get
\* no task.
Dispatch(S, sent) ==
    LET count == Lesser(Cardinality(S), FileCount + 1 - nextTaskIndex)
        Task(s) == nextTaskIndex + Rank(S, s) - 1
        Sent == {s \in S : Rank(S, s) <= sent}
        Assigned == {s \in S : Rank(S, s) <= Lesser(sent + 1, count)}
    IN  /\ sent \in 0 .. count
        /\ sent = count \/ "post" \in Faults
        /\ request' = [s \in Slots |-> IF s \in Sent THEN Parsed(Task(s), processed') ELSE request[s]]
        /\ taskOf' = [s \in Slots |-> IF s \in Assigned THEN Task(s) ELSE taskOf[s]]
        /\ idleSlots' = idleSlots \ Assigned
        /\ nextTaskIndex' = nextTaskIndex + Lesser(sent + 1, count)
        /\ failure' = IF sent < count THEN "worker" ELSE failure

\* Mutant: wakeConsumer is not called.
FailAsleep(f) ==
    /\ failure' = IF failure = None THEN f ELSE failure
    /\ UNCHANGED awaiting

\* The first failure counts; it wakes the generator
Fail(f) ==
    IF failure = None
      THEN failure' = f /\ awaiting' = FALSE
      ELSE UNCHANGED <<failure, awaiting>>

\* The generator leaves its try block: every worker that still runs is told to
\* terminate
Close(how) ==
    /\ stream' = "closing"
    /\ ending' = how
    /\ thread' = [s \in Slots |-> IF thread[s] = "running" THEN "terminating" ELSE thread[s]]
    /\ UNCHANGED <<yielded, scheduleVars, failure, awaiting, request, events>>

\* parseAndRelease up to its first await
StartPool ==
    /\ stream = "initial"
    /\ UNCHANGED processed
    /\ \/ /\ aborted
          /\ stream' = "closed"
          /\ ending' = "cancelled"
          /\ UNCHANGED <<yielded, scheduleVars, failure, awaiting, workerVars>>
       \/ /\ ~aborted
          /\ \E sent \in 0 .. Cardinality(Slots) : Dispatch(Slots, sent)
          /\ IF failure' = None
               THEN /\ stream' = "waiting"
                    /\ awaiting' = TRUE
                    /\ thread' = [s \in Slots |-> "running"]
                    /\ UNCHANGED ending
               ELSE /\ stream' = "closing"
                    /\ ending' = "failed"
                    /\ thread' = [s \in Slots |-> "terminating"]
                    /\ UNCHANGED awaiting
          /\ UNCHANGED <<yielded, results, nextResultIndex, events>>
       \/ /\ ~aborted
          /\ "start" \in Faults
          /\ \E s \in Slots :   \* the factory throws for s
                thread' = [o \in Slots |-> IF o < s THEN "terminating" ELSE "none"]
          /\ stream' = "closing"
          /\ ending' = "failed"
          /\ UNCHANGED <<yielded, scheduleVars, failure, awaiting, request, events>>

YieldResult ==
    /\ nextResultIndex <= FileCount
    /\ failure = None
    /\ results[nextResultIndex] # None
    /\ stream' = "yielded"
    /\ yielded' = results[nextResultIndex]
    /\ results' = [results EXCEPT ![nextResultIndex] = None]
    /\ nextResultIndex' = nextResultIndex + 1
    /\ \E sent \in 0 .. Cardinality(idleSlots) : Dispatch(idleSlots, sent)
    /\ UNCHANGED <<ending, awaiting, thread, events>>

AwaitResult ==
    /\ nextResultIndex <= FileCount
    /\ failure = None
    /\ results[nextResultIndex] = None
    /\ stream' = "waiting"
    /\ awaiting' = TRUE
    /\ UNCHANGED <<ending, yielded, scheduleVars, failure, workerVars>>

\* The loop of stream(): yield the next result, wait for it, or end
Advance ==
    \/ YieldResult
    \/ AwaitResult
    \/ /\ nextResultIndex <= FileCount
       /\ failure # None
       /\ Close(IF failure = "cancelled" THEN "cancelled" ELSE "failed")
    \/ /\ nextResultIndex > FileCount
       /\ Close("complete")

\* The consumer asks for another result
Demand == stream = "yielded" /\ Advance

\* The promise the generator awaits was resolved
Resume == stream = "waiting" /\ ~awaiting /\ UNCHANGED processed /\ Advance

\* The consumer stops early
ReturnEarly == stream = "yielded" /\ Close("returned")

\* Mutant: the terminations are not awaited.
ClosedAtOnce ==
    /\ stream = "closing"
    /\ stream' = "closed"
    /\ UNCHANGED <<ending, yielded, scheduleVars, failure, awaiting, workerVars, processed>>

\* Promise.allSettled of the terminations
Closed ==
    /\ stream = "closing"
    /\ \A s \in Slots : thread[s] \in {"none", "gone"}
    /\ stream' = "closed"
    /\ UNCHANGED <<ending, yielded, scheduleVars, failure, awaiting, workerVars, processed>>

\* Mutant: the listener is only there while a promise is awaited.
AbortListenerWhileWaiting ==
    /\ IF stream = "waiting" THEN Fail("cancelled") ELSE UNCHANGED <<failure, awaiting>>
    /\ UNCHANGED <<stream, ending, yielded, scheduleVars, workerVars>>

\* The listener of the abort signal, while stream() runs
AbortListener ==
    /\ IF stream \in {"waiting", "yielded"} THEN Fail("cancelled") ELSE UNCHANGED <<failure, awaiting>>
    /\ UNCHANGED <<stream, ending, yielded, scheduleVars, workerVars>>

-----------------------------------------------------------------------------
(* The listeners of a worker's events *)

\* Mutant: message.taskId is not compared with slot.taskIndex.
AnswersAnyTask(s, e) == e.kind = "message"

AnswersItsTask(s, e) == e.kind = "message" /\ taskOf[s] = e.value.input

HandleMessage(s) ==
    LET e == Head(events[s])
    IN  /\ events[s] # <<>>
        /\ e.kind \in {"message", "garbage"}
        /\ events' = [events EXCEPT ![s] = Tail(@)]
        /\ IF failure = None /\ AnswersItsTask(s, e)
             THEN /\ results' = [results EXCEPT ![e.value.input] = e.value]
                  /\ taskOf' = [taskOf EXCEPT ![s] = None]
                  /\ idleSlots' = idleSlots \cup {s}
                  /\ awaiting' = FALSE
                  /\ UNCHANGED failure
             ELSE /\ Fail("worker")
                  /\ UNCHANGED <<results, taskOf, idleSlots>>
        /\ UNCHANGED <<stream, ending, yielded, nextTaskIndex, nextResultIndex, thread, request, processed>>

HandleError(s) ==
    /\ events[s] # <<>>
    /\ Head(events[s]).kind = "error"
    /\ events' = [events EXCEPT ![s] = Tail(@)]
    /\ Fail("worker")
    /\ UNCHANGED <<stream, ending, yielded, scheduleVars, thread, request, processed>>

\* An exit after the last result was yielded is none of the pool's business
ExpectsResults == nextResultIndex <= FileCount

HandleExit(s) ==
    /\ events[s] # <<>>
    /\ Head(events[s]).kind = "exit"
    /\ events' = [events EXCEPT ![s] = Tail(@)]
    /\ thread' = [thread EXCEPT ![s] = "gone"]
    /\ IF ExpectsResults THEN Fail("worker") ELSE UNCHANGED <<failure, awaiting>>
    /\ UNCHANGED <<stream, ending, yielded, scheduleVars, request, processed>>

-----------------------------------------------------------------------------
(* The worker threads (ast-worker.ts), and what may become of them *)

WorkerParses(s) ==
    /\ thread[s] = "running"
    /\ request[s] # None
    /\ events' = [events EXCEPT ![s] = Append(@, Message(request[s]))]
    /\ request' = [request EXCEPT ![s] = None]
    /\ UNCHANGED thread

WorkerCrashes(s) ==
    /\ "crash" \in Faults
    /\ thread[s] = "running"
    /\ thread' = [thread EXCEPT ![s] = "crashed"]
    /\ request' = [request EXCEPT ![s] = None]
    /\ \E last \in {<<Exit>>, <<Error, Exit>>} : events' = [events EXCEPT ![s] = @ \o last]

\* Another script than ast-worker.ts was configured
WorkerRepliesWrongly(s) ==
    /\ "reply" \in Faults
    /\ thread[s] = "running"
    /\ request[s] # None
    /\ \E e \in {Garbage} \cup {Message(Parsed(t, 0)) : t \in Tasks \ {request[s].input}} :
          events' = [events EXCEPT ![s] = Append(@, e)]
    /\ request' = [request EXCEPT ![s] = None]
    /\ UNCHANGED thread

\* terminate() resolves.  The exit event finds a generator that has ended.
WorkerTerminates(s) ==
    /\ thread[s] = "terminating"
    /\ thread' = [thread EXCEPT ![s] = "gone"]
    /\ request' = [request EXCEPT ![s] = None]
    /\ events' = [events EXCEPT ![s] = <<>>]

WorkerStep(s) ==
    /\ WorkerParses(s) \/ WorkerTerminates(s)
    /\ UNCHANGED <<stream, ending, yielded, scheduleVars, failure, awaiting, processed>>

WorkerFault(s) ==
    /\ WorkerCrashes(s) \/ WorkerRepliesWrongly(s)
    /\ UNCHANGED <<stream, ending, yielded, scheduleVars, failure, awaiting, processed>>

ListenerStep(s) == HandleMessage(s) \/ HandleError(s) \/ HandleExit(s)
=============================================================================
