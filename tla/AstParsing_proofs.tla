-------------------------- MODULE AstParsing_proofs --------------------------
(***************************************************************************)
(* Proofs about the parsing stage, for any number of files and workers and *)
(* any faults: it implements FileParsing, leaves no worker thread behind,  *)
(* starts nothing once it is aborted, and never waits for a result that no *)
(* worker is going to send.                                                *)
(***************************************************************************)
EXTENDS AstParsing, FiniteSetTheorems, TLAPS

-----------------------------------------------------------------------------
(* The inductive invariant *)

\* A message that carries the result for the source of a file, or no message
SourceEvent ==
    {e \in Event : e.kind = "message" => e.value = Parsed(e.value.input, 0)}

\* What the pool holds of a file was computed from the file's source, and is held
\* under the file's number; a result belongs to a file that was dispatched.
ScheduleInv ==
    /\ \A t \in Tasks : results[t] # None => results[t] = Parsed(t, 0) /\ t < nextTaskIndex
    /\ \A s \in Slots : taskOf[s] # None => taskOf[s] < nextTaskIndex
    /\ \A s \in Slots : request[s] # None => request[s] = Parsed(request[s].input, 0)
    /\ \A s \in Slots : events[s] \in Seq(SourceEvent)
    /\ stream = "yielded" => yielded = Parsed(nextResultIndex - 1, 0)

\* A cancellation is due to the signal, and an open stream knows of it.
FailureInv ==
    /\ failure = "cancelled" => aborted
    /\ aborted /\ stream \in {"waiting", "yielded"} => failure # None

\* Before it starts and after it ended the pool has no worker threads.
ThreadInv ==
    stream \in {"initial", "closed"} => \A s \in Slots : thread[s] \in {"none", "gone"}

\* Where the engine, the pool and the orchestrator are relative to each other
EngineInv ==
    /\ engine = "start" =>
         /\ stream = "initial"
         /\ nextResultIndex = 1
         /\ nextTaskIndex = 1
         /\ processed = 0
         /\ parsedInParallel = 0
    /\ engine \in {"streaming", "yieldPooled"} =>
         /\ parsedInParallel = IF engine = "streaming" THEN processed ELSE processed + 1
         /\ stream = "waiting" => nextResultIndex = processed + 1
         /\ stream = "yielded" => nextResultIndex = processed + 2
         /\ stream \in {"closing", "closed"} =>
              /\ ending \in {"complete", "failed", "cancelled"}
              /\ IF ending = "complete" THEN processed = FileCount ELSE processed < FileCount
              /\ ending = "cancelled" => aborted
    /\ engine = "streaming" => stream # "initial"
    /\ engine = "returning" => stream \in {"closing", "closed"}
    /\ engine = "yieldPooled" => stream = "yielded" /\ answer = Parsed(processed + 1, 0)
    /\ engine = "yieldAborted" =>
         /\ stream = "yielded"
         /\ processed < FileCount
    /\ engine \in {"yieldAborted", "yieldLast"} => answer = Cancelled
    /\ engine \in {"yieldAborted", "yieldLast", "returning"} => aborted
    /\ engine = "parsing" => index = processed + 1 /\ answer = Parsed(index, 0)
    /\ engine = "yieldParsed" =>
         /\ index = processed + 1
         /\ answer = Parsed(index, 0) \/ (aborted /\ answer = Cancelled)
    /\ engine = "yieldLast" => processed < FileCount
    /\ engine = "done" => aborted \/ processed = FileCount
    /\ engine \in {"parsing", "yieldParsed", "yieldLast", "done"} => stream \in {"initial", "closed"}
    /\ stage # "parsing" => engine = "done"

PoolInv == PoolTypeOK /\ ScheduleInv /\ FailureInv /\ ThreadInv

Inv == TypeOK /\ PoolInv /\ EngineInv
-----------------------------------------------------------------------------
(* Data *)

\* null is no file and no result.
LEMMA NoneIsNoResult ==
    /\ None \notin Tasks
    /\ None \notin ParseResult
    /\ None # Cancelled
    /\ None # "worker" /\ None # "cancelled"
    /\ Cancelled \notin ParseResult
<1>1. ParseResult \subseteq [input : 0 .. FileCount, content : {"source", "released"}, ok : BOOLEAN]
  BY PoolAssumption DEF ParseResult, Tasks
<1>2. Cancelled \in [input : 0 .. FileCount, content : {"source", "released"}, ok : BOOLEAN]
  BY PoolAssumption DEF Cancelled
<1>3. Cancelled \notin ParseResult
  BY DEF Cancelled, ParseResult, Tasks
<1>4. QED BY <1>1, <1>2, <1>3, PoolAssumption DEF Tasks

\* The result for a file whose content is not released is that for its source.
LEMMA ParsedFromSource ==
    ASSUME NEW t \in Tasks, NEW n \in Nat
    PROVE  /\ Parsed(t, n) \in ParseResult
           /\ Parsed(t, n).input = t
           /\ Parsed(t, n).ok = (t \notin Unparsable)
           /\ n < t => Parsed(t, n) = Parsed(t, 0)
           /\ Parsed(t, 0).content = "source"
BY DEF Parsed, ParseResult, InputContent, Tasks

LEMMA EventKinds ==
    /\ SourceEvent \subseteq Event
    /\ Garbage \in SourceEvent /\ Error \in SourceEvent /\ Exit \in SourceEvent
    /\ \A t \in Tasks : Message(Parsed(t, 0)) \in SourceEvent
    /\ \A e \in SourceEvent : e.kind = "message" =>
          e.value \in ParseResult /\ e.value = Parsed(e.value.input, 0)
<1>1. \A t \in Tasks : Parsed(t, 0) \in ParseResult /\ Parsed(t, 0).input = t
  BY ParsedFromSource
<1>2. QED BY <1>1 DEF SourceEvent, Event, Message, Garbage, Error, Exit

\* Queues of events
LEMMA QueueFacts ==
    ASSUME NEW S, NEW q \in Seq(S)
    PROVE  /\ \A e \in S : Append(q, e) \in Seq(S)
           /\ \A d, e \in S : q \o <<d, e>> \in Seq(S) /\ q \o <<e>> \in Seq(S)
           /\ q # <<>> => Head(q) \in S /\ Tail(q) \in Seq(S)
           /\ <<>> \in Seq(S)
OBVIOUS

LEMMA SlotsAreFinite ==
    ASSUME NEW S \in SUBSET Slots
    PROVE  /\ IsFiniteSet(S)
           /\ Cardinality(S) \in Nat
           /\ \A s \in S : Rank(S, s) \in Nat \ {0}
<1>1. Lesser(WorkerCount, FileCount) \in Int
  BY PoolAssumption DEF Lesser
<1>2. IsFiniteSet(Slots)
  BY <1>1, FS_Interval DEF Slots
<1>3. \A T \in SUBSET Slots : IsFiniteSet(T) /\ Cardinality(T) \in Nat
  BY <1>2, FS_Subset, FS_CardinalityType
<1>4. ASSUME NEW s \in S PROVE Rank(S, s) \in Nat \ {0}
  <2> DEFINE T == {o \in S : o <= s}
  <2>1. s \in T /\ T \in SUBSET Slots
    <3>1. s <= s
      BY <1>1 DEF Slots
    <3>2. QED BY <3>1, Zenon
  <2>2. Cardinality(T) # 0
    BY <1>3, <2>1, FS_EmptySet
  <2>3. QED BY <1>3, <2>1, <2>2 DEF Rank
<1>5. QED BY <1>3, <1>4

-----------------------------------------------------------------------------
(* Scheduling *)

\* Dispatching to some slots gives each a file that was not dispatched before, and
\* sends its source if only files before the next task are released.
LEMMA DispatchSendsSources ==
    ASSUME PoolTypeOK, ScheduleInv, NEW S \in SUBSET Slots, NEW sent,
           processed' \in Nat, processed' < nextTaskIndex, Dispatch(S, sent)
    PROVE  /\ request' \in [Slots -> ParseResult \cup {None}]
           /\ \A s \in Slots : request'[s] # None => request'[s] = Parsed(request'[s].input, 0)
           /\ taskOf' \in [Slots -> Tasks \cup {None}]
           /\ \A s \in Slots : taskOf'[s] # None => taskOf'[s] < nextTaskIndex'
           /\ idleSlots' \subseteq idleSlots
           /\ nextTaskIndex' \in nextTaskIndex .. FileCount + 1
           /\ failure' \in {failure, "worker"}
<1> DEFINE count == Lesser(Cardinality(S), FileCount + 1 - nextTaskIndex)
           Task(s) == nextTaskIndex + Rank(S, s) - 1
           Sent == {s \in S : Rank(S, s) <= sent}
           assigned == Lesser(sent + 1, count)
           Assigned == {s \in S : Rank(S, s) <= assigned}
<1>1. /\ nextTaskIndex \in 1 .. FileCount + 1
      /\ FileCount \in Nat
      /\ Cardinality(S) \in Nat
      /\ \A s \in S : Rank(S, s) \in Nat \ {0}
  BY SlotsAreFinite, PoolAssumption DEF PoolTypeOK
<1>2. /\ count \in Nat
      /\ count <= FileCount + 1 - nextTaskIndex
  BY <1>1 DEF Lesser
<1>3. /\ sent \in 0 .. count
      /\ request' = [s \in Slots |-> IF s \in Sent THEN Parsed(Task(s), processed') ELSE request[s]]
      /\ taskOf' = [s \in Slots |-> IF s \in Assigned THEN Task(s) ELSE taskOf[s]]
      /\ idleSlots' = idleSlots \ Assigned
      /\ nextTaskIndex' = nextTaskIndex + assigned
      /\ failure' \in {failure, "worker"}
  BY Zenon DEF Dispatch
<1>4. /\ assigned \in 0 .. count
      /\ sent <= count
  BY <1>2, <1>3 DEF Lesser
<1>5. \A s \in Assigned : Task(s) \in Tasks /\ Task(s) < nextTaskIndex + assigned
  BY <1>1, <1>2, <1>4 DEF Tasks
<1>6. \A s \in Sent : Task(s) \in Tasks /\ processed' < Task(s)
  BY <1>1, <1>2, <1>3, <1>4 DEF Tasks
<1>7. \A s \in Sent : /\ Parsed(Task(s), processed') \in ParseResult
                       /\ Parsed(Task(s), processed') = Parsed(Task(s), 0)
                       /\ Parsed(Task(s), 0).input = Task(s)
  <2> HIDE DEF Sent, Task
  <2>1. QED BY <1>6, ParsedFromSource
<1> HIDE DEF count, Task, Sent, assigned, Assigned
<1>8. request' \in [Slots -> ParseResult \cup {None}]
  BY <1>3, <1>7 DEF PoolTypeOK
<1>9. \A s \in Slots : request'[s] # None => request'[s] = Parsed(request'[s].input, 0)
  BY <1>3, <1>7 DEF ScheduleInv
<1>10. taskOf' \in [Slots -> Tasks \cup {None}]
  BY <1>3, <1>5 DEF PoolTypeOK
<1>11. \A s \in Slots : taskOf'[s] # None => taskOf'[s] < nextTaskIndex'
  <2> SUFFICES ASSUME NEW s \in Slots, taskOf'[s] # None PROVE taskOf'[s] < nextTaskIndex + assigned
    BY <1>3
  <2>1. CASE s \in Assigned
    BY <2>1, <1>3, <1>5
  <2>2. CASE s \notin Assigned
    <3>1. taskOf[s] # None /\ taskOf'[s] = taskOf[s] /\ taskOf[s] < nextTaskIndex
      BY <2>2, <1>3 DEF ScheduleInv
    <3>2. taskOf[s] \in Nat
      BY <3>1, PoolAssumption DEF PoolTypeOK, Tasks
    <3>3. QED BY <3>1, <3>2, <1>1, <1>2, <1>4
  <2>3. QED BY <2>1, <2>2
<1>12. nextTaskIndex' \in nextTaskIndex .. FileCount + 1
  BY <1>1, <1>2, <1>3, <1>4
<1>13. QED BY <1>3, <1>8, <1>9, <1>10, <1>11, <1>12

-----------------------------------------------------------------------------
(* The pool *)

\* What a resumed stream is at afterwards, when n files are released
Advanced(n) ==
    /\ stream \in {"waiting", "yielded", "closing"}
    /\ stream = "waiting" => nextResultIndex = n + 1
    /\ stream = "yielded" => nextResultIndex = n + 2
    /\ stream = "closing" =>
         /\ ending \in {"complete", "failed", "cancelled"}
         /\ IF ending = "complete" THEN n = FileCount ELSE n < FileCount
         /\ ending = "cancelled" => aborted

\* A generator that leaves its try block keeps the invariant.
LEMMA ClosePreserves ==
    ASSUME PoolInv, NEW how \in {"complete", "failed", "cancelled", "returned"}, Close(how),
           aborted' = aborted
    PROVE  PoolInv'
<1>1. PoolTypeOK'
  BY DEF PoolInv, PoolTypeOK, Close, scheduleVars
<1>2. ScheduleInv'
  BY DEF PoolInv, ScheduleInv, Close, scheduleVars
<1>3. QED BY <1>1, <1>2 DEF PoolInv, FailureInv, ThreadInv, Close

\* So does one that yields the next result and dispatches further files.
LEMMA YieldPreserves ==
    ASSUME PoolInv, stream \in {"waiting", "yielded"},
           processed' \in Nat, processed' = nextResultIndex - 1,
           YieldResult, aborted' = aborted
    PROVE  /\ PoolInv'
           /\ stream' = "yielded" /\ nextResultIndex' = nextResultIndex + 1
<1>1. /\ nextResultIndex \in Tasks
      /\ results[nextResultIndex] = Parsed(nextResultIndex, 0)
      /\ nextResultIndex < nextTaskIndex
  <2>1. nextResultIndex \in Tasks
    BY PoolAssumption DEF PoolInv, PoolTypeOK, YieldResult, Tasks
  <2>2. QED BY <2>1 DEF PoolInv, ScheduleInv, YieldResult
<1>2. PICK sent \in 0 .. Cardinality(idleSlots) : Dispatch(idleSlots, sent)
  BY DEF YieldResult
<1>3. nextTaskIndex \in Nat /\ nextResultIndex \in Nat /\ FileCount \in Nat
  BY PoolAssumption DEF PoolInv, PoolTypeOK
<1>4. /\ request' \in [Slots -> ParseResult \cup {None}]
      /\ \A s \in Slots : request'[s] # None => request'[s] = Parsed(request'[s].input, 0)
      /\ taskOf' \in [Slots -> Tasks \cup {None}]
      /\ \A s \in Slots : taskOf'[s] # None => taskOf'[s] < nextTaskIndex'
      /\ idleSlots' \subseteq idleSlots
      /\ nextTaskIndex' \in nextTaskIndex .. FileCount + 1
      /\ failure' \in {failure, "worker"}
  <2>1. idleSlots \in SUBSET Slots /\ processed' < nextTaskIndex
    BY <1>1, <1>3 DEF PoolInv, PoolTypeOK
  <2>2. QED BY <1>2, <2>1, DispatchSendsSources DEF PoolInv
<1>5. PoolTypeOK'
  <2>1. yielded' \in ParseResult /\ results' \in [Tasks -> ParseResult \cup {None}]
    BY <1>1, NoneIsNoResult DEF PoolInv, PoolTypeOK, YieldResult
  <2>2. nextTaskIndex' \in 1 .. FileCount + 1 /\ nextResultIndex' \in 1 .. FileCount + 1
    BY <1>1, <1>3, <1>4 DEF PoolInv, PoolTypeOK, YieldResult, Tasks
  <2>3. QED BY <1>4, <2>1, <2>2 DEF PoolInv, PoolTypeOK, YieldResult
<1>6. ScheduleInv'
  <2>1. \A t \in Tasks : results'[t] # None => results'[t] = Parsed(t, 0) /\ t < nextTaskIndex'
    <3> SUFFICES ASSUME NEW t \in Tasks, results'[t] # None
                 PROVE  results'[t] = Parsed(t, 0) /\ t < nextTaskIndex'
      OBVIOUS
    <3>1. results[t] # None /\ results'[t] = results[t]
      BY DEF PoolInv, PoolTypeOK, YieldResult
    <3>2. results[t] = Parsed(t, 0) /\ t < nextTaskIndex /\ t \in Nat
      BY <3>1 DEF PoolInv, ScheduleInv, Tasks
    <3>3. QED BY <1>3, <1>4, <3>1, <3>2
  <2>2. yielded' = Parsed(nextResultIndex' - 1, 0)
    <3>1. nextResultIndex' - 1 = nextResultIndex /\ yielded' = Parsed(nextResultIndex, 0)
      BY <1>1, <1>3 DEF YieldResult
    <3>2. QED BY <3>1
  <2>3. events' = events
    BY DEF YieldResult
  <2>4. QED BY <1>4, <2>1, <2>2, <2>3 DEF PoolInv, ScheduleInv
<1>7. FailureInv' /\ ThreadInv'
  BY <1>4, NoneIsNoResult DEF PoolInv, FailureInv, ThreadInv, YieldResult
<1>8. QED BY <1>5, <1>6, <1>7 DEF PoolInv, YieldResult

\* One iteration of the loop of stream()
LEMMA AdvancePreserves ==
    ASSUME PoolInv, stream \in {"waiting", "yielded"},
           processed' \in Nat, processed' = nextResultIndex - 1,
           Advance, aborted' = aborted
    PROVE  PoolInv' /\ Advanced(processed)'
<1> nextResultIndex \in 1 .. FileCount + 1 /\ FileCount \in Nat
  BY PoolAssumption DEF PoolInv, PoolTypeOK
<1>1. CASE YieldResult
  BY <1>1, YieldPreserves DEF Advanced
<1>2. CASE AwaitResult
  <2>1. PoolTypeOK' /\ ScheduleInv'
    BY <1>2 DEF AwaitResult, PoolInv, PoolTypeOK, ScheduleInv, scheduleVars, workerVars
  <2>2. FailureInv' /\ ThreadInv'
    BY <1>2 DEF AwaitResult, PoolInv, FailureInv, ThreadInv
  <2>3. Advanced(processed)'
    BY <1>2 DEF AwaitResult, Advanced, scheduleVars
  <2>4. QED BY <2>1, <2>2, <2>3 DEF PoolInv
<1>3. ASSUME nextResultIndex <= FileCount, failure # None,
             Close(IF failure = "cancelled" THEN "cancelled" ELSE "failed")
      PROVE  PoolInv' /\ Advanced(processed)'
  <2>1. PoolInv'
    BY <1>3, ClosePreserves
  <2>2. Advanced(processed)'
    BY <1>3 DEF Close, Advanced, PoolInv, FailureInv
  <2>3. QED BY <2>1, <2>2
<1>4. ASSUME nextResultIndex > FileCount, Close("complete")
      PROVE  PoolInv' /\ Advanced(processed)'
  <2>1. PoolInv'
    BY <1>4, ClosePreserves
  <2>2. Advanced(processed)'
    BY <1>4 DEF Close, Advanced
  <2>3. QED BY <2>1, <2>2
<1>5. QED BY <1>1, <1>2, <1>3, <1>4 DEF Advance

\* Starting the pool before anything is released
LEMMA StartPoolPreserves ==
    ASSUME PoolInv, FileCount > 0, nextResultIndex = 1, nextTaskIndex = 1, processed = 0,
           StartPool, aborted' = aborted, aborted \in BOOLEAN
    PROVE  PoolInv' /\ stream' # "initial" /\ (Advanced(processed)' \/ (stream' = "closed" /\ ending' = "cancelled" /\ aborted'))
<1> FileCount \in Nat /\ processed' = 0 /\ stream = "initial"
  BY PoolAssumption DEF StartPool
<1>1. CASE aborted /\ stream' = "closed" /\ ending' = "cancelled"
           /\ UNCHANGED <<yielded, scheduleVars, failure, awaiting, workerVars>>
  <2>1. PoolTypeOK' /\ ScheduleInv'
    BY <1>1 DEF PoolInv, PoolTypeOK, ScheduleInv, scheduleVars, workerVars
  <2>2. FailureInv' /\ ThreadInv'
    BY <1>1 DEF PoolInv, FailureInv, ThreadInv, workerVars
  <2>3. QED BY <1>1, <2>1, <2>2 DEF PoolInv
<1>2. ASSUME ~aborted, NEW sent, Dispatch(Slots, sent),
             IF failure' = None
               THEN /\ stream' = "waiting"
                    /\ awaiting' = TRUE
                    /\ thread' = [s \in Slots |-> "running"]
                    /\ UNCHANGED ending
               ELSE /\ stream' = "closing"
                    /\ ending' = "failed"
                    /\ thread' = [s \in Slots |-> "terminating"]
                    /\ UNCHANGED awaiting,
             UNCHANGED <<yielded, results, nextResultIndex, events>>
      PROVE  PoolInv' /\ Advanced(processed)'
  <2>1. /\ request' \in [Slots -> ParseResult \cup {None}]
        /\ \A s \in Slots : request'[s] # None => request'[s] = Parsed(request'[s].input, 0)
        /\ taskOf' \in [Slots -> Tasks \cup {None}]
        /\ \A s \in Slots : taskOf'[s] # None => taskOf'[s] < nextTaskIndex'
        /\ idleSlots' \subseteq idleSlots
        /\ nextTaskIndex' \in nextTaskIndex .. FileCount + 1
        /\ failure' \in {failure, "worker"}
    <3>1. Slots \in SUBSET Slots
      OBVIOUS
    <3>2. processed' \in Nat /\ processed' < nextTaskIndex
      OBVIOUS
    <3>3. QED BY <1>2, <3>1, <3>2, DispatchSendsSources DEF PoolInv
  <2>2. stream' \in {"waiting", "closing"}
    BY <1>2
  <2>3. PoolTypeOK'
    <3>1. /\ ending' \in {"open", "complete", "failed", "cancelled", "returned"}
          /\ awaiting' \in BOOLEAN
          /\ thread' \in [Slots -> {"none", "running", "crashed", "terminating", "gone"}]
      BY <1>2 DEF PoolInv, PoolTypeOK
    <3>2. QED BY <1>2, <2>1, <2>2, <3>1 DEF PoolInv, PoolTypeOK
  <2>4. ScheduleInv'
    <3>1. \A t \in Tasks : results'[t] # None => results'[t] = Parsed(t, 0) /\ t < nextTaskIndex'
      BY <1>2, <2>1 DEF PoolInv, ScheduleInv, Tasks
    <3>2. QED BY <1>2, <2>1, <2>2, <3>1 DEF PoolInv, ScheduleInv
  <2>5. FailureInv' /\ ThreadInv'
    BY <1>2, <2>1, <2>2, NoneIsNoResult DEF PoolInv, FailureInv, ThreadInv
  <2>6. Advanced(processed)'
    BY <1>2 DEF Advanced
  <2>7. QED BY <2>3, <2>4, <2>5, <2>6 DEF PoolInv
<1>3. ASSUME ~aborted, NEW o \in Slots,
             thread' = [s \in Slots |-> IF s < o THEN "terminating" ELSE "none"],
             stream' = "closing", ending' = "failed",
             UNCHANGED <<yielded, scheduleVars, failure, awaiting, request, events>>
      PROVE  PoolInv' /\ Advanced(processed)'
  <2>1. PoolTypeOK' /\ ScheduleInv'
    BY <1>3 DEF PoolInv, PoolTypeOK, ScheduleInv, scheduleVars
  <2>2. FailureInv' /\ ThreadInv'
    BY <1>3 DEF PoolInv, FailureInv, ThreadInv
  <2>3. QED BY <1>3, <2>1, <2>2 DEF PoolInv, Advanced
<1>4. QED BY <1>1, <1>2, <1>3 DEF StartPool

\* Recording a failure changes nothing else the invariant is about.
LEMMA FailPreserves ==
    ASSUME PoolInv, NEW f \in {"worker", "cancelled"}, Fail(f)
    PROVE  /\ failure' \in {None, "worker", "cancelled"}
           /\ failure # None => failure' = failure
           /\ failure' \in {failure, f} /\ failure' # None
           /\ awaiting' \in BOOLEAN
BY NoneIsNoResult DEF PoolInv, PoolTypeOK, Fail

\* Any step that leaves the generator where it is, may record the failure of a
\* worker, and keeps the data good
LEMMA QuietStepPreserves ==
    ASSUME PoolInv, PoolTypeOK', ScheduleInv', aborted' = aborted,
           UNCHANGED <<stream, failure>> \/ (stream' = stream /\ Fail("worker")),
           \A s \in Slots : thread[s] \in {"none", "gone"} => thread'[s] \in {"none", "gone"}
    PROVE  PoolInv'
<1>1. FailureInv'
  BY FailPreserves, NoneIsNoResult DEF PoolInv, FailureInv
<1>2. ThreadInv'
  BY DEF PoolInv, ThreadInv
<1>3. QED BY <1>1, <1>2 DEF PoolInv

LEMMA HandleMessagePreserves ==
    ASSUME PoolInv, NEW s \in Slots, HandleMessage(s), aborted' = aborted
    PROVE  PoolInv'
<1> DEFINE e == Head(events[s])
<1>1. /\ events[s] \in Seq(Event) /\ events[s] \in Seq(SourceEvent) /\ events[s] # <<>>
      /\ e \in SourceEvent
      /\ Tail(events[s]) \in Seq(Event) /\ Tail(events[s]) \in Seq(SourceEvent)
  <2>1. events[s] \in Seq(Event) /\ events[s] \in Seq(SourceEvent) /\ events[s] # <<>>
    BY DEF PoolInv, PoolTypeOK, ScheduleInv, HandleMessage
  <2>2. QED BY <2>1, QueueFacts
<1>2. events' = [events EXCEPT ![s] = Tail(@)]
  BY DEF HandleMessage
<1>3. CASE failure = None /\ AnswersItsTask(s, e)
  <2>1. /\ e.value \in ParseResult
        /\ e.value = Parsed(e.value.input, 0)
        /\ taskOf[s] = e.value.input
    BY <1>1, <1>3, EventKinds DEF AnswersItsTask
  <2>2. /\ results' = [results EXCEPT ![e.value.input] = e.value]
        /\ taskOf' = [taskOf EXCEPT ![s] = None]
        /\ idleSlots' = idleSlots \cup {s}
        /\ awaiting' = FALSE
        /\ UNCHANGED <<failure, stream, ending, yielded, nextTaskIndex, nextResultIndex, thread, request>>
    BY <1>3 DEF HandleMessage
  <2>3. e.value.input \in Tasks
    BY <2>1 DEF ParseResult
  <2>4. e.value.input < nextTaskIndex
    BY <2>1, <2>3, NoneIsNoResult DEF PoolInv, ScheduleInv
  <2> HIDE DEF e
  <2>5. PoolTypeOK'
    BY <1>1, <1>2, <2>1, <2>2, <2>3 DEF PoolInv, PoolTypeOK
  <2>6. ScheduleInv'
    BY <1>1, <1>2, <2>1, <2>2, <2>3, <2>4 DEF PoolInv, PoolTypeOK, ScheduleInv
  <2>7. QED BY <2>2, <2>5, <2>6, QuietStepPreserves
<1>4. CASE ~(failure = None /\ AnswersItsTask(s, e))
  <2>1. /\ Fail("worker")
        /\ UNCHANGED <<results, taskOf, idleSlots, stream, ending, yielded, nextTaskIndex, nextResultIndex, thread, request>>
    BY <1>4 DEF HandleMessage
  <2>2. PoolTypeOK' /\ ScheduleInv'
    BY <1>1, <1>2, <2>1, FailPreserves DEF PoolInv, PoolTypeOK, ScheduleInv
  <2>3. QED BY <2>1, <2>2, QuietStepPreserves
<1>5. QED BY <1>3, <1>4

\* The listeners of an error and of an exit, the workers, and what befalls them
LEMMA WorkerStepsPreserve ==
    ASSUME PoolInv, NEW s \in Slots, aborted' = aborted,
           HandleError(s) \/ HandleExit(s) \/ WorkerStep(s) \/ WorkerFault(s)
    PROVE  PoolInv'
<1>1. /\ events \in [Slots -> Seq(Event)]
      /\ \A o \in Slots : events[o] \in Seq(SourceEvent)
      /\ \A q \in Seq(Event) : q # <<>> => Tail(q) \in Seq(Event)
      /\ \A q \in Seq(SourceEvent) : q # <<>> => Tail(q) \in Seq(SourceEvent)
      /\ \A q \in Seq(Event) : \A d \in Event : Append(q, d) \in Seq(Event)
      /\ \A q \in Seq(SourceEvent) : \A d \in SourceEvent : Append(q, d) \in Seq(SourceEvent)
      /\ SourceEvent \subseteq Event
  BY QueueFacts, EventKinds DEF PoolInv, PoolTypeOK, ScheduleInv
<1>2. CASE HandleError(s)
  <2>1. PoolTypeOK' /\ ScheduleInv'
    BY <1>1, <1>2, FailPreserves
    DEF HandleError, PoolInv, PoolTypeOK, ScheduleInv, scheduleVars
  <2>2. QED BY <1>2, <2>1, QuietStepPreserves DEF HandleError
<1>3. CASE HandleExit(s)
  <2>1. UNCHANGED <<failure, awaiting>> \/ Fail("worker")
    BY <1>3 DEF HandleExit
  <2>2. failure' \in {None, "worker", "cancelled"} /\ awaiting' \in BOOLEAN
    BY <2>1, FailPreserves DEF PoolInv, PoolTypeOK
  <2>3. PoolTypeOK' /\ ScheduleInv'
    BY <1>1, <1>3, <2>2 DEF HandleExit, PoolInv, PoolTypeOK, ScheduleInv, scheduleVars
  <2>4. \A o \in Slots : thread[o] \in {"none", "gone"} => thread'[o] \in {"none", "gone"}
    BY <1>3 DEF HandleExit, PoolInv, PoolTypeOK
  <2>5. QED BY <1>3, <2>1, <2>3, <2>4, QuietStepPreserves DEF HandleExit
<1>4. CASE WorkerStep(s)
  <2>1. UNCHANGED <<stream, ending, yielded, scheduleVars, failure, awaiting>>
    BY <1>4 DEF WorkerStep
  <2>2. CASE WorkerParses(s)
    <3>1. request[s] \in ParseResult /\ request[s] = Parsed(request[s].input, 0)
      BY <2>2 DEF WorkerParses, PoolInv, PoolTypeOK, ScheduleInv
    <3>2. request[s].input \in Tasks
      BY <3>1 DEF ParseResult
    <3>3. Message(request[s]) \in SourceEvent
      BY <3>1, <3>2, EventKinds
    <3>4. PoolTypeOK' /\ ScheduleInv'
      BY <1>1, <2>1, <2>2, <3>3
      DEF WorkerParses, PoolInv, PoolTypeOK, ScheduleInv, scheduleVars
    <3>5. QED BY <2>1, <2>2, <3>4, QuietStepPreserves DEF WorkerParses
  <2>3. CASE WorkerTerminates(s)
    <3>1. PoolTypeOK' /\ ScheduleInv'
      BY <1>1, <2>1, <2>3, QueueFacts
      DEF WorkerTerminates, PoolInv, PoolTypeOK, ScheduleInv, scheduleVars
    <3>2. \A o \in Slots : thread[o] \in {"none", "gone"} => thread'[o] \in {"none", "gone"}
      BY <2>3 DEF WorkerTerminates, PoolInv, PoolTypeOK
    <3>3. QED BY <2>1, <3>1, <3>2, QuietStepPreserves
  <2>4. QED BY <1>4, <2>2, <2>3 DEF WorkerStep
<1>5. CASE WorkerFault(s)
  <2>1. UNCHANGED <<stream, ending, yielded, scheduleVars, failure, awaiting>>
    BY <1>5 DEF WorkerFault
  <2>2. CASE WorkerCrashes(s)
    <3>1. PICK last \in {<<Exit>>, <<Error, Exit>>} : events' = [events EXCEPT ![s] = @ \o last]
      BY <2>2 DEF WorkerCrashes
    <3>2. events[s] \o last \in Seq(Event) /\ events[s] \o last \in Seq(SourceEvent)
      <4>1. Exit \in SourceEvent /\ Error \in SourceEvent /\ Exit \in Event /\ Error \in Event
        BY EventKinds
      <4>2. QED BY <1>1, <3>1, <4>1, QueueFacts
    <3>3. PoolTypeOK' /\ ScheduleInv'
      BY <1>1, <2>1, <2>2, <3>1, <3>2
      DEF WorkerCrashes, PoolInv, PoolTypeOK, ScheduleInv, scheduleVars
    <3>4. \A o \in Slots : thread[o] \in {"none", "gone"} => thread'[o] \in {"none", "gone"}
      BY <2>2 DEF WorkerCrashes, PoolInv, PoolTypeOK
    <3>5. QED BY <2>1, <3>3, <3>4, QuietStepPreserves
  <2>3. CASE WorkerRepliesWrongly(s)
    <3>1. PICK d \in {Garbage} \cup {Message(Parsed(t, 0)) : t \in Tasks \ {request[s].input}} :
            events' = [events EXCEPT ![s] = Append(@, d)]
      BY <2>3 DEF WorkerRepliesWrongly
    <3>2. d \in SourceEvent
      BY <3>1, EventKinds
    <3>3. PoolTypeOK' /\ ScheduleInv'
      BY <1>1, <2>1, <2>3, <3>1, <3>2
      DEF WorkerRepliesWrongly, PoolInv, PoolTypeOK, ScheduleInv, scheduleVars
    <3>4. QED BY <2>1, <2>3, <3>3, QuietStepPreserves DEF WorkerRepliesWrongly
  <2>4. QED BY <1>5, <2>2, <2>3 DEF WorkerFault
<1>6. QED BY <1>2, <1>3, <1>4, <1>5

\* The terminations are over.
LEMMA ClosedPreserves ==
    ASSUME PoolInv, Closed, aborted' = aborted
    PROVE  PoolInv'
<1>1. PoolTypeOK' /\ ScheduleInv'
  BY DEF Closed, PoolInv, PoolTypeOK, ScheduleInv, scheduleVars, workerVars
<1>2. QED BY <1>1 DEF Closed, PoolInv, FailureInv, ThreadInv, workerVars

\* The signal is aborted.
LEMMA AbortListenerPreserves ==
    ASSUME PoolInv, AbortListener, aborted' = TRUE
    PROVE  PoolInv'
<1>1. /\ failure' \in {None, "worker", "cancelled"} /\ awaiting' \in BOOLEAN
      /\ stream \in {"waiting", "yielded"} => failure' # None
  BY FailPreserves DEF AbortListener, PoolInv, PoolTypeOK
<1>2. PoolTypeOK' /\ ScheduleInv'
  BY <1>1 DEF AbortListener, PoolInv, PoolTypeOK, ScheduleInv, scheduleVars, workerVars
<1>3. QED BY <1>1, <1>2 DEF AbortListener, PoolInv, FailureInv, ThreadInv, workerVars

-----------------------------------------------------------------------------
(* The engine and the orchestrator *)

LEMMA InitialState == Init => Inv
<1> SUFFICES ASSUME Init PROVE Inv
  OBVIOUS
<1> FileCount \in Nat /\ \A s \in Slots : events[s] = <<>>
  BY PoolAssumption DEF Init, PoolInit
<1>1. TypeOK /\ PoolTypeOK
  <2>1. events \in [Slots -> Seq(Event)]
    <3>1. <<>> \in Seq(Event)
      OBVIOUS
    <3>2. QED BY <3>1 DEF Init, PoolInit
  <2>2. PoolTypeOK
    <3>1. /\ nextTaskIndex \in 1 .. FileCount + 1
          /\ nextResultIndex \in 1 .. FileCount + 1
      BY DEF Init, PoolInit
    <3>2. /\ taskOf \in [Slots -> Tasks \cup {None}]
          /\ results \in [Tasks -> ParseResult \cup {None}]
          /\ request \in [Slots -> ParseResult \cup {None}]
          /\ thread \in [Slots -> {"none", "running", "crashed", "terminating", "gone"}]
      BY DEF Init, PoolInit
    <3>3. QED BY <2>1, <3>1, <3>2, Zenon DEF Init, PoolInit, PoolTypeOK
  <2>3. QED
    <3>1. /\ 0 \in 0 .. FileCount
          /\ "start" \in Yields \cup {"start", "streaming", "returning", "parsing", "done"}
          /\ "parsing" \in {"parsing", "complete", "cancelled"}
      OBVIOUS
    <3>2. QED BY <2>2, <3>1, Zenon DEF Init, TypeOK
<1>2. ScheduleInv /\ FailureInv /\ ThreadInv
  BY QueueFacts, NoneIsNoResult DEF Init, PoolInit, ScheduleInv, FailureInv, ThreadInv
<1>3. EngineInv
  BY DEF Init, PoolInit, EngineInv
<1>4. QED BY <1>1, <1>2, <1>3 DEF Inv, PoolInv

\* The sequential loop goes on with the next file after those processed.
LEMMA ParseFromPreserves ==
    ASSUME Inv, stream \in {"initial", "closed"}, stage = "parsing",
           NEW n \in 0 .. FileCount, processed' = n, ParseFrom(n + 1),
           files' \subseteq [input : Tasks, content : {"source", "released"}],
           failed' \subseteq Tasks,
           UNCHANGED <<poolVars, parsedInParallel, stage, aborted>>
    PROVE  Inv'
<1> FileCount \in Nat /\ n \in Nat
  BY PoolAssumption
<1>1. PoolInv'
  <2>1. PoolTypeOK' /\ ScheduleInv'
    BY DEF Inv, PoolInv, PoolTypeOK, ScheduleInv, poolVars, scheduleVars, workerVars
  <2>2. QED BY <2>1 DEF Inv, PoolInv, FailureInv, ThreadInv, poolVars, scheduleVars, workerVars
<1>2. \/ engine' = "done" /\ n = FileCount /\ UNCHANGED <<answer, index>>
      \/ engine' = "yieldLast" /\ answer' = Cancelled /\ aborted' /\ n < FileCount /\ UNCHANGED index
      \/ engine' = "parsing" /\ answer' = Parsed(index', n) /\ index' = n + 1 /\ index' \in Tasks
  <2>1. CASE n + 1 > FileCount /\ engine' = "done" /\ UNCHANGED <<answer, index>>
    BY <2>1
  <2>2. CASE n + 1 <= FileCount /\ aborted /\ engine' = "yieldLast" /\ answer' = Cancelled /\ UNCHANGED index
    BY <2>2
  <2>3. CASE /\ n + 1 <= FileCount
             /\ engine' = "parsing"
             /\ answer' = Parsed(n + 1, n)
             /\ index' = n + 1
    BY <2>3 DEF Tasks
  <2>4. QED BY <2>1, <2>2, <2>3 DEF ParseFrom
<1>3. engine' = "parsing" => answer' = Parsed(index', 0) /\ answer' \in ParseResult
  <2> SUFFICES ASSUME engine' = "parsing" PROVE answer' = Parsed(index', 0) /\ answer' \in ParseResult
    OBVIOUS
  <2>1. answer' = Parsed(index', n) /\ index' = n + 1 /\ index' \in Tasks
    BY <1>2
  <2>2. QED BY <2>1, ParsedFromSource
<1>4. TypeOK'
  <2>1. /\ engine' \in Yields \cup {"start", "streaming", "returning", "parsing", "done"}
        /\ answer' \in ParseResult \cup {None, Cancelled}
        /\ index' \in 0 .. FileCount
    BY <1>2, <1>3 DEF Inv, TypeOK, Yields, Tasks
  <2>2. QED BY <1>1, <2>1 DEF Inv, PoolInv, TypeOK
<1>5. EngineInv'
  BY <1>2, <1>3 DEF EngineInv, poolVars
<1>6. QED BY <1>1, <1>4, <1>5 DEF Inv

LEMMA StartPreserves == Inv /\ Start => Inv'
<1> SUFFICES ASSUME Inv, Start PROVE Inv'
  OBVIOUS
<1> FileCount \in Nat
  BY PoolAssumption
<1>1. /\ engine = "start" /\ stage = "parsing"
      /\ stream = "initial" /\ nextResultIndex = 1 /\ nextTaskIndex = 1
      /\ processed = 0 /\ processed' = 0 /\ parsedInParallel = 0
      /\ UNCHANGED <<parsedInParallel, files, failed, stage, aborted>>
  BY DEF Start, Inv, EngineInv, stageVars
<1>2. CASE CanParseInParallel /\ StartPool /\ engine' = "streaming" /\ UNCHANGED <<answer, index>>
  <2>1. FileCount > 0
    BY <1>2, EngineAssumption DEF CanParseInParallel
  <2>2. /\ PoolInv'
        /\ stream' # "initial"
        /\ Advanced(processed)' \/ (stream' = "closed" /\ ending' = "cancelled" /\ aborted')
    BY <1>1, <1>2, <2>1, StartPoolPreserves DEF Inv, TypeOK
  <2>3. TypeOK'
    BY <1>1, <1>2, <2>2 DEF Inv, TypeOK, PoolInv
  <2>4. EngineInv'
    BY <1>1, <1>2, <2>1, <2>2 DEF EngineInv, Advanced
  <2>5. QED BY <2>2, <2>3, <2>4 DEF Inv
<1>3. CASE ParseFrom(1) /\ UNCHANGED poolVars
  <2>1. ParseFrom(0 + 1) /\ 0 \in 0 .. FileCount
    BY <1>1, <1>3
  <2>2. QED BY <1>1, <1>3, <2>1, ParseFromPreserves DEF Inv, TypeOK
<1>4. QED BY <1>2, <1>3 DEF Start

\* Steps of the engine alone
LEMMA EngineStepsPreserve ==
    Inv /\ (TakeResult \/ PoolReturned \/ FinishFile) => Inv'
<1> SUFFICES ASSUME Inv, TakeResult \/ PoolReturned \/ FinishFile PROVE Inv'
  OBVIOUS
<1> FileCount \in Nat
  BY PoolAssumption
<1>1. UNCHANGED <<poolVars, processed, stageVars, aborted>>
  BY DEF TakeResult, PoolReturned, FinishFile
<1>2. PoolInv'
  <2>1. PoolTypeOK' /\ ScheduleInv'
    BY <1>1 DEF Inv, PoolInv, PoolTypeOK, ScheduleInv, poolVars, scheduleVars, workerVars
  <2>2. QED BY <1>1, <2>1 DEF Inv, PoolInv, FailureInv, ThreadInv, poolVars, scheduleVars, workerVars
<1>3. CASE TakeResult
  <2>1. /\ nextResultIndex = processed + 2
        /\ parsedInParallel = processed
        /\ yielded = Parsed(processed + 1, 0)
        /\ processed < FileCount
    <3>1. nextResultIndex = processed + 2 /\ parsedInParallel = processed /\ stream = "yielded"
      BY <1>3 DEF TakeResult, Inv, EngineInv
    <3>2. yielded = Parsed(nextResultIndex - 1, 0) /\ nextResultIndex \in 1 .. FileCount + 1
      BY <3>1 DEF Inv, PoolInv, PoolTypeOK, ScheduleInv
    <3>3. nextResultIndex - 1 = processed + 1 /\ processed < FileCount
      BY <3>1, <3>2 DEF Inv, TypeOK
    <3>4. QED BY <3>1, <3>2, <3>3
  <2>2. yielded \in ParseResult
    <3>1. processed + 1 \in Tasks
      BY <2>1 DEF Inv, TypeOK, Tasks
    <3>2. QED BY <2>1, <3>1, ParsedFromSource
  <2>3. TypeOK'
    BY <1>1, <1>2, <1>3, <2>1, <2>2 DEF TakeResult, Inv, PoolInv, TypeOK, Yields, stageVars
  <2>4. EngineInv'
    BY <1>1, <1>3, <2>1 DEF TakeResult, Inv, EngineInv, poolVars, scheduleVars, stageVars
  <2>5. QED BY <1>2, <2>3, <2>4 DEF Inv
<1>4. CASE PoolReturned
  <2>1. TypeOK'
    BY <1>1, <1>2, <1>4 DEF PoolReturned, Inv, PoolInv, TypeOK, stageVars
  <2>2. EngineInv'
    BY <1>1, <1>4 DEF PoolReturned, Inv, EngineInv, poolVars, scheduleVars, stageVars
  <2>3. QED BY <1>2, <2>1, <2>2 DEF Inv
<1>5. CASE FinishFile
  <2>1. TypeOK'
    BY <1>1, <1>2, <1>5 DEF FinishFile, Inv, PoolInv, TypeOK, Yields, stageVars
  <2>2. EngineInv'
    BY <1>1, <1>5 DEF FinishFile, Inv, EngineInv, poolVars, scheduleVars, stageVars
  <2>3. QED BY <1>2, <2>1, <2>2 DEF Inv
<1>6. QED BY <1>3, <1>4, <1>5

LEMMA PoolEndsPreserves == Inv /\ PoolEnds => Inv'
<1> SUFFICES ASSUME Inv, PoolEnds PROVE Inv'
  OBVIOUS
<1> FileCount \in Nat
  BY PoolAssumption
<1>1. /\ engine = "streaming" /\ stream = "closed" /\ stage = "parsing"
      /\ parsedInParallel = processed
      /\ IF ending = "complete" THEN processed = FileCount ELSE processed < FileCount
      /\ ending = "cancelled" => aborted
      /\ UNCHANGED <<processed, parsedInParallel, poolVars, stageVars, aborted>>
  BY DEF PoolEnds, Inv, EngineInv
<1>2. CASE engine' \in {"done", "yieldLast"}
           /\ answer' = (IF engine' = "done" THEN answer ELSE Cancelled) /\ UNCHANGED index
           /\ IF engine' = "done" THEN processed = FileCount ELSE aborted /\ processed < FileCount
  <2>1. PoolInv'
    <3>1. PoolTypeOK' /\ ScheduleInv'
      BY <1>1 DEF Inv, PoolInv, PoolTypeOK, ScheduleInv, poolVars, scheduleVars, workerVars
    <3>2. QED BY <1>1, <3>1 DEF Inv, PoolInv, FailureInv, ThreadInv, poolVars, scheduleVars, workerVars
  <2>2. TypeOK'
    BY <1>1, <1>2, <2>1 DEF Inv, PoolInv, TypeOK, Yields, stageVars
  <2>3. EngineInv'
    BY <1>1, <1>2 DEF Inv, EngineInv, poolVars, scheduleVars, stageVars
  <2>4. QED BY <2>1, <2>2, <2>3 DEF Inv
<1>3. CASE ParseFrom(parsedInParallel + 1)
  <2>1. ParseFrom(processed + 1) /\ processed' = processed
    BY <1>1, <1>3
  <2>2. processed \in 0 .. FileCount /\ files' = files /\ failed' = failed /\ stage' = stage
    BY <1>1 DEF Inv, TypeOK, stageVars
  <2>3. QED BY <1>1, <2>1, <2>2, ParseFromPreserves DEF Inv, TypeOK
<1>4. QED BY <1>1, <1>2, <1>3 DEF PoolEnds

\* What the orchestrator records is the next file, from its source, or an abort.
LEMMA RecordsNextFile ==
    ASSUME Inv, engine \in Yields, Record
    PROVE  /\ stage = "parsing"
           /\ processed + 1 \in Tasks
           /\ processed' = processed + 1
           /\ \/ /\ processed + 1 \notin Unparsable
                 /\ files' = files \cup {[input |-> processed + 1, content |-> "source"]}
                 /\ failed' = failed
              \/ /\ processed + 1 \in Unparsable \/ aborted
                 /\ failed' = failed \cup {processed + 1}
                 /\ files' = files
<1> FileCount \in Nat /\ processed \in Nat /\ processed' = processed + 1
  BY PoolAssumption DEF Inv, TypeOK, Record
<1>1. stage = "parsing"
  BY DEF Inv, EngineInv, Yields
<1>2. processed < FileCount
  <2>1. CASE engine = "yieldPooled"
    BY <2>1 DEF Inv, PoolInv, PoolTypeOK, EngineInv
  <2>2. CASE engine = "yieldParsed"
    BY <2>2 DEF Inv, TypeOK, EngineInv
  <2>3. QED BY <2>1, <2>2 DEF Inv, EngineInv, Yields
<1>3. processed + 1 \in Tasks
  BY <1>2 DEF Tasks
<1>4. answer = Parsed(processed + 1, 0) \/ (aborted /\ answer = Cancelled)
  BY DEF Inv, EngineInv, Yields
<1>5. CASE answer = Parsed(processed + 1, 0)
  <2>1. /\ answer.input = processed + 1
        /\ answer.ok = (processed + 1 \notin Unparsable)
        /\ answer.content = "source"
    BY <1>3, <1>5, ParsedFromSource
  <2>2. QED BY <1>1, <1>3, <2>1 DEF Record
<1>6. CASE aborted /\ answer = Cancelled
  <2>1. ~answer.ok
    BY <1>6 DEF Cancelled
  <2>2. QED BY <1>1, <1>3, <1>6, <2>1 DEF Record
<1>7. QED BY <1>4, <1>5, <1>6

LEMMA ProcessPreserves == Inv /\ Process => Inv'
<1> SUFFICES ASSUME Inv, Process PROVE Inv'
  OBVIOUS
<1> FileCount \in Nat /\ processed \in Nat
  BY PoolAssumption DEF Inv, TypeOK
<1>1. /\ engine \in Yields /\ stage = "parsing"
      /\ processed + 1 \in Tasks /\ processed' = processed + 1
      /\ processed' \in 0 .. FileCount /\ processed' \in Nat
      /\ files' \subseteq [input : Tasks, content : {"source", "released"}]
      /\ failed' \subseteq Tasks
      /\ UNCHANGED <<parsedInParallel, stage, aborted>>
  <2>1. /\ engine \in Yields /\ Record /\ UNCHANGED <<parsedInParallel, stage, aborted>>
    BY DEF Process
  <2>2. /\ stage = "parsing"
        /\ processed + 1 \in Tasks /\ processed' = processed + 1
        /\ failed' = failed \/ failed' = failed \cup {processed + 1}
        /\ files' = files \/ files' = files \cup {[input |-> processed + 1, content |-> "source"]}
    BY <2>1, RecordsNextFile
  <2>3. processed' \in 0 .. FileCount
    BY <2>2 DEF Tasks
  <2>4. files' \subseteq [input : Tasks, content : {"source", "released"}]
    BY <2>2 DEF Inv, TypeOK
  <2>5. failed' \subseteq Tasks
    BY <2>2 DEF Inv, TypeOK
  <2>6. QED BY <2>1, <2>2, <2>3, <2>4, <2>5
<1>2. CASE engine = "yieldPooled" /\ engine' = "streaming" /\ Demand /\ UNCHANGED <<answer, index>>
  <2>1. stream = "yielded" /\ nextResultIndex = processed + 2 /\ Advance
        /\ parsedInParallel = processed'
    BY <1>1, <1>2 DEF Demand, Inv, EngineInv
  <2>2. PoolInv' /\ Advanced(processed)'
    BY <1>1, <2>1, AdvancePreserves DEF Inv
  <2>3. TypeOK'
    BY <1>1, <1>2, <2>2 DEF Inv, PoolInv, TypeOK
  <2>4. EngineInv'
    BY <1>1, <1>2, <2>1, <2>2 DEF EngineInv, Advanced
  <2>5. QED BY <2>2, <2>3, <2>4 DEF Inv
<1>3. CASE engine = "yieldAborted" /\ engine' = "returning" /\ ReturnEarly /\ UNCHANGED <<answer, index>>
  <2>1. PoolInv'
    BY <1>1, <1>3, ClosePreserves DEF ReturnEarly, Inv
  <2>2. TypeOK'
    BY <1>1, <1>3, <2>1 DEF Inv, PoolInv, TypeOK
  <2>3. EngineInv'
    BY <1>1, <1>3 DEF Inv, EngineInv, ReturnEarly, Close
  <2>4. QED BY <2>1, <2>2, <2>3 DEF Inv
<1>4. CASE engine = "yieldParsed" /\ ParseFrom(index + 1) /\ UNCHANGED poolVars
  <2>1. ParseFrom(processed' + 1) /\ stream \in {"initial", "closed"}
    BY <1>1, <1>4 DEF Inv, EngineInv
  <2>2. PICK n \in 0 .. FileCount : processed' = n
    BY <1>1
  <2>3. ParseFrom(n + 1)
    BY <2>1, <2>2
  <2>4. QED BY <1>1, <1>4, <2>1, <2>2, <2>3, ParseFromPreserves
<1>5. CASE engine = "yieldLast" /\ engine' = "done" /\ UNCHANGED <<answer, index, poolVars>>
  <2>1. PoolInv'
    <3>1. PoolTypeOK' /\ ScheduleInv'
      BY <1>5 DEF Inv, PoolInv, PoolTypeOK, ScheduleInv, poolVars, scheduleVars, workerVars
    <3>2. QED BY <1>1, <1>5, <3>1 DEF Inv, PoolInv, FailureInv, ThreadInv, poolVars, scheduleVars, workerVars
  <2>2. TypeOK'
    BY <1>1, <1>5, <2>1 DEF Inv, PoolInv, TypeOK
  <2>3. EngineInv'
    BY <1>1, <1>5 DEF Inv, EngineInv, poolVars
  <2>4. QED BY <2>1, <2>2, <2>3 DEF Inv
<1>6. QED BY <1>2, <1>3, <1>4, <1>5 DEF Process

LEMMA FinishStagePreserves == Inv /\ FinishStage => Inv'
<1> SUFFICES ASSUME Inv, FinishStage PROVE Inv'
  OBVIOUS
<1>1. PoolInv'
  <2>1. PoolTypeOK' /\ ScheduleInv'
    BY DEF FinishStage, Inv, PoolInv, PoolTypeOK, ScheduleInv, poolVars, scheduleVars, workerVars
  <2>2. QED BY <2>1 DEF FinishStage, Inv, PoolInv, FailureInv, ThreadInv, poolVars, scheduleVars, workerVars
<1>2. TypeOK'
  <2>1. failed' \subseteq Tasks /\ stage' \in {"complete", "cancelled"}
    BY DEF FinishStage, Inv, TypeOK
  <2>2. QED BY <1>1, <2>1 DEF FinishStage, Inv, PoolInv, TypeOK, engineVars
<1>3. EngineInv'
  BY DEF FinishStage, Inv, EngineInv, engineVars, poolVars, scheduleVars
<1>4. QED BY <1>1, <1>2, <1>3 DEF Inv

LEMMA AbortPreserves == Inv /\ Abort => Inv'
<1> SUFFICES ASSUME Inv, Abort PROVE Inv'
  OBVIOUS
<1>1. PoolInv'
  BY AbortListenerPreserves DEF Abort, Inv
<1>2. TypeOK'
  BY <1>1 DEF Abort, Inv, PoolInv, TypeOK, engineVars, stageVars
<1>3. EngineInv'
  BY DEF Abort, AbortListener, Inv, EngineInv, engineVars, stageVars, scheduleVars
<1>4. QED BY <1>1, <1>2, <1>3 DEF Inv

\* Steps of the pool while the engine waits or is elsewhere
LEMMA PoolStepPreserves == Inv /\ (PoolStep \/ Fault) => Inv'
<1> SUFFICES ASSUME Inv, PoolStep \/ Fault PROVE Inv'
  OBVIOUS
<1> FileCount \in Nat /\ processed \in Nat
  BY PoolAssumption DEF Inv, TypeOK
<1>1. UNCHANGED <<engineVars, stageVars, aborted>>
  BY DEF PoolStep, Fault
<1>2. CASE Resume
  <2>1. stream = "waiting" /\ processed' = processed /\ Advance
    BY <1>2 DEF Resume
  <2>2. engine = "streaming" /\ nextResultIndex = processed + 1 /\ parsedInParallel = processed
    BY <2>1 DEF Inv, TypeOK, EngineInv, Yields
  <2>3. PoolInv' /\ Advanced(processed)'
    BY <1>1, <2>1, <2>2, AdvancePreserves DEF Inv
  <2>4. TypeOK'
    BY <1>1, <2>1, <2>3 DEF Inv, PoolInv, TypeOK, engineVars, stageVars
  <2>5. EngineInv'
    BY <1>1, <2>1, <2>2, <2>3 DEF Inv, EngineInv, Advanced, engineVars, stageVars
  <2>6. QED BY <2>3, <2>4, <2>5 DEF Inv
<1>3. CASE Closed
  <2>1. PoolInv'
    BY <1>1, <1>3, ClosedPreserves DEF Inv
  <2>2. TypeOK'
    BY <1>1, <1>3, <2>1 DEF Closed, Inv, PoolInv, TypeOK, engineVars, stageVars
  <2>3. EngineInv'
    BY <1>1, <1>3 DEF Closed, Inv, EngineInv, engineVars, stageVars, scheduleVars
  <2>4. QED BY <2>1, <2>2, <2>3 DEF Inv
<1>4. ASSUME NEW s \in Slots, WorkerStep(s) \/ ListenerStep(s) \/ WorkerFault(s)
      PROVE  Inv'
  <2>1. PoolInv'
    BY <1>1, <1>4, HandleMessagePreserves, WorkerStepsPreserve DEF ListenerStep, Inv
  <2>2. UNCHANGED <<stream, ending, yielded, nextTaskIndex, nextResultIndex, processed>>
    BY <1>4 DEF WorkerStep, WorkerFault, ListenerStep, HandleMessage, HandleError, HandleExit, scheduleVars
  <2>3. TypeOK'
    BY <1>1, <2>1, <2>2 DEF Inv, PoolInv, TypeOK, engineVars, stageVars
  <2>4. EngineInv'
    BY <1>1, <2>2 DEF Inv, EngineInv, engineVars, stageVars
  <2>5. QED BY <2>1, <2>3, <2>4 DEF Inv
<1>5. QED BY <1>2, <1>3, <1>4 DEF PoolStep, Fault

LEMMA StepPreservesInv == Inv /\ [Next]_vars => Inv'
<1> SUFFICES ASSUME Inv, [Next]_vars PROVE Inv'
  OBVIOUS
<1>1. CASE UNCHANGED vars
  <2>1. UNCHANGED <<aborted, processed, stream, ending, yielded, taskOf, idleSlots, results,
          nextTaskIndex, nextResultIndex, failure, awaiting, thread, request, events,
          engine, answer, parsedInParallel, index, files, failed, stage>>
    BY <1>1 DEF vars, poolVars, scheduleVars, workerVars, engineVars, stageVars
  <2>2. TypeOK' /\ PoolTypeOK'
    BY <2>1 DEF Inv, PoolInv, TypeOK, PoolTypeOK
  <2>3. ScheduleInv' /\ FailureInv' /\ ThreadInv'
    BY <2>1 DEF Inv, PoolInv, ScheduleInv, FailureInv, ThreadInv
  <2>4. EngineInv'
    BY <2>1 DEF Inv, EngineInv
  <2>5. QED BY <2>2, <2>3, <2>4 DEF Inv, PoolInv
<1>2. CASE Next
  BY <1>2, StartPreserves, EngineStepsPreserve, PoolEndsPreserves, ProcessPreserves,
     FinishStagePreserves, PoolStepPreserves, AbortPreserves
  DEF Next, ParsingStep, EngineStep
<1>3. QED BY <1>1, <1>2

THEOREM InvariantHolds == Spec => []Inv
<1>1. QED BY InitialState, StepPreservesInv, PTL DEF Spec

-----------------------------------------------------------------------------
(* What follows *)

\* The stage is what FileParsing promises: every file is answered once, in order,
\* from its source, for any number of files and workers and any faults.
THEOREM EveryFileIsParsed == Spec => ParsesEveryFile
<1>1. Init => Promise!Init
  BY DEF Init, Promise!Init
<1>2. Inv /\ [Next]_vars => [Promise!Next]_Promise!vars
  <2> SUFFICES ASSUME Inv, [Next]_vars PROVE [Promise!Next]_Promise!vars
    OBVIOUS
  <2> FileCount \in Nat /\ processed \in 0 .. FileCount
    BY PoolAssumption DEF Inv, TypeOK
  <2>1. CASE Process
    <3>1. engine \in Yields /\ Record /\ UNCHANGED <<stage, aborted>>
      BY <2>1 DEF Process
    <3>2. processed + 1 <= FileCount
      BY <3>1, RecordsNextFile DEF Tasks
    <3>3. Promise!Answer
      BY <3>1, <3>2, RecordsNextFile DEF Promise!Answer
    <3>4. QED BY <3>3 DEF Promise!Next
  <2>2. CASE FinishStage
    <3>1. aborted \/ processed = FileCount
      BY <2>2 DEF FinishStage, Inv, EngineInv
    <3>2. UNCHANGED <<processed, files, failed, aborted>>
      <4>1. ~aborted => {t \in Tasks : t > processed} = {}
        BY <3>1 DEF Tasks
      <4>2. QED BY <2>2, <4>1 DEF FinishStage
    <3>3. Promise!Finish
      BY <2>2, <3>1, <3>2 DEF FinishStage, Promise!Finish
    <3>4. QED BY <3>3 DEF Promise!Next
  <2>3. CASE Abort
    <3>1. Promise!Abort
      BY <2>3 DEF Abort, stageVars, Promise!Abort
    <3>2. QED BY <3>1 DEF Promise!Next
  <2>4. CASE EngineStep
    BY <2>4 DEF EngineStep, Start, TakeResult, PoolEnds, PoolReturned, FinishFile, StartPool, stageVars, Promise!vars
  <2>5. CASE PoolStep \/ Fault
    <3>1. UNCHANGED <<stageVars, aborted>>
      BY <2>5 DEF PoolStep, Fault
    <3>2. UNCHANGED processed
      BY <2>5 DEF PoolStep, Fault, Resume, Closed, WorkerStep, WorkerFault, ListenerStep, HandleMessage, HandleError, HandleExit
    <3>3. QED BY <3>1, <3>2 DEF stageVars, Promise!vars
  <2>6. CASE UNCHANGED vars
    BY <2>6 DEF vars, stageVars, Promise!vars
  <2>7. QED BY <2>1, <2>2, <2>3, <2>4, <2>5, <2>6 DEF Next, ParsingStep
<1>3. QED BY <1>1, <1>2, InvariantHolds, PTL DEF Spec, ParsesEveryFile, Promise!Spec

\* A stage that is over has left no worker thread behind.
THEOREM NoWorkerIsLeft == Spec => []WorkersAreTerminated
<1>1. Inv => WorkersAreTerminated
  BY DEF Inv, PoolInv, ThreadInv, EngineInv, WorkersAreTerminated
<1>2. QED BY <1>1, InvariantHolds, PTL

\* An aborted stage neither sends a file to a worker nor parses one itself: the
\* stream knows of the abort as long as it is open.
THEOREM NothingStartsAfterAbort == Spec => AbortStartsNothing
<1>1. ASSUME Inv, [Next]_vars
      PROVE  [aborted => /\ \A s \in Slots : request'[s] \in {request[s], None}
                         /\ engine' = "parsing" => engine = "parsing"]_vars
  <2> SUFFICES ASSUME Next, aborted
               PROVE  /\ \A s \in Slots : request'[s] \in {request[s], None}
                      /\ engine' = "parsing" => engine = "parsing"
    BY <1>1
  <2>1. /\ ~YieldResult \/ stream \notin {"waiting", "yielded"}
        /\ \A i : ParseFrom(i) => engine' # "parsing"
    BY <1>1 DEF Inv, PoolInv, FailureInv, YieldResult, ParseFrom
  <2>2. Advance => UNCHANGED request \/ YieldResult
    BY DEF Advance, AwaitResult, Close, workerVars
  <2>3. CASE EngineStep
    BY <2>1, <2>3
    DEF EngineStep, Start, StartPool, TakeResult, PoolEnds, PoolReturned, FinishFile, poolVars, workerVars
  <2>4. CASE Process
    BY <2>1, <2>2, <2>4
    DEF Process, Demand, ReturnEarly, Close, poolVars, workerVars
  <2>5. CASE FinishStage \/ Abort
    BY <2>5 DEF FinishStage, Abort, AbortListener, engineVars, poolVars, workerVars
  <2>6. CASE PoolStep \/ Fault
    <3>1. UNCHANGED engine
      BY <2>6 DEF PoolStep, Fault, engineVars
    <3>2. CASE Resume \/ Closed
      BY <2>1, <2>2, <3>1, <3>2 DEF Resume, Closed, workerVars
    <3>3. ASSUME NEW o \in Slots, WorkerStep(o) \/ ListenerStep(o) \/ WorkerFault(o)
          PROVE  \A s \in Slots : request'[s] \in {request[s], None}
      <4>1. request' = request \/ request' = [request EXCEPT ![o] = None]
        BY <3>3 DEF WorkerStep, WorkerFault, ListenerStep, HandleMessage, HandleError, HandleExit,
                    WorkerParses, WorkerTerminates, WorkerCrashes, WorkerRepliesWrongly
      <4>2. QED BY <1>1, <4>1 DEF Inv, TypeOK, PoolTypeOK
    <3>4. QED BY <2>6, <3>1, <3>2, <3>3 DEF PoolStep, Fault
  <2>7. QED BY <2>3, <2>4, <2>5, <2>6 DEF Next, ParsingStep
<1>2. QED BY <1>1, InvariantHolds, PTL DEF Spec, AbortStartsNothing

-----------------------------------------------------------------------------
(* Where the files are *)

\* The generator goes on as long as nothing failed.
Open == stream \in {"waiting", "yielded"} /\ failure = None

\* Before the pool starts it holds nothing.
StartInv ==
    stream = "initial" =>
      /\ \A t \in Tasks : results[t] = None
      /\ \A s \in Slots : taskOf[s] = None /\ events[s] = <<>>
      /\ failure = None
      /\ nextResultIndex = 1
      /\ nextTaskIndex = 1

\* Every file dispatched and not yielded is held once, and there is one as long as
\* files are left.
PlacesInv ==
    Open =>
      /\ idleSlots = {s \in Slots : taskOf[s] = None}
      /\ \A s \in Slots : taskOf[s] # None => taskOf[s] >= nextResultIndex /\ results[taskOf[s]] = None
      /\ \A s, o \in Slots : taskOf[s] # None /\ taskOf[s] = taskOf[o] => s = o
      /\ \A t \in Tasks : results[t] # None => t >= nextResultIndex
      /\ \A t \in nextResultIndex .. nextTaskIndex - 1 :
            results[t] # None \/ \E s \in Slots : taskOf[s] = t
      /\ nextResultIndex < nextTaskIndex \/ nextTaskIndex = FileCount + 1

\* A crashed worker has announced its exit.
CrashInv ==
    \A s \in Slots : thread[s] = "crashed" =>
      /\ events[s] # <<>>
      /\ events[s][Len(events[s])].kind = "exit"

\* A worker that has a file works on it or has something to say.
WorkInv ==
    /\ stream \in {"waiting", "yielded"} => \A s \in Slots : thread[s] # "terminating"
    /\ Open /\ ExpectsResults => \A s \in Slots : thread[s] \in {"running", "crashed"}
    /\ Open => \A s \in Slots : taskOf[s] # None =>
                  events[s] # <<>> \/ (thread[s] = "running" /\ request[s] # None)

\* The generator waits for a result that is not there.
WaitInv ==
    stream = "waiting" =>
      /\ ExpectsResults
      /\ awaiting => failure = None /\ results[nextResultIndex] = None

PlacementInv == StartInv /\ PlacesInv /\ CrashInv /\ WorkInv /\ WaitInv

\* The ranks of the slots S count them.
LEMMA RanksCount ==
    ASSUME NEW S \in SUBSET Slots
    PROVE  /\ \A s, o \in S : Rank(S, s) = Rank(S, o) => s = o
           /\ \A s \in S : Rank(S, s) \in 1 .. Cardinality(S)
           /\ \A k \in 1 .. Cardinality(S) : \E s \in S : Rank(S, s) = k
<1> DEFINE Upto(s) == {o \in S : o <= s}
           rank == [s \in S |-> Rank(S, s)]
<1>1. /\ S \subseteq Int
      /\ IsFiniteSet(S)
      /\ Cardinality(S) \in Nat
      /\ \A s \in S : Rank(S, s) \in Nat \ {0}
  BY SlotsAreFinite DEF Slots
<1>2. \A s \in S : /\ Upto(s) \in SUBSET S
                   /\ IsFiniteSet(Upto(s))
                   /\ Rank(S, s) = Cardinality(Upto(s))
  <2>1. \A s \in S : Upto(s) \in SUBSET S
    OBVIOUS
  <2>2. \A s \in S : Rank(S, s) = Cardinality(Upto(s))
    BY Zenon DEF Rank
  <2> HIDE DEF Upto
  <2>3. QED BY <1>1, <2>1, <2>2, FS_Subset
<1>3. ASSUME NEW s \in S, NEW o \in S, s < o PROVE Rank(S, s) < Rank(S, o)
  <2>1. Upto(s) \in SUBSET Upto(o) /\ Upto(s) # Upto(o)
    <3>1. \A x \in Upto(s) : x \in Upto(o)
      BY <1>1, <1>3
    <3>2. o \in Upto(o) /\ o \notin Upto(s)
      BY <1>1, <1>3
    <3> HIDE DEF Upto
    <3>3. QED BY <3>1, <3>2
  <2> HIDE DEF Upto
  <2>2. Cardinality(Upto(s)) <= Cardinality(Upto(o)) /\ Cardinality(Upto(s)) # Cardinality(Upto(o))
    BY <1>2, <2>1, FS_Subset
  <2>3. QED BY <1>1, <1>2, <2>2
<1>4. \A s, o \in S : Rank(S, s) = Rank(S, o) => s = o
  <2>1. ASSUME NEW s \in S, NEW o \in S, s # o PROVE Rank(S, s) # Rank(S, o)
    <3>1. s < o \/ o < s
      BY <1>1, <2>1
    <3>2. QED BY <1>1, <1>3, <3>1
  <2>2. QED BY <2>1
<1>5. \A s \in S : Rank(S, s) \in 1 .. Cardinality(S)
  <2> SUFFICES ASSUME NEW s \in S PROVE Rank(S, s) \in 1 .. Cardinality(S)
    OBVIOUS
  <2> HIDE DEF Upto
  <2>1. Upto(s) \in SUBSET S /\ Rank(S, s) = Cardinality(Upto(s))
    BY <1>2
  <2>2. Cardinality(Upto(s)) <= Cardinality(S)
    BY <1>1, <2>1, FS_Subset
  <2>3. QED BY <1>1, <2>1, <2>2
<1>6. rank \in Injection(S, 1 .. Cardinality(S))
  BY <1>4, <1>5 DEF Injection, IsInjective
<1>7. rank \in Surjection(S, 1 .. Cardinality(S))
  <2>1. IsFiniteSet(1 .. Cardinality(S)) /\ Cardinality(1 .. Cardinality(S)) = Cardinality(S)
    BY <1>1, FS_Interval
  <2>2. QED BY <1>6, <2>1, FS_Injection, Zenon
<1>8. QED BY <1>4, <1>5, <1>7 DEF Surjection

\* Dispatching to idle slots without a failure gives the slots A among them the
\* next files, one each, and leaves a slot idle only when no file is left.
LEMMA DispatchPlaces ==
    ASSUME PoolTypeOK, NEW S \in SUBSET Slots, NEW sent, Dispatch(S, sent),
           processed' \in Nat, failure' = None
    PROVE  \E A \in SUBSET S :
             /\ idleSlots' = idleSlots \ A
             /\ \A s \in Slots \ A : taskOf'[s] = taskOf[s] /\ request'[s] = request[s]
             /\ \A s \in A : /\ taskOf'[s] \in nextTaskIndex .. nextTaskIndex' - 1
                             /\ request'[s] # None
             /\ \A s, o \in A : taskOf'[s] = taskOf'[o] => s = o
             /\ \A t \in nextTaskIndex .. nextTaskIndex' - 1 : \E s \in A : taskOf'[s] = t
             /\ A = S \/ nextTaskIndex' = FileCount + 1
             /\ Cardinality(S) <= FileCount + 1 - nextTaskIndex => A = S
             /\ nextTaskIndex' \in nextTaskIndex .. FileCount + 1
<1> DEFINE count == Lesser(Cardinality(S), FileCount + 1 - nextTaskIndex)
           Task(s) == nextTaskIndex + Rank(S, s) - 1
           A == {s \in S : Rank(S, s) <= count}
<1>1. /\ nextTaskIndex \in 1 .. FileCount + 1
      /\ FileCount \in Nat
      /\ Cardinality(S) \in Nat
      /\ S \subseteq Slots
  BY SlotsAreFinite, PoolAssumption DEF PoolTypeOK
<1>2. /\ count \in Nat
      /\ count <= FileCount + 1 - nextTaskIndex
      /\ count <= Cardinality(S)
      /\ count = Cardinality(S) \/ count = FileCount + 1 - nextTaskIndex
      /\ Cardinality(S) <= FileCount + 1 - nextTaskIndex => count = Cardinality(S)
  BY <1>1 DEF Lesser
<1>3. sent = count /\ Lesser(sent + 1, count) = count
  <2>1. sent \in 0 .. count /\ failure' = (IF sent < count THEN "worker" ELSE failure)
    BY Zenon DEF Dispatch
  <2>2. sent = count
    BY <1>2, <2>1, NoneIsNoResult
  <2>3. QED BY <1>2, <2>2 DEF Lesser
<1>4. /\ request' = [s \in Slots |-> IF s \in A THEN Parsed(Task(s), processed') ELSE request[s]]
      /\ taskOf' = [s \in Slots |-> IF s \in A THEN Task(s) ELSE taskOf[s]]
      /\ idleSlots' = idleSlots \ A
      /\ nextTaskIndex' = nextTaskIndex + count
  <2>1. /\ request' = [s \in Slots |-> IF s \in {o \in S : Rank(S, o) <= sent}
                                        THEN Parsed(Task(s), processed') ELSE request[s]]
        /\ taskOf' = [s \in Slots |-> IF s \in {o \in S : Rank(S, o) <= Lesser(sent + 1, count)}
                                       THEN Task(s) ELSE taskOf[s]]
        /\ idleSlots' = idleSlots \ {o \in S : Rank(S, o) <= Lesser(sent + 1, count)}
        /\ nextTaskIndex' = nextTaskIndex + Lesser(sent + 1, count)
    BY Zenon DEF Dispatch
  <2> HIDE DEF count, Task
  <2>2. QED BY <1>3, <2>1
<1>5. \A s \in A : Rank(S, s) \in 1 .. count
  BY <1>1, <1>2, RanksCount
<1>6. \A k \in 1 .. count : \E s \in A : Rank(S, s) = k
  BY <1>1, <1>2, RanksCount
<1>7. \A s, o \in A : Rank(S, s) = Rank(S, o) => s = o
  BY RanksCount
<1>8. count = Cardinality(S) => A = S
  BY RanksCount
<1>9. \A s \in A : Task(s) \in Tasks
  BY <1>1, <1>2, <1>5 DEF Tasks
<1> HIDE DEF count, A
<1>10. \A s \in A : taskOf'[s] = nextTaskIndex + Rank(S, s) - 1 /\ request'[s] # None
  <2>1. \A s \in A : Parsed(Task(s), processed') # None
    <3> HIDE DEF Task
    <3>1. QED BY <1>9, ParsedFromSource, NoneIsNoResult
  <2>2. A \subseteq Slots
    BY <1>1 DEF A
  <2>3. QED BY <1>4, <2>1, <2>2
<1>11. A \in SUBSET S
  BY DEF A
<1>12. \A s \in Slots \ A : taskOf'[s] = taskOf[s] /\ request'[s] = request[s]
  BY <1>4
<1>13. \A s \in A : taskOf'[s] \in nextTaskIndex .. nextTaskIndex' - 1
  BY <1>1, <1>2, <1>4, <1>5, <1>10
<1>14. \A s, o \in A : taskOf'[s] = taskOf'[o] => s = o
  <2>1. \A s \in A : Rank(S, s) \in Nat
    BY <1>2, <1>5
  <2>2. QED BY <1>1, <1>7, <1>10, <2>1
<1>15. \A t \in nextTaskIndex .. nextTaskIndex' - 1 : \E s \in A : taskOf'[s] = t
  <2> SUFFICES ASSUME NEW t \in nextTaskIndex .. nextTaskIndex' - 1 PROVE \E s \in A : taskOf'[s] = t
    OBVIOUS
  <2>1. t - nextTaskIndex + 1 \in 1 .. count
    BY <1>1, <1>2, <1>4
  <2>2. PICK s \in A : Rank(S, s) = t - nextTaskIndex + 1
    BY <1>6, <2>1
  <2>3. QED BY <1>1, <1>2, <1>4, <1>10, <2>2
<1>16. /\ A = S \/ nextTaskIndex' = FileCount + 1
       /\ Cardinality(S) <= FileCount + 1 - nextTaskIndex => A = S
       /\ nextTaskIndex' \in nextTaskIndex .. FileCount + 1
  BY <1>1, <1>2, <1>4, <1>8
<1>17. QED BY <1>4, <1>10, <1>11, <1>12, <1>13, <1>14, <1>15, <1>16

\* The generator yields the next result and gives the idle slots further files.
LEMMA YieldPlaces ==
    ASSUME Inv, PlacementInv, stream \in {"waiting", "yielded"}, processed' \in Nat,
           YieldResult
    PROVE  PlacementInv'
<1> DEFINE r == nextResultIndex
<1>1. /\ r \in Tasks /\ r <= FileCount /\ r \in Nat /\ nextTaskIndex \in Nat /\ FileCount \in Nat
      /\ failure = None /\ Open /\ ExpectsResults
      /\ stream' = "yielded" /\ nextResultIndex' = r + 1
      /\ results' = [results EXCEPT ![r] = None]
      /\ results \in [Tasks -> ParseResult \cup {None}]
      /\ taskOf \in [Slots -> Tasks \cup {None}]
      /\ UNCHANGED <<awaiting, thread, events>>
  BY PoolAssumption DEF YieldResult, Open, ExpectsResults, Inv, PoolInv, PoolTypeOK, Tasks
<1>2. ASSUME failure' # None PROVE PlacementInv'
  BY <1>1, <1>2 DEF PlacementInv, StartInv, PlacesInv, CrashInv, WorkInv, WaitInv, Open
<1>3. ASSUME failure' = None PROVE PlacementInv'
  <2>1. PICK sent \in 0 .. Cardinality(idleSlots) : Dispatch(idleSlots, sent)
    BY DEF YieldResult
  <2>2. idleSlots = {s \in Slots : taskOf[s] = None} /\ idleSlots \in SUBSET Slots
    BY <1>1 DEF PlacementInv, PlacesInv
  <2>3. PICK A \in SUBSET idleSlots :
             /\ idleSlots' = idleSlots \ A
             /\ \A s \in Slots \ A : taskOf'[s] = taskOf[s] /\ request'[s] = request[s]
             /\ \A s \in A : /\ taskOf'[s] \in nextTaskIndex .. nextTaskIndex' - 1
                             /\ request'[s] # None
             /\ \A s, o \in A : taskOf'[s] = taskOf'[o] => s = o
             /\ \A t \in nextTaskIndex .. nextTaskIndex' - 1 : \E s \in A : taskOf'[s] = t
             /\ A = idleSlots \/ nextTaskIndex' = FileCount + 1
             /\ nextTaskIndex' \in nextTaskIndex .. FileCount + 1
    BY <1>3, <2>1, <2>2, DispatchPlaces, Zenon DEF Inv, PoolInv
  <2>4. r < nextTaskIndex
    BY <1>1 DEF YieldResult, Inv, PoolInv, ScheduleInv
  <2>5. \A s \in Slots : taskOf[s] # None =>
          /\ taskOf[s] \in Tasks /\ taskOf[s] \in Nat /\ r < taskOf[s] /\ taskOf[s] < nextTaskIndex
          /\ results[taskOf[s]] = None
    BY <1>1 DEF YieldResult, PlacementInv, PlacesInv, Inv, PoolInv, ScheduleInv, Tasks
  <2>6. \A s \in A : /\ taskOf[s] = None /\ s \in Slots
                     /\ taskOf'[s] \in Tasks /\ taskOf'[s] \in Nat
                     /\ taskOf'[s] # None /\ r < taskOf'[s] /\ nextTaskIndex <= taskOf'[s]
                     /\ results'[taskOf'[s]] = None
    <3> SUFFICES ASSUME NEW s \in A
                 PROVE  /\ taskOf[s] = None /\ s \in Slots
                        /\ taskOf'[s] \in Tasks /\ taskOf'[s] \in Nat
                        /\ taskOf'[s] # None /\ r < taskOf'[s] /\ nextTaskIndex <= taskOf'[s]
                        /\ results'[taskOf'[s]] = None
      OBVIOUS
    <3>1. taskOf[s] = None /\ s \in Slots
      BY <2>2
    <3>2. taskOf'[s] \in Tasks /\ r < taskOf'[s] /\ nextTaskIndex <= taskOf'[s] /\ taskOf'[s] \in Nat
      BY <1>1, <2>3, <2>4 DEF Tasks
    <3>3. results'[taskOf'[s]] = results[taskOf'[s]]
      BY <1>1, <3>2
    <3>4. results[taskOf'[s]] = None
      BY <1>1, <3>2 DEF Inv, PoolInv, ScheduleInv
    <3>5. QED BY <3>1, <3>2, <3>3, <3>4, NoneIsNoResult
  <2>7. \A s \in Slots \ A : /\ taskOf'[s] = taskOf[s]
                             /\ taskOf[s] # None => results'[taskOf[s]] = None
    BY <1>1, <2>3, <2>5
  <2>8. PlacesInv'
    <3>1. idleSlots' = {s \in Slots : taskOf'[s] = None}
      BY <2>2, <2>3, <2>6
    <3>2. \A s \in Slots : taskOf'[s] # None => taskOf'[s] >= r + 1 /\ results'[taskOf'[s]] = None
      BY <1>1, <2>5, <2>6, <2>7
    <3>3. ASSUME NEW s \in Slots, NEW o \in Slots, taskOf'[s] # None, taskOf'[s] = taskOf'[o]
          PROVE  s = o
      <4>1. CASE s \in A /\ o \in A
        BY <2>3, <3>3, <4>1
      <4>2. CASE s \notin A /\ o \notin A
        BY <1>1, <2>7, <3>3, <4>2 DEF PlacementInv, PlacesInv
      <4>3. CASE s \in A /\ o \notin A
        BY <1>1, <2>5, <2>6, <2>7, <3>3, <4>3
      <4>4. CASE s \notin A /\ o \in A
        BY <1>1, <2>5, <2>6, <2>7, <3>3, <4>4
      <4>5. QED BY <4>1, <4>2, <4>3, <4>4
    <3>4. \A t \in Tasks : results'[t] # None => t >= r + 1
      BY <1>1 DEF PlacementInv, PlacesInv, Tasks
    <3>5. ASSUME NEW t \in r + 1 .. nextTaskIndex' - 1
          PROVE  results'[t] # None \/ \E s \in Slots : taskOf'[s] = t
      <4>1. CASE t < nextTaskIndex
        <5>1. t \in r .. nextTaskIndex - 1 /\ t # r
          BY <1>1, <4>1
        <5>2. CASE results[t] # None
          BY <1>1, <5>1, <5>2
        <5>3. CASE \E s \in Slots : taskOf[s] = t
          BY <1>1, <2>6, <2>7, <4>1, <5>3, NoneIsNoResult, PoolAssumption
          DEF Inv, PoolInv, PoolTypeOK, Tasks
        <5>4. QED BY <1>1, <5>1, <5>2, <5>3 DEF PlacementInv, PlacesInv
      <4>2. CASE t >= nextTaskIndex
        <5>1. t \in nextTaskIndex .. nextTaskIndex' - 1
          BY <1>1, <2>3, <4>2
        <5>2. QED BY <2>3, <2>6, <5>1
      <4>3. QED BY <1>1, <4>1, <4>2
    <3>6. r + 1 < nextTaskIndex' \/ nextTaskIndex' = FileCount + 1
      <4>1. CASE A = idleSlots
        <5>1. 1 \in Slots
          BY <1>1, PoolAssumption DEF Slots, Lesser, Tasks
        <5>2. CASE 1 \in A
          BY <1>1, <2>3, <2>4, <5>2
        <5>3. CASE 1 \notin A
          BY <1>1, <2>2, <2>3, <2>5, <4>1, <5>1, <5>3
        <5>4. QED BY <5>2, <5>3
      <4>2. QED BY <2>3, <4>1
    <3>7. QED BY <1>1, <3>1, <3>2, <3>3, <3>4, <3>5, <3>6 DEF PlacesInv
  <2>9. WorkInv'
    <3>1. \A s \in Slots : thread[s] \in {"running", "crashed"}
      BY <1>1 DEF PlacementInv, WorkInv
    <3>2. \A s \in Slots : taskOf'[s] # None =>
             events[s] # <<>> \/ (thread[s] = "running" /\ request'[s] # None)
      <4> SUFFICES ASSUME NEW s \in Slots, taskOf'[s] # None
                   PROVE  events[s] # <<>> \/ (thread[s] = "running" /\ request'[s] # None)
        OBVIOUS
      <4>1. CASE s \in A
        BY <2>3, <3>1, <4>1 DEF PlacementInv, CrashInv
      <4>2. CASE s \notin A
        BY <1>1, <2>3, <4>2 DEF PlacementInv, WorkInv
      <4>3. QED BY <4>1, <4>2
    <3>3. QED BY <1>1, <3>1, <3>2 DEF WorkInv
  <2>10. StartInv' /\ CrashInv' /\ WaitInv'
    BY <1>1 DEF PlacementInv, StartInv, CrashInv, WaitInv
  <2>11. QED BY <2>8, <2>9, <2>10 DEF PlacementInv
<1>4. QED BY <1>2, <1>3

\* The generator leaves its try block.
LEMMA ClosePlaces ==
    ASSUME Inv, PlacementInv, NEW how, Close(how)
    PROVE  PlacementInv'
<1>1. /\ stream' = "closing"
      /\ \A s \in Slots : thread'[s] = "crashed" => thread[s] = "crashed"
      /\ UNCHANGED events
  BY DEF Close
<1>2. QED BY <1>1 DEF PlacementInv, StartInv, PlacesInv, CrashInv, WorkInv, WaitInv, Open

\* One iteration of the loop of stream()
LEMMA AdvancePlaces ==
    ASSUME Inv, PlacementInv, stream \in {"waiting", "yielded"}, processed' \in Nat, Advance
    PROVE  PlacementInv'
<1>1. CASE AwaitResult
  BY <1>1 DEF AwaitResult, scheduleVars, workerVars,
              PlacementInv, StartInv, PlacesInv, CrashInv, WorkInv, WaitInv, Open, ExpectsResults
<1>2. QED BY <1>1, YieldPlaces, ClosePlaces DEF Advance

\* The pool starts, and every slot gets a file.
LEMMA StartPoolPlaces ==
    ASSUME Inv, PlacementInv, FileCount > 0, processed \in Nat, StartPool
    PROVE  PlacementInv'
<1>1. /\ stream = "initial" /\ processed' \in Nat
      /\ \A t \in Tasks : results[t] = None
      /\ \A s \in Slots : taskOf[s] = None
      /\ failure = None /\ nextResultIndex = 1 /\ nextTaskIndex = 1
      /\ idleSlots \subseteq Slots
      /\ FileCount \in Nat
      /\ \A s \in Slots : thread[s] # "crashed"
  BY PoolAssumption DEF StartPool, PlacementInv, StartInv, Inv, PoolInv, PoolTypeOK, ThreadInv
<1>2. CASE /\ stream' = "closed"
           /\ UNCHANGED <<yielded, scheduleVars, failure, awaiting, workerVars>>
  BY <1>1, <1>2 DEF workerVars, PlacementInv, StartInv, PlacesInv, CrashInv, WorkInv, WaitInv, Open
<1>3. CASE stream' = "closing" /\ \A s \in Slots : thread'[s] # "crashed"
  BY <1>1, <1>3 DEF PlacementInv, StartInv, PlacesInv, CrashInv, WorkInv, WaitInv, Open
<1>4. ASSUME NEW sent, Dispatch(Slots, sent), failure' = None,
             stream' = "waiting", awaiting' = TRUE,
             thread' = [s \in Slots |-> "running"],
             UNCHANGED <<yielded, results, nextResultIndex, events>>
      PROVE  PlacementInv'
  <2>1. Cardinality(Slots) <= FileCount + 1 - nextTaskIndex /\ 1 \in Slots
    <3>1. Lesser(WorkerCount, FileCount) \in 1 .. FileCount
      BY <1>1, PoolAssumption DEF Lesser
    <3>2. Cardinality(Slots) = Lesser(WorkerCount, FileCount)
      BY <3>1, FS_Interval DEF Slots
    <3>3. QED BY <1>1, <3>1, <3>2 DEF Slots
  <2>2. Slots \in SUBSET Slots
    OBVIOUS
  <2>3. /\ idleSlots' = idleSlots \ Slots
        /\ \A s \in Slots : /\ taskOf'[s] \in nextTaskIndex .. nextTaskIndex' - 1
                            /\ request'[s] # None
        /\ \A s, o \in Slots : taskOf'[s] = taskOf'[o] => s = o
        /\ \A t \in nextTaskIndex .. nextTaskIndex' - 1 : \E s \in Slots : taskOf'[s] = t
        /\ nextTaskIndex' \in nextTaskIndex .. FileCount + 1
    <3>1. \E A \in SUBSET Slots :
             /\ idleSlots' = idleSlots \ A
             /\ \A s \in A : /\ taskOf'[s] \in nextTaskIndex .. nextTaskIndex' - 1
                             /\ request'[s] # None
             /\ \A s, o \in A : taskOf'[s] = taskOf'[o] => s = o
             /\ \A t \in nextTaskIndex .. nextTaskIndex' - 1 : \E s \in A : taskOf'[s] = t
             /\ Cardinality(Slots) <= FileCount + 1 - nextTaskIndex => A = Slots
             /\ nextTaskIndex' \in nextTaskIndex .. FileCount + 1
      <4>1. PoolTypeOK /\ processed' \in Nat
        BY <1>1 DEF Inv, PoolInv
      <4>2. QED BY <1>4, <2>2, <4>1, DispatchPlaces, Zenon
    <3>2. QED BY <2>1, <3>1
  <2>4. \A s \in Slots : taskOf'[s] \in Tasks /\ taskOf'[s] # None /\ taskOf'[s] >= 1
    BY <1>1, <2>3, PoolAssumption DEF Tasks
  <2>5. PlacesInv'
    <3>1. idleSlots' = {s \in Slots : taskOf'[s] = None}
      BY <1>1, <2>3, <2>4
    <3>2. nextResultIndex' = 1 /\ results' = results /\ 1 < nextTaskIndex'
      BY <1>1, <1>4, <2>1, <2>3
    <3>3. QED BY <1>1, <2>3, <2>4, <3>1, <3>2 DEF PlacesInv
  <2>6. WorkInv' /\ CrashInv' /\ WaitInv' /\ StartInv'
    BY <1>1, <1>4, <2>3 DEF WorkInv, CrashInv, WaitInv, StartInv, ExpectsResults, Tasks
  <2>7. QED BY <2>5, <2>6 DEF PlacementInv
<1>5. QED BY <1>2, <1>3, <1>4 DEF StartPool

\* A queue that ends in an exit still does when another event was taken from it.
LEMMA LastEvent ==
    ASSUME NEW q \in Seq(Event), q # <<>>
    PROVE  /\ Head(q).kind # "exit" /\ q[Len(q)].kind = "exit" =>
                Tail(q) # <<>> /\ Tail(q)[Len(Tail(q))].kind = "exit"
           /\ LET a == q \o <<Exit>> IN a # <<>> /\ a[Len(a)].kind = "exit"
           /\ LET a == q \o <<Error, Exit>> IN a # <<>> /\ a[Len(a)].kind = "exit"
<1>1. Head(q) = q[1] /\ Len(q) \in Nat \ {0} /\ Exit.kind = "exit"
  BY DEF Exit
<1>2. /\ Len(q) # 1 => Len(Tail(q)) = Len(q) - 1 /\ Tail(q)[Len(Tail(q))] = q[Len(q)] /\ Tail(q) # <<>>
  <2>1. Len(Tail(q)) = Len(q) - 1 /\ Tail(q) \in Seq(Event)
    OBVIOUS
  <2>2. Len(q) # 1 => Len(q) - 1 \in 1 .. Len(Tail(q)) /\ Tail(q)[Len(q) - 1] = q[Len(q)]
    BY <1>1, <2>1
  <2>3. \A z \in Seq(Event) : Len(z) # 0 => z # <<>>
    OBVIOUS
  <2>4. Len(q) # 1 => Tail(q) # <<>>
    <3> DEFINE z == Tail(q)
    <3>1. z \in Seq(Event) /\ (Len(q) # 1 => Len(z) # 0)
      BY <1>1, <2>1
    <3> HIDE DEF z
    <3>2. Len(q) # 1 => z # <<>>
      BY <2>3, <3>1
    <3>3. QED BY <3>2 DEF z
  <2>5. QED BY <2>1, <2>2, <2>4
<1>3. \A d, e \in Event :
        /\ q \o <<e>> \in Seq(Event) /\ Len(q \o <<e>>) = Len(q) + 1 /\ (q \o <<e>>)[Len(q) + 1] = e
        /\ q \o <<d, e>> \in Seq(Event) /\ Len(q \o <<d, e>>) = Len(q) + 2
        /\ (q \o <<d, e>>)[Len(q) + 2] = e
  OBVIOUS
<1>4. Exit \in Event /\ Error \in Event
  BY DEF Event
<1>5. LET a == q \o <<Exit>> IN a # <<>> /\ a[Len(a)].kind = "exit"
  BY <1>1, <1>3, <1>4
<1>6. LET a == q \o <<Error, Exit>> IN a # <<>> /\ a[Len(a)].kind = "exit"
  BY <1>1, <1>3, <1>4
<1>7. QED BY <1>1, <1>2, <1>5, <1>6

\* The listeners of a worker's events
LEMMA ListenersPlace ==
    ASSUME Inv, PlacementInv, NEW s \in Slots, ListenerStep(s)
    PROVE  PlacementInv'
<1> DEFINE e == Head(events[s])
<1>1. /\ events[s] # <<>> /\ events[s] \in Seq(Event) /\ e \in Event
      /\ events' = [events EXCEPT ![s] = Tail(@)]
      /\ events \in [Slots -> Seq(Event)]
      /\ thread \in [Slots -> {"none", "running", "crashed", "terminating", "gone"}]
      /\ taskOf \in [Slots -> Tasks \cup {None}]
      /\ results \in [Tasks -> ParseResult \cup {None}]
      /\ nextResultIndex \in Nat /\ FileCount \in Nat
      /\ UNCHANGED <<stream, nextTaskIndex, nextResultIndex, request>>
  <2>1. events[s] # <<>> /\ events[s] \in Seq(Event)
    BY DEF ListenerStep, HandleMessage, HandleError, HandleExit, Inv, PoolInv, PoolTypeOK
  <2>2. QED BY <2>1, PoolAssumption
        DEF ListenerStep, HandleMessage, HandleError, HandleExit, scheduleVars, Inv, PoolInv, PoolTypeOK
<1>2. stream # "initial"
  BY <1>1 DEF PlacementInv, StartInv
<1>3. CrashInv'
  <2> SUFFICES ASSUME NEW o \in Slots, thread'[o] = "crashed"
               PROVE  events'[o] # <<>> /\ events'[o][Len(events'[o])].kind = "exit"
    BY DEF CrashInv
  <2>1. thread[o] = "crashed" /\ (o # s \/ e.kind # "exit")
    <3>1. CASE HandleMessage(s) \/ HandleError(s)
      BY <3>1 DEF HandleMessage, HandleError
    <3>2. CASE HandleExit(s)
      BY <1>1, <3>2 DEF HandleExit
    <3>3. QED BY <3>1, <3>2 DEF ListenerStep
  <2>2. events[o] # <<>> /\ events[o][Len(events[o])].kind = "exit"
    BY <2>1 DEF PlacementInv, CrashInv
  <2>3. CASE o # s
    BY <1>1, <2>2, <2>3
  <2>4. CASE o = s
    <3>1. e.kind # "exit"
      BY <2>1, <2>4
    <3>2. events'[s] = Tail(events[s])
      BY <1>1
    <3>3. QED BY <1>1, <2>2, <2>4, <3>1, <3>2, LastEvent
  <2>5. QED BY <2>3, <2>4
<1>4. ASSUME Fail("worker"), UNCHANGED <<taskOf, idleSlots, results>>,
             \A o \in Slots : thread'[o] \in {thread[o], "gone"}
      PROVE  PlacementInv'
  <2>1. failure' # None
    BY <1>4, NoneIsNoResult DEF Fail
  <2>2. stream = "waiting" => ~awaiting' /\ ExpectsResults'
    BY <1>1, <1>4 DEF Fail, PlacementInv, WaitInv, ExpectsResults
  <2>3. WorkInv'
    BY <1>1, <1>4, <2>1 DEF PlacementInv, WorkInv, Open
  <2>4. QED BY <1>1, <1>2, <1>3, <2>1, <2>2, <2>3
        DEF PlacementInv, StartInv, PlacesInv, WaitInv, Open
<1>5. CASE HandleMessage(s)
  <2>1. ASSUME failure = None, AnswersItsTask(s, e)
        PROVE  PlacementInv'
    <3>1. /\ results' = [results EXCEPT ![e.value.input] = e.value]
          /\ taskOf' = [taskOf EXCEPT ![s] = None]
          /\ idleSlots' = idleSlots \cup {s}
          /\ awaiting' = FALSE
          /\ UNCHANGED <<failure, thread>>
      BY <1>5, <2>1 DEF HandleMessage
    <3>2. PICK t \in Tasks : t = e.value.input /\ taskOf[s] = t /\ e.value # None
      BY <1>1, <2>1, NoneIsNoResult DEF AnswersItsTask, Event, Message, Garbage, Error, Exit, ParseResult
    <3> HIDE DEF e
    <3>3. /\ results' = [results EXCEPT ![t] = e.value]
          /\ t # None
      BY <3>1, <3>2, NoneIsNoResult
    <3>4. PlacesInv'
      <4> SUFFICES ASSUME Open PROVE PlacesInv'
        BY <1>1, <3>1 DEF PlacesInv, Open
      <4>1. idleSlots' = {o \in Slots : taskOf'[o] = None}
        BY <1>1, <3>1 DEF PlacementInv, PlacesInv
      <4>2. t >= nextResultIndex
        BY <3>2, <3>3 DEF PlacementInv, PlacesInv
      <4>3. \A o \in Slots : taskOf'[o] # None =>
               taskOf'[o] = taskOf[o] /\ taskOf[o] # t /\ results'[taskOf[o]] = results[taskOf[o]]
        BY <1>1, <3>1, <3>2, <3>3 DEF PlacementInv, PlacesInv
      <4>4. \A u \in Tasks : results'[u] = IF u = t THEN e.value ELSE results[u]
        BY <1>1, <3>3
      <4>5. \A u \in nextResultIndex .. nextTaskIndex - 1 :
               results'[u] # None \/ \E o \in Slots : taskOf'[o] = u
        <5> SUFFICES ASSUME NEW u \in nextResultIndex .. nextTaskIndex - 1
                     PROVE  results'[u] # None \/ \E o \in Slots : taskOf'[o] = u
          OBVIOUS
        <5>1. CASE u = t
          BY <3>2, <4>4, <5>1
        <5>2. CASE u # t
          <6>1. u \in Tasks
            BY <1>1 DEF Inv, PoolInv, PoolTypeOK, Tasks
          <6>2. results[u] # None \/ \E o \in Slots : taskOf[o] = u /\ o # s
            BY <3>2, <5>2 DEF PlacementInv, PlacesInv
          <6>3. QED BY <1>1, <3>1, <4>4, <5>2, <6>1, <6>2
        <5>3. QED BY <5>1, <5>2
      <4>6. QED BY <1>1, <4>1, <4>2, <4>3, <4>4, <4>5 DEF PlacementInv, PlacesInv
    <3>5. WorkInv'
      <4>1. \A o \in Slots : taskOf'[o] # None => taskOf'[o] = taskOf[o] /\ events'[o] = events[o]
        BY <1>1, <3>1
      <4>2. QED BY <1>1, <3>1, <4>1 DEF PlacementInv, WorkInv, Open, ExpectsResults
    <3>6. StartInv' /\ WaitInv'
      BY <1>1, <1>2, <3>1 DEF PlacementInv, StartInv, WaitInv, ExpectsResults
    <3>7. QED BY <1>3, <3>4, <3>5, <3>6 DEF PlacementInv
  <2>2. ASSUME ~(failure = None /\ AnswersItsTask(s, e))
        PROVE  PlacementInv'
    BY <1>4, <1>5, <2>2 DEF HandleMessage
  <2>3. QED BY <2>1, <2>2
<1>6. CASE HandleError(s)
  BY <1>4, <1>6 DEF HandleError, scheduleVars
<1>7. CASE HandleExit(s)
  <2>1. CASE ExpectsResults
    BY <1>1, <1>4, <1>7, <2>1 DEF HandleExit, scheduleVars
  <2>2. CASE ~ExpectsResults
    <3>1. /\ UNCHANGED <<failure, awaiting, scheduleVars>>
          /\ thread' = [thread EXCEPT ![s] = "gone"]
          /\ ~ExpectsResults' /\ stream # "waiting"
      BY <1>1, <1>7, <2>2 DEF HandleExit, PlacementInv, WaitInv, ExpectsResults
    <3>2. Open => \A o \in Slots : taskOf[o] = None
      <4>1. Open => \A o \in Slots : taskOf[o] # None => taskOf[o] >= nextResultIndex /\ taskOf[o] \in Tasks
        BY <1>1 DEF PlacementInv, PlacesInv
      <4>2. QED BY <1>1, <2>2, <4>1 DEF ExpectsResults, Tasks
    <3>3. WorkInv'
      BY <1>1, <3>1, <3>2 DEF PlacementInv, WorkInv, Open, scheduleVars
    <3>4. PlacesInv'
      BY <1>1, <3>1 DEF PlacementInv, PlacesInv, Open, scheduleVars
    <3>5. QED BY <1>1, <1>2, <1>3, <3>1, <3>3, <3>4 DEF PlacementInv, StartInv, WaitInv
  <2>3. QED BY <2>1, <2>2
<1>8. QED BY <1>5, <1>6, <1>7 DEF ListenerStep

\* The workers, and what befalls them
LEMMA WorkersPlace ==
    ASSUME Inv, PlacementInv, NEW s \in Slots, WorkerStep(s) \/ WorkerFault(s)
    PROVE  PlacementInv'
<1>1. /\ events \in [Slots -> Seq(Event)] /\ events[s] \in Seq(Event)
      /\ thread \in [Slots -> {"none", "running", "crashed", "terminating", "gone"}]
      /\ request \in [Slots -> ParseResult \cup {None}]
      /\ UNCHANGED <<stream, scheduleVars, failure, awaiting>>
  BY DEF WorkerStep, WorkerFault, Inv, PoolInv, PoolTypeOK
<1>2. stream # "initial"
  <2>1. thread[s] \in {"running", "terminating"}
    BY DEF WorkerStep, WorkerFault, WorkerParses, WorkerTerminates, WorkerCrashes, WorkerRepliesWrongly
  <2>2. QED BY <2>1 DEF Inv, PoolInv, ThreadInv
<1>3. StartInv' /\ PlacesInv' /\ WaitInv'
  BY <1>1, <1>2 DEF PlacementInv, StartInv, PlacesInv, WaitInv, Open, ExpectsResults, scheduleVars
<1>4. \/ /\ thread[s] = "running" /\ thread' = thread
         /\ \E d : events' = [events EXCEPT ![s] = Append(@, d)]
         /\ request' = [request EXCEPT ![s] = None]
      \/ /\ thread[s] = "running" /\ thread' = [thread EXCEPT ![s] = "crashed"]
         /\ \E last \in {<<Exit>>, <<Error, Exit>>} : events' = [events EXCEPT ![s] = @ \o last]
         /\ request' = [request EXCEPT ![s] = None]
      \/ /\ thread[s] = "terminating" /\ thread' = [thread EXCEPT ![s] = "gone"]
         /\ events' = [events EXCEPT ![s] = <<>>]
         /\ request' = [request EXCEPT ![s] = None]
  BY DEF WorkerStep, WorkerFault, WorkerParses, WorkerTerminates, WorkerCrashes, WorkerRepliesWrongly
<1>5. CASE thread[s] = "terminating" /\ thread' = [thread EXCEPT ![s] = "gone"]
           /\ events' = [events EXCEPT ![s] = <<>>]
  <2>1. stream \notin {"waiting", "yielded"}
    BY <1>5 DEF PlacementInv, WorkInv
  <2>2. QED BY <1>1, <1>3, <1>5, <2>1 DEF PlacementInv, CrashInv, WorkInv, Open
<1>6. ASSUME thread[s] = "running", thread' \in {thread, [thread EXCEPT ![s] = "crashed"]},
             NEW q, q # <<>>, events' = [events EXCEPT ![s] = q],
             thread' # thread => q[Len(q)].kind = "exit",
             request' = [request EXCEPT ![s] = None]
      PROVE  PlacementInv'
  <2>1. CrashInv'
    BY <1>1, <1>6 DEF PlacementInv, CrashInv
  <2>2. WorkInv'
    BY <1>1, <1>6 DEF PlacementInv, WorkInv, Open, ExpectsResults, scheduleVars
  <2>3. QED BY <1>3, <2>1, <2>2 DEF PlacementInv
<1>7. \A d : Append(events[s], d) # <<>>
  BY <1>1
<1>8. \A last \in {<<Exit>>, <<Error, Exit>>} :
         LET a == events[s] \o last IN a # <<>> /\ a[Len(a)].kind = "exit"
  <2>1. /\ LET a == <<>> \o <<Exit>> IN a # <<>> /\ a[Len(a)].kind = "exit"
        /\ LET a == <<>> \o <<Error, Exit>> IN a # <<>> /\ a[Len(a)].kind = "exit"
    BY DEF Exit, Error
  <2>2. QED BY <1>1, <2>1, LastEvent
<1>9. QED BY <1>1, <1>4, <1>5, <1>6, <1>7, <1>8

LEMMA InitPlaces == Init => PlacementInv
BY DEF Init, PoolInit, PlacementInv, StartInv, PlacesInv, CrashInv, WorkInv, WaitInv, Open

LEMMA StepPlaces == Inv /\ PlacementInv /\ [Next]_vars => PlacementInv'
<1> SUFFICES ASSUME Inv, PlacementInv, [Next]_vars PROVE PlacementInv'
  OBVIOUS
<1>1. processed \in Nat /\ FileCount \in Nat
  BY PoolAssumption DEF Inv, TypeOK
<1>2. CASE UNCHANGED poolVars
  BY <1>2 DEF poolVars, scheduleVars, workerVars,
              PlacementInv, StartInv, PlacesInv, CrashInv, WorkInv, WaitInv, Open, ExpectsResults
<1>3. ASSUME UNCHANGED <<stream, scheduleVars, workerVars>>, UNCHANGED <<failure, awaiting>> \/ Fail("cancelled"),
             stream = "initial" => UNCHANGED failure
      PROVE  PlacementInv'
  <2>1. UNCHANGED <<failure, awaiting>> \/ failure' # None
    BY <1>3, NoneIsNoResult DEF Fail
  <2>2. stream = "waiting" => /\ ExpectsResults'
                              /\ awaiting' => failure' = None /\ results[nextResultIndex] = None
    BY <1>3 DEF Fail, PlacementInv, WaitInv, ExpectsResults, scheduleVars
  <2>3. StartInv' /\ PlacesInv' /\ CrashInv' /\ WorkInv'
    BY <1>3, <2>1 DEF PlacementInv, StartInv, PlacesInv, CrashInv, WorkInv, Open, ExpectsResults,
                      scheduleVars, workerVars
  <2>4. QED BY <1>3, <2>2, <2>3 DEF PlacementInv, WaitInv, scheduleVars
<1>4. CASE Abort
  BY <1>3, <1>4 DEF Abort, AbortListener
<1>5. CASE EngineStep
  <2>1. CASE CanParseInParallel /\ StartPool
    <3>1. FileCount > 0
      BY <1>1, <2>1, EngineAssumption DEF CanParseInParallel
    <3>2. QED BY <1>1, <2>1, <3>1, StartPoolPlaces
  <2>2. QED BY <1>2, <1>5, <2>1 DEF EngineStep, Start, TakeResult, PoolEnds, PoolReturned, FinishFile
<1>6. CASE Process
  <2>1. processed' \in Nat
    BY <1>1, <1>6 DEF Process, Record
  <2>2. CASE Demand
    BY <2>1, <2>2, AdvancePlaces DEF Demand
  <2>3. CASE ReturnEarly
    BY <2>3, ClosePlaces DEF ReturnEarly
  <2>4. QED BY <1>2, <1>6, <2>2, <2>3 DEF Process
<1>7. CASE FinishStage
  BY <1>2, <1>7 DEF FinishStage
<1>8. CASE Resume
  BY <1>1, <1>8, AdvancePlaces DEF Resume
<1>9. CASE Closed
  BY <1>9 DEF Closed, workerVars, PlacementInv, StartInv, PlacesInv, CrashInv, WorkInv, WaitInv, Open
<1>10. CASE \E s \in Slots : WorkerStep(s) \/ ListenerStep(s) \/ WorkerFault(s)
  BY <1>10, WorkersPlace, ListenersPlace
<1>11. CASE UNCHANGED vars
  BY <1>2, <1>11 DEF vars
<1>12. QED BY <1>4, <1>5, <1>6, <1>7, <1>8, <1>9, <1>10, <1>11 DEF Next, ParsingStep, PoolStep, Fault

LEMMA PlacementHolds == Spec => [](Inv /\ PlacementInv)
<1>1. Init => Inv /\ PlacementInv
  BY InitialState, InitPlaces
<1>2. Inv /\ PlacementInv /\ [Next]_vars => (Inv /\ PlacementInv)'
  BY StepPreservesInv, StepPlaces
<1>3. QED BY <1>1, <1>2, PTL DEF Spec

\* No file is lost between the slots and the buffered results, and none is held
\* twice, however the workers answer, crash or lie.
THEOREM TasksHaveOnePlace == Spec => []TasksAreInOnePlace
<1>1. ASSUME Inv, PlacementInv PROVE TasksAreInOnePlace
  <2> DEFINE Holders(t) == {s \in Slots : taskOf[s] = t}
  <2> SUFFICES ASSUME stream \in {"waiting", "yielded"}, failure = None, NEW t \in Tasks
               PROVE  /\ idleSlots = Holders(None)
                      /\ Cardinality(Holders(t)) + (IF results[t] = None THEN 0 ELSE 1)
                           = IF t \in nextResultIndex .. nextTaskIndex - 1 THEN 1 ELSE 0
    BY <1>1 DEF TasksAreInOnePlace, PlacementInv, PlacesInv, Open
  <2>1. /\ idleSlots = Holders(None)
        /\ \A s \in Slots : taskOf[s] # None => taskOf[s] >= nextResultIndex /\ results[taskOf[s]] = None
        /\ \A s, o \in Slots : taskOf[s] # None /\ taskOf[s] = taskOf[o] => s = o
        /\ results[t] # None => t >= nextResultIndex
        /\ t \in nextResultIndex .. nextTaskIndex - 1 => results[t] # None \/ \E s \in Slots : taskOf[s] = t
    BY <1>1 DEF PlacementInv, PlacesInv, Open
  <2>2. /\ t \in Nat /\ t # None /\ nextResultIndex \in Nat /\ nextTaskIndex \in Nat
        /\ results[t] # None => t < nextTaskIndex
        /\ \A s \in Slots : taskOf[s] = t => t < nextTaskIndex
    BY <1>1, NoneIsNoResult DEF Inv, PoolInv, PoolTypeOK, ScheduleInv, Tasks
  <2>3. \A s \in Slots : taskOf[s] = t => t \in nextResultIndex .. nextTaskIndex - 1 /\ results[t] = None
    BY <2>1, <2>2
  <2>4. results[t] # None => t \in nextResultIndex .. nextTaskIndex - 1
    BY <2>1, <2>2
  <2>5. CASE Holders(t) = {}
    <3>1. Cardinality(Holders(t)) = 0
      BY <2>5, FS_EmptySet
    <3>2. t \in nextResultIndex .. nextTaskIndex - 1 => results[t] # None
      BY <2>1, <2>5
    <3>3. QED BY <2>1, <2>4, <3>1, <3>2
  <2>6. CASE Holders(t) # {}
    <3>1. PICK s \in Slots : taskOf[s] = t
      BY <2>6
    <3>2. Holders(t) = {s}
      BY <2>1, <2>2, <3>1
    <3>3. Cardinality(Holders(t)) = 1
      BY <3>2, FS_Singleton
    <3>4. QED BY <2>1, <2>3, <3>1, <3>3
  <2>7. QED BY <2>5, <2>6
<1>2. QED BY <1>1, PlacementHolds, PTL

\* A generator that waits is going to be woken: nothing has failed and a worker
\* has the very file it waits for, or has sent what it makes of it.
THEOREM TheNextResultIsUnderWay == Spec => []NextResultIsUnderWay
<1>1. ASSUME Inv, PlacementInv PROVE NextResultIsUnderWay
  <2> SUFFICES ASSUME stream = "waiting", awaiting PROVE
         /\ failure = None
         /\ results[nextResultIndex] = None
         /\ \E s \in Slots :
               /\ taskOf[s] = nextResultIndex
               /\ events[s] # <<>> \/ (thread[s] = "running" /\ request[s] # None)
    BY DEF NextResultIsUnderWay
  <2>1. failure = None /\ results[nextResultIndex] = None /\ ExpectsResults /\ Open
    BY <1>1 DEF PlacementInv, WaitInv, Open
  <2>2. /\ nextResultIndex \in Nat /\ nextTaskIndex \in Nat /\ FileCount \in Nat
        /\ nextResultIndex \in Tasks
    BY <1>1, <2>1, PoolAssumption DEF Inv, PoolInv, PoolTypeOK, ExpectsResults, Tasks
  <2>3. nextResultIndex \in nextResultIndex .. nextTaskIndex - 1
    BY <1>1, <2>1, <2>2 DEF PlacementInv, PlacesInv, ExpectsResults
  <2>4. PICK s \in Slots : taskOf[s] = nextResultIndex
    BY <1>1, <2>1, <2>3 DEF PlacementInv, PlacesInv
  <2>5. QED BY <1>1, <2>1, <2>2, <2>4, NoneIsNoResult DEF PlacementInv, WorkInv
<1>2. QED BY <1>1, PlacementHolds, PTL

=============================================================================
