----------------------- MODULE HistoricalImpact_proofs -----------------------
(***************************************************************************)
(* Proofs about commit and pull-request impact, for commits with any number*)
(* of parents, trees and outputs of any size and any limit: no process and *)
(* no private directory outlives its use, however a request ends, and only *)
(* whole trees are analysed.                                               *)
(***************************************************************************)
EXTENDS HistoricalImpact, SequenceTheorems, TLAPS

-----------------------------------------------------------------------------
(* Commands *)

\* What is not yet flushed when a file ends is flushed before it is finished, and a
\* command whose process is still there has neither ended its promise nor closed.
CommandInv ==
    /\ command \in Command
    /\ signal \in {"none", "live", "aborted"}
    /\ command.kind = "none" => command = NoCommand
    /\ command.kind = "text" => command.file = "none"
    /\ command.file \in {"ended", "finished"} => command.read = command.size
    /\ command.file = "finished" => command.flushed = command.read
    /\ command.childClosed => command.child = "exited"
    /\ command.outcome = "ok" /\ Archiving => command.file = "finished"
    /\ CommandIsReleased

LEMMA NoCommandInv ==
    /\ NoCommand \in Command
    /\ NoCommand.kind = "none" /\ NoCommand.outcome = "ok"
BY CommandAssumption DEF NoCommand, Command

\* A promise is settled in one way, and only once.
LEMMA FinishInv ==
    ASSUME CommandInv, NEW c \in Command, NEW outcome \in {"ok", "failed"},
           c.kind # "none",
           c.kind = "text" => c.file = "none",
           c.file \in {"ended", "finished"} => c.read = c.size,
           c.file = "finished" => c.flushed = c.read,
           c.childClosed => c.child = "exited",
           c.outcome = "pending",
           outcome = "ok" => c.child # "running" /\ (c.kind = "archive" => c.file = "finished"),
           Finish(c, outcome), signal' \in {"none", "live", "aborted"}
    PROVE  CommandInv' /\ command'.kind = c.kind /\ command'.size = c.size
<1>1. command' = Settled(c, outcome)
  BY DEF Finish
<1>2. /\ command' \in Command
      /\ command'.kind = c.kind /\ command'.size = c.size
      /\ command'.read = c.read /\ command'.flushed = c.flushed /\ command'.childClosed = c.childClosed
      /\ command'.outcome = outcome /\ command'.timer = FALSE /\ command'.listening = FALSE
      /\ command'.child = (IF outcome # "ok" /\ c.child = "running" THEN "killed" ELSE c.child)
      /\ command'.file = (IF outcome # "ok" /\ c.kind = "archive" THEN "destroyed" ELSE c.file)
  BY <1>1 DEF Settled, Command
<1>3. command'.childClosed => command'.child = "exited"
  BY <1>2
<1>4. command'.outcome = "ok" /\ Archiving' => command'.file = "finished"
  BY <1>2 DEF Archiving
<1>5. QED BY <1>2, <1>3, <1>4 DEF CommandInv, CommandIsReleased, Running

LEMMA CommandStepInv ==
    ASSUME CommandInv, CommandStep \/ AbortSignal
    PROVE  CommandInv' /\ command'.kind = command.kind /\ command'.size = command.size
<1> USE DEF Running, Archiving
<1>1. command.outcome = "pending" => command.kind # "none"
  BY DEF CommandInv, NoCommand
<1>2. command.outcome # "pending" => command.child # "running" /\ ~command.timer /\ ~command.listening
  BY DEF CommandInv, CommandIsReleased
<1>3. command \in Command /\ signal \in {"none", "live", "aborted"}
  BY DEF CommandInv
<1>4. CASE ReadChunk /\ UNCHANGED signal
  <2> DEFINE c == [command EXCEPT !.read = @ + 1]
  <2>1. /\ command.child = "running" /\ command.outcome = "pending" /\ command.read < command.size
        /\ IF c.read > MaxChunks THEN Finish(c, "failed") ELSE command' = c
    BY <1>4 DEF ReadChunk
  <2>2. /\ c \in Command /\ c.kind = command.kind /\ c.size = command.size /\ c.child = command.child
        /\ c.file = command.file /\ c.childClosed = command.childClosed /\ c.outcome = command.outcome
        /\ c.flushed = command.flushed
    BY <1>3, <2>1, CommandAssumption DEF Command
  <2>3. c.file \notin {"ended", "finished"}
    BY <1>3, <2>1, <2>2 DEF CommandInv, Command
  <2> HIDE DEF c
  <2>4. CASE Finish(c, "failed")
    BY <1>1, <1>3, <1>4, <2>1, <2>2, <2>3, <2>4, FinishInv DEF CommandInv
  <2>5. CASE command' = c
    BY <1>1, <1>4, <2>1, <2>2, <2>3, <2>5 DEF CommandInv, CommandIsReleased
  <2>6. QED BY <2>1, <2>4, <2>5
<1>5. CASE FlushChunk /\ UNCHANGED signal
  <2>1. /\ command.file \in {"open", "ended"} /\ command.flushed < command.read
        /\ command' = [command EXCEPT !.flushed = @ + 1]
    BY <1>5 DEF FlushChunk
  <2>2. /\ command' \in Command /\ command'.kind = command.kind /\ command'.size = command.size
        /\ command'.child = command.child /\ command'.file = command.file
        /\ command'.childClosed = command.childClosed /\ command'.outcome = command.outcome
        /\ command'.read = command.read /\ command'.timer = command.timer
        /\ command'.listening = command.listening
    BY <1>3, <2>1, CommandAssumption DEF Command
  <2>3. command'.kind # "none"
    BY <2>1, <2>2 DEF CommandInv, NoCommand
  <2>4. QED BY <1>5, <2>1, <2>2, <2>3 DEF CommandInv, CommandIsReleased
<1>6. CASE EndOutput /\ UNCHANGED signal
  <2>1. /\ command.child = "running" /\ command.file = "open" /\ command.read = command.size
        /\ command' = [command EXCEPT !.file = "ended"]
    BY <1>6 DEF EndOutput
  <2>2. /\ command' \in Command /\ command'.kind = command.kind /\ command'.size = command.size
        /\ command'.child = command.child /\ command'.file = "ended"
        /\ command'.childClosed = command.childClosed /\ command'.outcome = command.outcome
        /\ command'.read = command.read /\ command'.timer = command.timer
        /\ command'.listening = command.listening
    BY <1>3, <2>1 DEF Command
  <2>3. command.kind = "archive" /\ command.outcome = "pending"
    BY <1>2, <1>3, <2>1 DEF CommandInv, NoCommand, Command
  <2>4. QED BY <1>6, <2>1, <2>2, <2>3 DEF CommandInv, CommandIsReleased
<1>7. CASE Close /\ UNCHANGED signal
  <2> DEFINE c == [command EXCEPT !.child = "exited"]
  <2>1. /\ command.child = "running" /\ command.outcome = "pending" /\ command.read = command.size
        /\ command.kind = "archive" => command.file # "open"
        /\ IF command.kind # "archive" \/ c.file = "finished"
             THEN Finish(c, "ok")
             ELSE command' = [c EXCEPT !.childClosed = TRUE]
    BY <1>7 DEF Close
  <2>2. /\ c \in Command /\ c.kind = command.kind /\ c.size = command.size /\ c.child = "exited"
        /\ c.file = command.file /\ c.childClosed = command.childClosed /\ c.outcome = command.outcome
        /\ c.flushed = command.flushed /\ c.read = command.read
    BY <1>3 DEF Command
  <2> HIDE DEF c
  <2>3. CASE Finish(c, "ok") /\ (command.kind # "archive" \/ c.file = "finished")
    BY <1>1, <1>3, <1>7, <2>1, <2>2, <2>3, FinishInv DEF CommandInv
  <2>4. CASE command' = [c EXCEPT !.childClosed = TRUE] /\ ~(command.kind # "archive" \/ c.file = "finished")
    <3>1. /\ command' \in Command /\ command'.kind = c.kind /\ command'.size = c.size
          /\ command'.child = "exited" /\ command'.file = c.file
          /\ command'.childClosed = TRUE /\ command'.outcome = "pending"
          /\ command'.read = c.read /\ command'.flushed = c.flushed
      BY <2>1, <2>2, <2>4 DEF Command
    <3>2. QED BY <1>7, <2>1, <2>2, <2>4, <3>1 DEF CommandInv, CommandIsReleased
  <2>5. QED BY <2>1, <2>3, <2>4
<1>8. CASE FinishFile /\ UNCHANGED signal
  <2> DEFINE c == [command EXCEPT !.file = "finished"]
  <2>1. /\ command.file = "ended" /\ command.flushed = command.read
        /\ IF c.childClosed THEN Finish(c, "ok") ELSE command' = c
    BY <1>8 DEF FinishFile
  <2>2. /\ c \in Command /\ c.kind = command.kind /\ c.size = command.size /\ c.child = command.child
        /\ c.file = "finished" /\ c.childClosed = command.childClosed /\ c.outcome = command.outcome
        /\ c.flushed = command.flushed /\ c.read = command.read
        /\ c.timer = command.timer /\ c.listening = command.listening
    BY <1>3 DEF Command
  <2>3. command.kind = "archive" /\ command.read = command.size
    BY <1>3, <2>1 DEF CommandInv, NoCommand, Command
  <2> HIDE DEF c
  <2>4. CASE Finish(c, "ok") /\ c.childClosed /\ c.outcome = "pending"
    BY <1>1, <1>3, <1>8, <2>1, <2>2, <2>3, <2>4, FinishInv DEF CommandInv
  <2>5. CASE command' = c
    BY <1>8, <2>1, <2>2, <2>3, <2>5 DEF CommandInv, CommandIsReleased
  <2>6. CASE Finish(c, "ok") /\ c.outcome # "pending"
    <3>1. command' = c
      BY <2>6 DEF Finish
    <3>2. QED BY <2>5, <3>1
  <2>7. QED BY <2>1, <2>4, <2>5, <2>6
<1>9. CASE ChildFails /\ UNCHANGED signal
  <2> DEFINE c == [command EXCEPT !.child = "failed"]
  <2>1. command.child = "running" /\ Finish(c, "failed")
    BY <1>9 DEF ChildFails
  <2>2. /\ c \in Command /\ c.kind = command.kind /\ c.size = command.size
        /\ c.file = command.file /\ c.childClosed = command.childClosed /\ c.outcome = command.outcome
        /\ c.flushed = command.flushed /\ c.read = command.read
    BY <1>3 DEF Command
  <2> HIDE DEF c
  <2>3. command.outcome = "pending" /\ ~c.childClosed
    BY <1>2, <1>3, <2>1, <2>2 DEF CommandInv, Command
  <2>4. QED BY <1>1, <1>3, <1>9, <2>1, <2>2, <2>3, FinishInv DEF CommandInv
<1>10. CASE Finish(command, "failed") /\ signal' \in {"none", "live", "aborted"}
            /\ command.outcome = "pending"
  BY <1>1, <1>3, <1>10, FinishInv DEF CommandInv
<1>11. CASE UNCHANGED command /\ signal' \in {"none", "live", "aborted"}
  BY <1>11 DEF CommandInv, CommandIsReleased
<1>12. QED
  BY <1>2, <1>3, <1>4, <1>5, <1>6, <1>7, <1>8, <1>9, <1>10, <1>11
  DEF CommandStep, StreamFails, Timeout, AbortSignal

-----------------------------------------------------------------------------
(* The order of a plan *)

\* What materialize awaits while its directory is private, and the analysis
Inside == {"mkdir", "git", "archive", "listArchive", "extract", "measure", "hash"}
AnalysisCalls == {"analyzeRepository", "synthesize", "computeIntelligence"}
OtherCalls == {"realpath", "getHistory"} \cup Checks
AllCalls == Inside \cup AnalysisCalls \cup OtherCalls \cup {"mkdtemp", "rm", "cleanup"}

Step == [call : AllCalls, side : Sides \cup {"none"}]
Makes(side) == {Await(call, side) : call \in Inside \cup {"mkdtemp"}}

\* A step may come before all of later: a directory is made, filled, handed over,
\* used and cleaned up, in this order and once, and nothing else happens between
\* its creation and the moment it is handed over.
Precedes(step, later) ==
  /\ step # Await("archive", "none")
  /\ \A side \in Sides :
      /\ Await("rm", side) \notin later
      /\ step \in Makes(side) =>
           Await("mkdtemp", side) \notin later /\ Await("materialized", side) \in later
      /\ step \notin Makes(side) /\ Await("materialized", side) \in later =>
           Await("mkdtemp", side) \in later
      /\ step \in {Await("materialized", side), Await("cleanup", side), Await("rm", side)} =>
           later \cap (Makes(side) \cup {Await("materialized", side)}) = {}
      /\ step = Await("materialized", side) => Await("cleanup", side) \in later
      /\ step \in {Await("cleanup", side), Await("rm", side)} => Await("cleanup", side) \notin later
      /\ step = Await("archive", side) =>
           Await("archive", side) \notin later /\ Await("extract", side) \in later
      /\ step = Await("extract", side) =>
           Await("archive", side) \notin later /\ Await("extract", side) \notin later
      /\ step.call \in AnalysisCalls =>
           /\ later \cap (Makes(side) \cup {Await("materialized", side)}) = {}
           /\ Await("cleanup", side) \in later
      /\ step.call \in {"cleanup", "rm"} => \A other \in later : other.call \notin AnalysisCalls

Later(s, i) == {s[j] : j \in {k \in DOMAIN s : k > i}}
Steps(s) == {s[j] : j \in DOMAIN s}

Ordered(s) == s \in Seq(Step) /\ \A i \in DOMAIN s : Precedes(s[i], Later(s, i))

\* Nothing is archived but a tree.
LEMMA NotArchive ==
    ASSUME NEW step, step.call # "archive" \/ step.side # "none"
    PROVE  step # Await("archive", "none")
BY DEF Await

LEMMA EmptyOrdered == Ordered(<<>>) /\ Steps(<<>>) = {}
BY DEF Ordered, Steps

\* More steps in front
LEMMA PrependAll ==
    ASSUME NEW s, Ordered(s), NEW a \in Seq(Step),
           \A i \in DOMAIN a : Precedes(a[i], Later(a, i) \cup Steps(s))
    PROVE  Ordered(a \o s) /\ Steps(a \o s) = Steps(a) \cup Steps(s)
<1> DEFINE t == a \o s
           n == Len(a)
<1>1. /\ s \in Seq(Step) /\ t \in Seq(Step) /\ n \in Nat
      /\ Len(t) = n + Len(s)
      /\ \A i \in 1 .. n : t[i] = a[i]
      /\ \A i \in 1 .. Len(s) : t[n + i] = s[i]
  BY DEF Ordered
<1> HIDE DEF t
<1>2. DOMAIN t = 1 .. n + Len(s) /\ DOMAIN s = 1 .. Len(s) /\ DOMAIN a = 1 .. n /\ Len(s) \in Nat
  BY <1>1
<1> HIDE DEF n
<1>3. ASSUME NEW i \in 0 .. Len(s) PROVE Later(t, n + i) = Later(s, i)
  <2>1. ASSUME NEW x \in Later(t, n + i) PROVE x \in Later(s, i)
    <3>1. PICK j \in DOMAIN t : j > n + i /\ x = t[j]
      BY DEF Later
    <3>2. j - n \in 1 .. Len(s) /\ x = s[j - n] /\ j - n > i
      BY <1>1, <1>2, <3>1
    <3>3. QED BY <1>2, <3>2 DEF Later
  <2>2. ASSUME NEW x \in Later(s, i) PROVE x \in Later(t, n + i)
    <3>1. PICK j \in 1 .. Len(s) : x = s[j] /\ j > i
      BY <1>2 DEF Later
    <3>2. n + j \in DOMAIN t /\ n + j > n + i /\ x = t[n + j]
      BY <1>1, <1>2, <3>1
    <3>3. QED BY <3>2 DEF Later
  <2>3. QED BY <2>1, <2>2
<1>4. Steps(s) = Later(t, n)
  <2>1. Steps(s) = Later(s, 0)
    BY <1>2 DEF Steps, Later
  <2>2. 0 \in 0 .. Len(s) /\ n + 0 = n
    BY <1>1, <1>2
  <2>3. QED BY <1>3, <2>1, <2>2
<1>5. ASSUME NEW i \in DOMAIN a PROVE Later(t, i) = Later(a, i) \cup Later(t, n)
  BY <1>1, <1>2 DEF Later
<1>6. Steps(t) = Steps(a) \cup Later(t, n)
  BY <1>1, <1>2 DEF Steps, Later
<1>7. ASSUME NEW i \in DOMAIN t PROVE Precedes(t[i], Later(t, i))
  <2>1. CASE i \in DOMAIN a
    BY <1>1, <1>2, <1>4, <1>5, <2>1
  <2>2. CASE i \notin DOMAIN a
    <3>1. i - n \in DOMAIN s /\ i - n \in 0 .. Len(s) /\ t[i] = s[i - n] /\ i = n + (i - n)
      BY <1>1, <1>2, <2>2
    <3>2. Later(t, i) = Later(s, i - n)
      BY <1>3, <3>1
    <3>3. QED BY <3>1, <3>2 DEF Ordered
  <2>3. QED BY <2>1, <2>2
<1>8. QED BY <1>1, <1>4, <1>6, <1>7 DEF Ordered, t

LEMMA Prepend ==
    ASSUME NEW s, Ordered(s), NEW step \in Step, Precedes(step, Steps(s))
    PROVE  Ordered(<<step>> \o s) /\ Steps(<<step>> \o s) = {step} \cup Steps(s)
<1> DEFINE a == <<step>>
<1>1. /\ a \in Seq(Step) /\ DOMAIN a = {1} /\ a[1] = step
      /\ Later(a, 1) = {} /\ Steps(a) = {step}
  BY DEF Later, Steps
<1> HIDE DEF a
<1>2. \A i \in DOMAIN a : Precedes(a[i], Later(a, i) \cup Steps(s))
  BY <1>1
<1>3. Ordered(a \o s) /\ Steps(a \o s) = Steps(a) \cup Steps(s)
  BY <1>1, <1>2, PrependAll
<1>4. QED BY <1>1, <1>3 DEF a

\* The first step, and what is left after it
LEMMA Advance ==
    ASSUME NEW s, Ordered(s), s # <<>>
    PROVE  /\ s[1] \in Step
           /\ Ordered(Tail(s))
           /\ Precedes(s[1], Steps(Tail(s)))
           /\ Steps(s) = {s[1]} \cup Steps(Tail(s))
<1> DEFINE t == Tail(s)
<1>1. /\ s \in Seq(Step) /\ t \in Seq(Step) /\ Len(s) > 0 /\ s[1] \in Step
      /\ Len(t) = Len(s) - 1
      /\ \A i \in 1 .. Len(t) : t[i] = s[i + 1]
  BY DEF Ordered
<1> HIDE DEF t
<1>2. DOMAIN s = 1 .. Len(s) /\ DOMAIN t = 1 .. Len(s) - 1 /\ Len(s) \in Nat
  BY <1>1
<1>3. ASSUME NEW i \in 0 .. Len(t) PROVE Later(t, i) = Later(s, i + 1)
  <2>1. ASSUME NEW x \in Later(t, i) PROVE x \in Later(s, i + 1)
    <3>1. PICK j \in 1 .. Len(t) : x = t[j] /\ j > i
      BY <1>1, <1>2 DEF Later
    <3>2. j + 1 \in DOMAIN s /\ j + 1 > i + 1 /\ x = s[j + 1]
      BY <1>1, <1>2, <3>1
    <3>3. QED BY <3>2 DEF Later
  <2>2. ASSUME NEW x \in Later(s, i + 1) PROVE x \in Later(t, i)
    <3>1. PICK j \in DOMAIN s : j > i + 1 /\ x = s[j]
      BY DEF Later
    <3>2. j - 1 \in DOMAIN t /\ x = t[j - 1] /\ j - 1 > i
      BY <1>1, <1>2, <3>1
    <3>3. QED BY <3>2 DEF Later
  <2>3. QED BY <2>1, <2>2
<1>4. Steps(t) = Later(s, 1)
  <2>1. Steps(t) = Later(t, 0)
    BY <1>2 DEF Steps, Later
  <2>2. 0 \in 0 .. Len(t)
    BY <1>1
  <2>3. QED BY <1>3, <2>1, <2>2
<1>5. Steps(s) = {s[1]} \cup Later(s, 1)
  BY <1>1, <1>2 DEF Steps, Later
<1>6. Precedes(s[1], Later(s, 1))
  BY <1>1, <1>2 DEF Ordered
<1>7. ASSUME NEW i \in DOMAIN t PROVE Precedes(t[i], Later(t, i))
  <2>1. i + 1 \in DOMAIN s /\ t[i] = s[i + 1] /\ i \in 0 .. Len(t)
    BY <1>1, <1>2
  <2>2. QED BY <1>3, <2>1 DEF Ordered
<1>8. QED BY <1>1, <1>4, <1>5, <1>6, <1>7 DEF Ordered, t

-----------------------------------------------------------------------------
(* Every plan is ordered *)

\* The plan has yet to make the directories it hands over, and removes none itself.
Unopened(s) ==
    \A side \in Sides :
      /\ Await("rm", side) \notin Steps(s)
      /\ Await("materialized", side) \in Steps(s) => Await("mkdtemp", side) \in Steps(s)

LEMMA AwaitsFacts ==
    ASSUME NEW C \in SUBSET AllCalls, NEW calls \in Seq(C), NEW side \in Sides \cup {"none"}
    PROVE  /\ Awaits(calls, side) \in Seq(Step)
           /\ DOMAIN Awaits(calls, side) = DOMAIN calls
           /\ \A i \in DOMAIN calls : /\ Awaits(calls, side)[i] = Await(calls[i], side)
                                      /\ calls[i] \in C
           /\ \A x \in Steps(Awaits(calls, side)) : x.side = side /\ x.call \in C
<1>1. DOMAIN calls = 1 .. Len(calls) /\ Len(calls) \in Nat /\ \A i \in DOMAIN calls : calls[i] \in C
  OBVIOUS
<1>2. \A i \in DOMAIN calls : Await(calls[i], side) \in Step
  BY <1>1 DEF Step, Await
<1>3. Awaits(calls, side) \in [1 .. Len(calls) -> Step]
  BY <1>1, <1>2 DEF Awaits
<1>4. Awaits(calls, side) \in Seq(Step)
  BY <1>1, <1>3
<1>5. QED BY <1>1, <1>4 DEF Awaits, Await, Steps

\* What concerns neither directory can come before they are made.
LEMMA NeutralSteps ==
    ASSUME NEW s, Ordered(s), Unopened(s), NEW calls \in Seq(OtherCalls \cup {"git"})
    PROVE  LET a == Awaits(calls, "none")
           IN  /\ Ordered(a \o s) /\ Unopened(a \o s)
               /\ Steps(a \o s) = Steps(a) \cup Steps(s)
               /\ \A x \in Steps(a) : x.side = "none" /\ x.call \in OtherCalls \cup {"git"}
<1> DEFINE a == Awaits(calls, "none")
           C == OtherCalls \cup {"git"}
<1>1. C \in SUBSET AllCalls /\ calls \in Seq(C)
  BY DEF AllCalls, Inside
<1> HIDE DEF C
<1>2. /\ a \in Seq(Step)
      /\ \A i \in DOMAIN a : a[i].side = "none" /\ a[i].call \in C
      /\ \A x \in Steps(a) : x.side = "none" /\ x.call \in C
  <2>1. "none" \in Sides \cup {"none"}
    OBVIOUS
  <2>2. /\ a \in Seq(Step) /\ DOMAIN a = DOMAIN calls
        /\ \A i \in DOMAIN calls : a[i] = Await(calls[i], "none") /\ calls[i] \in C
        /\ \A x \in Steps(a) : x.side = "none" /\ x.call \in C
    BY <1>1, <2>1, AwaitsFacts, Zenon
  <2> HIDE DEF a
  <2>3. QED BY <2>2 DEF Await
<1> USE DEF C
<1> HIDE DEF a
<1>3. ASSUME NEW i \in DOMAIN a PROVE Precedes(a[i], Later(a, i) \cup Steps(s))
  <2> DEFINE later == Later(a, i) \cup Steps(s)
  <2>1. \A x \in Later(a, i) : x.side = "none"
    BY <1>2 DEF Later
  <2>2. \A call : \A side \in Sides : Await(call, side) \in later <=> Await(call, side) \in Steps(s)
    BY <2>1 DEF Await, Sides
  <2>3. \A call : \A side \in Sides : a[i] # Await(call, side)
    BY <1>2 DEF Await, Sides
  <2>4. a[i].call \notin AnalysisCalls \cup {"cleanup", "rm"}
    BY <1>2 DEF AnalysisCalls, OtherCalls, Checks
  <2> HIDE DEF later
  <2>5. \A side \in Sides : a[i] \notin Makes(side)
    BY <2>3 DEF Makes
  <2>6. Precedes(a[i], later)
    <3>1. a[i] # Await("archive", "none")
      BY <1>2, NotArchive DEF OtherCalls, Checks
    <3>2. QED BY <2>2, <2>3, <2>4, <2>5, <3>1 DEF Precedes, Unopened
  <2>7. QED BY <2>6 DEF later
<1>4. Ordered(a \o s) /\ Steps(a \o s) = Steps(a) \cup Steps(s)
  BY <1>2, <1>3, PrependAll
<1>5. Unopened(a \o s)
  BY <1>2, <1>4 DEF Unopened, Await, Sides
<1>6. QED BY <1>2, <1>4, <1>5 DEF a

\* The steps of materialize, whether or not the tree is the empty one
LEMMA MaterializeOrder ==
    ASSUME NEW side \in Sides, NEW empty \in BOOLEAN
    PROVE  LET m == Materialize(side, empty)
           IN  \E n \in Nat :
                 /\ m \in Seq(Step) /\ Len(m) = n /\ n > 3
                 /\ m[1] = Await("check", side) /\ m[2] = Await("mkdtemp", side)
                 /\ m[n] = Await("materialized", side)
                 /\ \A i \in 3 .. n - 1 : m[i].call \in Inside /\ m[i].side = side
                 /\ \A i, j \in 1 .. n : m[i] = Await("archive", side) =>
                       (m[j] = Await("archive", side) => j = i) /\ m[7] = Await("extract", side) /\ i < 7 /\ 7 <= n
                 /\ \A i, j \in 1 .. n : m[i] = Await("extract", side) =>
                       (m[j] = Await("archive", side) => j < i) /\ (m[j] = Await("extract", side) => j = i)
                 /\ ~empty => 7 < n /\ m[5] = Await("archive", side) /\ m[7] = Await("extract", side)
<1> DEFINE m == Materialize(side, empty)
           C == Inside \cup {"check", "mkdtemp", "materialized"}
<1>1. CASE empty
  <2> DEFINE calls == <<"check", "mkdtemp", "mkdir", "measure", "hash", "materialized">>
  <2>1. calls \in Seq(C) /\ Len(calls) = 6 /\ DOMAIN calls = 1 .. 6
    BY DEF Inside
  <2>2. m = Awaits(calls, side)
    <3>1. calls = <<"check", "mkdtemp", "mkdir">> \o <<>> \o <<"measure", "hash", "materialized">>
      OBVIOUS
    <3>2. QED BY <1>1, <3>1, Zenon DEF Materialize
  <2>3. /\ calls[1] = "check" /\ calls[2] = "mkdtemp" /\ calls[3] = "mkdir" /\ calls[4] = "measure"
        /\ calls[5] = "hash" /\ calls[6] = "materialized"
    OBVIOUS
  <2>4. C \in SUBSET AllCalls
    BY DEF AllCalls, OtherCalls, Checks
  <2> HIDE DEF calls, C
  <2>5. m \in Seq(Step) /\ DOMAIN m = 1 .. 6 /\ \A i \in 1 .. 6 : m[i] = Await(calls[i], side)
    BY <2>1, <2>2, <2>4, AwaitsFacts
  <2> HIDE DEF m
  <2>6. Len(m) = 6
    BY <2>5
  <2>7. \A i \in 1 .. 6 : m[i].call = calls[i] /\ m[i].side = side
    BY <2>5 DEF Await
  <2>8. \A i \in 1 .. 6 : calls[i] \notin {"archive", "extract"}
    BY <2>3
  <2>9. \A i \in 3 .. 5 : calls[i] \in Inside
    BY <2>3 DEF Inside
  <2>10. \A i \in 1 .. 6 : m[i] # Await("archive", side) /\ m[i] # Await("extract", side)
    BY <2>7, <2>8 DEF Await
  <2>11. m[1] = Await("check", side) /\ m[2] = Await("mkdtemp", side) /\ m[6] = Await("materialized", side)
    BY <2>3, <2>5
  <2>12. /\ \A i, j \in 1 .. 6 : m[i] = Await("archive", side) =>
              (m[j] = Await("archive", side) => j = i) /\ m[7] = Await("extract", side) /\ i < 7 /\ 7 <= 6
         /\ \A i, j \in 1 .. 6 : m[i] = Await("extract", side) =>
              (m[j] = Await("archive", side) => j < i) /\ (m[j] = Await("extract", side) => j = i)
    BY <2>10
  <2>13. \A i \in 3 .. 6 - 1 : m[i].call \in Inside /\ m[i].side = side
    BY <2>7, <2>9
  <2>14. 6 \in Nat /\ 6 > 3
    OBVIOUS
  <2>15. QED BY <1>1, <2>5, <2>6, <2>11, <2>12, <2>13, <2>14 DEF m
<1>2. CASE ~empty
  <2> DEFINE calls == <<"check", "mkdtemp", "mkdir", "git", "archive", "listArchive", "extract", "measure",
                        "hash", "materialized">>
  <2>1. calls \in Seq(C) /\ Len(calls) = 10 /\ DOMAIN calls = 1 .. 10
    BY DEF Inside
  <2>2. m = Awaits(calls, side)
    <3>1. calls = <<"check", "mkdtemp", "mkdir">> \o <<"git", "archive", "listArchive", "extract">>
                    \o <<"measure", "hash", "materialized">>
      OBVIOUS
    <3>2. QED BY <1>2, <3>1, Zenon DEF Materialize
  <2>3. /\ calls[1] = "check" /\ calls[2] = "mkdtemp" /\ calls[3] = "mkdir" /\ calls[4] = "git"
        /\ calls[5] = "archive" /\ calls[6] = "listArchive" /\ calls[7] = "extract" /\ calls[8] = "measure"
        /\ calls[9] = "hash" /\ calls[10] = "materialized"
    OBVIOUS
  <2>4. C \in SUBSET AllCalls
    BY DEF AllCalls, OtherCalls, Checks
  <2> HIDE DEF calls, C
  <2>5. m \in Seq(Step) /\ DOMAIN m = 1 .. 10 /\ \A i \in 1 .. 10 : m[i] = Await(calls[i], side)
    BY <2>1, <2>2, <2>4, AwaitsFacts
  <2> HIDE DEF m
  <2>6. Len(m) = 10
    BY <2>5
  <2>7. \A i \in 1 .. 10 : m[i].call = calls[i] /\ m[i].side = side
    BY <2>5 DEF Await
  <2>8. \A i \in 1 .. 10 : (calls[i] = "archive" <=> i = 5) /\ (calls[i] = "extract" <=> i = 7)
    BY <2>3
  <2>9. \A i \in 3 .. 9 : calls[i] \in Inside
    BY <2>3 DEF Inside
  <2>10. \A i \in 1 .. 10 : /\ m[i] = Await("archive", side) <=> i = 5
                            /\ m[i] = Await("extract", side) <=> i = 7
    BY <2>5, <2>7, <2>8 DEF Await
  <2>11. m[1] = Await("check", side) /\ m[2] = Await("mkdtemp", side) /\ m[10] = Await("materialized", side)
    BY <2>3, <2>5
  <2>12. QED BY <2>5, <2>6, <2>7, <2>9, <2>10, <2>11 DEF m
<1>3. QED BY <1>1, <1>2

\* The directory of a side is made, filled and handed over before all of a plan
\* that only uses it and cleans it up.
LEMMA MaterializeSteps ==
    ASSUME NEW s, Ordered(s), Unopened(s), NEW side \in Sides, NEW empty \in BOOLEAN,
           Steps(s) \cap (Makes(side) \cup {Await("materialized", side)}) = {},
           Await("cleanup", side) \in Steps(s)
    PROVE  LET m == Materialize(side, empty)
           IN  /\ Ordered(m \o s) /\ Unopened(m \o s)
               /\ Steps(m \o s) = Steps(m) \cup Steps(s)
               /\ \A x \in Steps(m) : x.side = side
               /\ m \in Seq(Step)
<1> DEFINE m == Materialize(side, empty)
<1>1. PICK n \in Nat :
        /\ m \in Seq(Step) /\ Len(m) = n /\ n > 3
        /\ m[1] = Await("check", side) /\ m[2] = Await("mkdtemp", side)
        /\ m[n] = Await("materialized", side)
        /\ \A i \in 3 .. n - 1 : m[i].call \in Inside /\ m[i].side = side
        /\ \A i, j \in 1 .. n : m[i] = Await("archive", side) =>
              (m[j] = Await("archive", side) => j = i) /\ m[7] = Await("extract", side) /\ i < 7 /\ 7 <= n
        /\ \A i, j \in 1 .. n : m[i] = Await("extract", side) =>
              (m[j] = Await("archive", side) => j < i) /\ (m[j] = Await("extract", side) => j = i)
  BY MaterializeOrder
<1> HIDE DEF m
<1>2. DOMAIN m = 1 .. n
  BY <1>1
<1>3. \A i \in 1 .. n : m[i] \in Step /\ m[i].side = side
  <2>1. \A i \in 1 .. n : i = 1 \/ i = 2 \/ i = n \/ i \in 3 .. n - 1
    BY <1>1
  <2>2. QED BY <1>1, <1>2, <2>1 DEF Await
<1>4. \A i \in 3 .. n - 1 : m[i] \in Makes(side) /\ m[i] # Await("mkdtemp", side)
  <2> SUFFICES ASSUME NEW i \in 3 .. n - 1
               PROVE  m[i] \in Makes(side) /\ m[i] # Await("mkdtemp", side)
    OBVIOUS
  <2>1. m[i] = Await(m[i].call, side)
    BY <1>1, <1>3 DEF Step, Await
  <2>2. m[i].call \in Inside /\ m[i].call # "mkdtemp"
    BY <1>1 DEF Inside
  <2>3. QED BY <2>1, <2>2 DEF Makes, Await
<1>5. ASSUME NEW i \in 1 .. n PROVE Precedes(m[i], Later(m, i) \cup Steps(s))
  <2> DEFINE later == Later(m, i) \cup Steps(s)
  <2>1. \A x \in Later(m, i) : x.side = side
    BY <1>2, <1>3 DEF Later
  <2>2. \A x \in Later(m, i) : x.call \in Inside \cup {"mkdtemp", "materialized"}
    <3>1. \A j \in 1 .. n : j > i => j = 2 \/ j = n \/ j \in 3 .. n - 1
      BY <1>1
    <3>2. QED BY <1>1, <1>2, <3>1 DEF Later, Await
  <2>3. i < n => Await("materialized", side) \in Later(m, i)
    BY <1>1, <1>2 DEF Later
  <2>4. i = 1 <=> Await("mkdtemp", side) \in Later(m, i)
    <3>1. i = 1 => Await("mkdtemp", side) \in Later(m, i)
      BY <1>1, <1>2 DEF Later
    <3>2. ASSUME i > 1, NEW j \in 1 .. n, j > i PROVE m[j] # Await("mkdtemp", side)
      <4>1. j = n \/ j \in 3 .. n - 1
        BY <1>1, <3>2
      <4>2. Await("materialized", side) # Await("mkdtemp", side)
        BY DEF Await
      <4>3. QED BY <1>1, <1>4, <4>1, <4>2
    <3>3. QED BY <1>2, <3>1, <3>2 DEF Later
  <2>5. m[i] = Await("materialized", side) => Later(m, i) = {}
    <3>1. CASE i = n
      BY <1>2, <3>1 DEF Later
    <3>2. CASE i < n
      <4>1. i = 1 \/ i = 2 \/ i \in 3 .. n - 1
        BY <1>1, <3>2
      <4>2. m[i].call # "materialized"
        BY <1>1, <4>1 DEF Await, Inside
      <4>3. QED BY <4>2 DEF Await
    <3>3. QED BY <1>1, <3>1, <3>2
  <2>6. m[i] \in Makes(side) => i > 1 /\ i < n
    <3>1. m[1] \notin Makes(side) /\ m[n] \notin Makes(side)
      BY <1>1 DEF Makes, Await, Inside
    <3>2. i = 1 \/ i = n \/ (i > 1 /\ i < n)
      BY <1>1
    <3>3. QED BY <3>1, <3>2
  <2>7. m[i].call \in Inside \cup {"check", "mkdtemp", "materialized"}
    <3>1. i = 1 \/ i = 2 \/ i = n \/ i \in 3 .. n - 1
      BY <1>1
    <3>2. QED BY <1>1, <3>1 DEF Await
  <2>8. m[i] = Await("archive", side) => Await("archive", side) \notin later /\ Await("extract", side) \in later
    <3> SUFFICES ASSUME m[i] = Await("archive", side)
                 PROVE  Await("archive", side) \notin later /\ Await("extract", side) \in later
      OBVIOUS
    <3>1. 7 \in 1 .. n /\ 7 > i /\ m[7] = Await("extract", side)
      BY <1>1
    <3>2. Await("archive", side) \notin Later(m, i)
      BY <1>1, <1>2 DEF Later
    <3>3. Await("archive", side) \in Makes(side)
      BY DEF Makes, Inside
    <3>4. QED BY <1>2, <3>1, <3>2, <3>3 DEF Later
  <2>9. m[i] = Await("extract", side) => Await("archive", side) \notin later /\ Await("extract", side) \notin later
    <3>1. m[i] = Await("extract", side) => \A j \in 1 .. n : j > i =>
            m[j] # Await("archive", side) /\ m[j] # Await("extract", side)
      BY <1>1
    <3>2. Await("archive", side) \in Makes(side) /\ Await("extract", side) \in Makes(side)
      BY DEF Makes, Inside
    <3>3. QED BY <1>2, <3>1, <3>2 DEF Later
  <2>10. Await("cleanup", side) \in later
    OBVIOUS
  <2>11. ASSUME NEW other \in Sides
         PROVE  /\ Await("rm", other) \notin later
                /\ other # side => m[i] \notin Makes(other)
                /\ other # side => \A call : m[i] # Await(call, other)
                /\ other # side => \A call : Await(call, other) \in later <=> Await(call, other) \in Steps(s)
    <3>1. Await("rm", other) \notin Later(m, i)
      BY <2>2 DEF Await, Inside
    <3>2. other # side => \A call : m[i] # Await(call, other)
      BY <1>3 DEF Await
    <3>3. other # side => \A call : Await(call, other) \notin Later(m, i)
      BY <2>1 DEF Await
    <3>4. QED BY <3>1, <3>2, <3>3 DEF Unopened, Makes
  <2>12. /\ m[i] \in Makes(side) => Await("mkdtemp", side) \notin later /\ Await("materialized", side) \in later
         /\ m[i] \notin Makes(side) /\ Await("materialized", side) \in later => Await("mkdtemp", side) \in later
         /\ m[i] = Await("materialized", side) => later \cap (Makes(side) \cup {Await("materialized", side)}) = {}
    <3>1. Await("mkdtemp", side) \in Makes(side)
      BY DEF Makes
    <3>2. m[i] \notin Makes(side) => i = 1 \/ i = n
      <4>1. i = 1 \/ i = 2 \/ i = n \/ i \in 3 .. n - 1
        BY <1>1
      <4>2. QED BY <1>1, <1>4, <3>1, <4>1
    <3>3. QED BY <1>1, <2>3, <2>4, <2>5, <2>6, <3>1, <3>2
  <2>13. m[i].call \notin AnalysisCalls \cup {"cleanup", "rm"}
    BY <2>7 DEF AnalysisCalls, Inside
  <2>14. \A call \in {"cleanup", "rm"} : \A other \in Sides : m[i] # Await(call, other)
    BY <2>13 DEF Await
  <2> HIDE DEF later
  <2>15. ASSUME NEW other \in Sides, other # side
         PROVE  Await("materialized", other) \in later => Await("mkdtemp", other) \in later
    BY <2>11, <2>15 DEF Unopened
  <2>16. Precedes(m[i], later)
    <3>1. m[i] # Await("archive", "none")
      BY <1>3, NotArchive DEF Sides
    <3>2. QED BY <2>8, <2>9, <2>10, <2>11, <2>12, <2>13, <2>14, <2>15, <3>1 DEF Precedes
  <2>17. QED BY <2>16 DEF later
<1>6. Ordered(m \o s) /\ Steps(m \o s) = Steps(m) \cup Steps(s)
  BY <1>1, <1>2, <1>5, PrependAll
<1>7. \A x \in Steps(m) : x.side = side
  BY <1>2, <1>3 DEF Steps
<1>8. Unopened(m \o s)
  <2>1. Await("mkdtemp", side) \in Steps(m)
    BY <1>1, <1>2 DEF Steps
  <2>2. ASSUME NEW other \in Sides PROVE Await("rm", other) \notin Steps(m)
    <3>1. \A i \in 1 .. n : m[i].call # "rm"
      <4>1. \A i \in 1 .. n : i = 1 \/ i = 2 \/ i = n \/ i \in 3 .. n - 1
        BY <1>1
      <4>2. m[1].call # "rm" /\ m[2].call # "rm" /\ m[n].call # "rm"
        BY <1>1 DEF Await
      <4>3. \A i \in 3 .. n - 1 : m[i].call # "rm"
        BY <1>1 DEF Inside
      <4>4. QED BY <4>1, <4>2, <4>3
    <3>2. QED BY <1>2, <3>1 DEF Steps, Await
  <2>3. ASSUME NEW other \in Sides, other # side PROVE Await("materialized", other) \notin Steps(m)
    BY <1>7, <2>3 DEF Await
  <2>4. QED BY <1>6, <2>1, <2>2, <2>3 DEF Unopened
<1>9. QED BY <1>1, <1>6, <1>7, <1>8 DEF m

LEMMA Pair ==
    ASSUME NEW S, NEW x \in S, NEW y \in S
    PROVE  <<x, y>> = <<x>> \o <<y>>
<1> DEFINE s == <<x>> \o <<y>>
           t == <<x, y>>
<1>1. s \in Seq(S) /\ Len(s) = 2 /\ s[1] = x /\ s[2] = y
  <2>1. <<x>> \in Seq(S) /\ <<y>> \in Seq(S)
    OBVIOUS
  <2>2. QED BY <2>1, ConcatProperties
<1>2. t \in Seq(S) /\ Len(t) = 2 /\ t[1] = x /\ t[2] = y
  OBVIOUS
<1> HIDE DEF s, t
<1>3. \A i \in 1 .. 2 : s[i] = t[i]
  BY <1>1, <1>2
<1>4. s = t
  BY <1>1, <1>2, <1>3, SeqEqual
<1>5. QED BY <1>4 DEF s, t

\* The end of a plan: the analyses are compared, and both trees cleaned up.
LEMMA CleanupSteps ==
    LET end == <<Await("compose", "none")>> \o Cleanup
    IN  /\ Ordered(end) /\ Unopened(end)
        /\ \A side \in Sides : Await("cleanup", side) \in Steps(end)
        /\ \A x \in Steps(end) : x.call \in {"compose", "cleanup"}
<1> DEFINE after == Await("cleanup", "after")
           before == Await("cleanup", "before")
           compose == Await("compose", "none")
           end == <<compose>> \o Cleanup
<1>1. after \in Step /\ before \in Step /\ compose \in Step
  BY DEF Step, Await, AllCalls, OtherCalls, Checks, Sides
<1>2. /\ after.call = "cleanup" /\ before.call = "cleanup" /\ compose.call = "compose"
      /\ after # before
  BY DEF Await
<1>3. /\ \A side \in Sides : after \notin Makes(side) /\ before \notin Makes(side) /\ compose \notin Makes(side)
      /\ \A side \in Sides : \A call \in {"mkdtemp", "materialized", "rm", "archive", "extract"} :
            Await(call, side) \notin {after, before, compose}
      /\ \A side \in Sides : Await("cleanup", side) # compose
      /\ \A side \in Sides : Await("cleanup", side) = after <=> side = "after"
      /\ \A side \in Sides : Await("cleanup", side) = before <=> side = "before"
  BY DEF Makes, Await, Inside, Sides
<1>4. AnalysisCalls \cap {"cleanup", "compose"} = {}
  BY DEF AnalysisCalls
<1>5. Cleanup = <<after, before>>
  BY DEF Cleanup
<1> HIDE DEF after, before, compose
<1> /\ after # Await("archive", "none") /\ before # Await("archive", "none")
    /\ compose # Await("archive", "none")
  BY <1>2, NotArchive
<1>6. Precedes(before, {})
  BY <1>2, <1>3, <1>4 DEF Precedes
<1>7. Ordered(<<before>> \o <<>>) /\ Steps(<<before>> \o <<>>) = {before}
  <2>1. Precedes(before, Steps(<<>>)) /\ {before} \cup Steps(<<>>) = {before}
    BY <1>6, EmptyOrdered
  <2>2. Ordered(<<before>> \o <<>>) /\ Steps(<<before>> \o <<>>) = {before} \cup Steps(<<>>)
    BY <1>1, <2>1, EmptyOrdered, Prepend, Zenon
  <2>3. QED BY <2>1, <2>2, Zenon
<1>8. Precedes(after, {before})
  BY <1>2, <1>3, <1>4 DEF Precedes
<1>9. Ordered(Cleanup) /\ Steps(Cleanup) = {after, before}
  <2> DEFINE rest == <<before>> \o <<>>
  <2>1. Cleanup = <<after>> \o rest
    <3>1. rest = <<before>>
      BY <1>1, ConcatEmptySeq
    <3>2. <<after, before>> = <<after>> \o <<before>>
      BY <1>1, Pair
    <3>3. QED BY <1>5, <3>1, <3>2, Zenon
  <2> HIDE DEF rest
  <2>2. Ordered(rest) /\ Steps(rest) = {before}
    BY <1>7 DEF rest
  <2>3. Precedes(after, Steps(rest)) /\ {after} \cup Steps(rest) = {after, before}
    BY <1>8, <2>2
  <2>4. QED BY <1>1, <2>1, <2>2, <2>3, Prepend, Zenon
<1>10. Precedes(compose, {after, before})
  BY <1>2, <1>3, <1>4 DEF Precedes
<1>11. Ordered(end) /\ Steps(end) = {compose, after, before}
  BY <1>1, <1>9, <1>10, Prepend
<1>12. Unopened(end)
  BY <1>3, <1>11 DEF Unopened
<1>13. \A side \in Sides : Await("cleanup", side) \in Steps(end)
  BY <1>3, <1>11 DEF Sides
<1>14. \A x \in Steps(end) : x.call \in {"compose", "cleanup"}
  BY <1>2, <1>11
<1>15. QED BY <1>11, <1>12, <1>13, <1>14 DEF end, compose

\* The analysis of a side comes before a plan that only cleans up.
LEMMA AnalyzeSteps ==
    ASSUME NEW s, Ordered(s), Unopened(s), NEW side \in Sides,
           \A other \in Sides : Await("cleanup", other) \in Steps(s),
           \A x \in Steps(s) : x.call \in AnalysisCalls \cup {"check", "compose", "cleanup"}
    PROVE  LET a == AnalyzeHistoricalTree(side)
           IN  /\ a \in Seq(Step)
               /\ Ordered(a \o s) /\ Unopened(a \o s)
               /\ Steps(a \o s) = Steps(a) \cup Steps(s)
               /\ \A x \in Steps(a) : x.call \in AnalysisCalls \cup {"check"}
<1> DEFINE calls == <<"analyzeRepository", "synthesize", "computeIntelligence", "check">>
           C == AnalysisCalls \cup {"check"}
           a == AnalyzeHistoricalTree(side)
<1>1. calls \in Seq(C) /\ C \in SUBSET AllCalls
  BY DEF AnalysisCalls, AllCalls, OtherCalls, Checks
<1>2. a = Awaits(calls, side)
  BY DEF AnalyzeHistoricalTree
<1> HIDE DEF calls, C, a
<1>3. /\ a \in Seq(Step)
      /\ \A i \in DOMAIN a : a[i].call \in C
      /\ \A x \in Steps(a) : x.call \in C
  <2>1. side \in Sides \cup {"none"}
    OBVIOUS
  <2>2. /\ a \in Seq(Step) /\ DOMAIN a = DOMAIN calls
        /\ \A i \in DOMAIN calls : a[i] = Await(calls[i], side) /\ calls[i] \in C
        /\ \A x \in Steps(a) : x.side = side /\ x.call \in C
    <3>1. /\ Awaits(calls, side) \in Seq(Step) /\ DOMAIN Awaits(calls, side) = DOMAIN calls
          /\ \A i \in DOMAIN calls : Awaits(calls, side)[i] = Await(calls[i], side) /\ calls[i] \in C
          /\ \A x \in Steps(Awaits(calls, side)) : x.side = side /\ x.call \in C
      BY <1>1, <2>1, AwaitsFacts, Zenon
    <3>2. QED BY <1>2, <3>1, Zenon
  <2>3. QED BY <2>2 DEF Await
<1>4. ASSUME NEW i \in DOMAIN a PROVE Precedes(a[i], Later(a, i) \cup Steps(s))
  <2> DEFINE later == Later(a, i) \cup Steps(s)
  <2>1. \A x \in later : x.call \in AnalysisCalls \cup {"check", "compose", "cleanup"}
    BY <1>3 DEF Later, C
  <2>2. \A other \in Sides : Await("cleanup", other) \in later
    OBVIOUS
  <2> HIDE DEF later
  <2>3. \A other \in Sides : \A call \in Inside \cup {"mkdtemp", "materialized", "rm"} :
          Await(call, other) \notin later
    BY <2>1 DEF Await, Inside, AnalysisCalls
  <2>4. \A other \in Sides : later \cap (Makes(other) \cup {Await("materialized", other)}) = {}
    BY <2>3 DEF Makes
  <2>5. \A other \in Sides : \A call \in Inside \cup {"mkdtemp", "materialized", "rm", "cleanup"} :
          Await(call, other) # a[i]
    BY <1>3 DEF Await, Inside, AnalysisCalls, C
  <2>6. \A other \in Sides : a[i] \notin Makes(other)
    BY <2>5 DEF Makes
  <2>7. a[i].call \notin {"cleanup", "rm"} /\ {"archive", "extract"} \subseteq Inside
    BY <1>3 DEF C, AnalysisCalls, Inside
  <2>8. Precedes(a[i], later)
    <3>1. a[i] # Await("archive", "none")
      BY <1>3, NotArchive DEF C, AnalysisCalls
    <3>2. QED BY <2>2, <2>3, <2>4, <2>5, <2>6, <2>7, <3>1 DEF Precedes
  <2>9. QED BY <2>8 DEF later
<1>5. Ordered(a \o s) /\ Steps(a \o s) = Steps(a) \cup Steps(s)
  BY <1>3, <1>4, PrependAll
<1>6. Unopened(a \o s)
  BY <1>3, <1>5 DEF Unopened, Await, C, AnalysisCalls
<1>7. QED BY <1>3, <1>5, <1>6 DEF a, C

LEMMA NeutralCalls ==
    /\ \A r \in Request : MetadataOf(r) \in Seq(OtherCalls \cup {"git"})
    /\ \A r \in Request : <<"getHistory">> \o ParentMetadata(r) \in Seq(OtherCalls \cup {"git"})
<1> DEFINE C == OtherCalls \cup {"git"}
<1>1. /\ {"realpath", "getHistory", "git", "check", "selectParent", "selectGrandparent", "mergeBase"} \subseteq C
      /\ <<>> \in Seq(C)
  BY DEF OtherCalls, Checks
<1> HIDE DEF C
<1>2. ResolveGitRoot \in Seq(C) /\ PullRequestTreeRange \in Seq(C)
  <2>1. ResolveGitRoot \in Seq(C)
    BY <1>1 DEF ResolveGitRoot
  <2>2. <<"git", "git", "git", "mergeBase", "git", "git", "git">> \in Seq(C)
    BY <1>1
  <2>3. QED BY <2>1, <2>2, ConcatProperties, Zenon DEF PullRequestTreeRange
<1>3. ASSUME NEW parents, NEW select \in {"selectParent", "selectGrandparent"}
      PROVE  CommitMetadata(parents, select) \in Seq(C)
  <2>1. select \in C
    BY <1>1
  <2>2. <<"git", select>> \in Seq(C) /\ <<"git">> \in Seq(C) /\ <<"git", "git">> \in Seq(C)
    BY <1>1, <2>1
  <2>3. ResolveGitRoot \o <<"git", select>> \in Seq(C)
    BY <1>2, <2>2, ConcatProperties, Zenon
  <2>4. (IF parents = 0 THEN <<>> ELSE <<"git">>) \o <<"git", "git">> \in Seq(C)
    BY <1>1, <2>2, ConcatProperties
  <2>5. QED BY <2>3, <2>4, <2>2, <1>1, ConcatProperties DEF CommitMetadata
<1>4. \A r \in Request : MetadataOf(r) \in Seq(C)
  BY <1>2, <1>3 DEF MetadataOf
<1>5. \A r \in Request : ParentMetadata(r) \in Seq(C)
  BY <1>1, <1>3 DEF ParentMetadata
<1>6. <<"getHistory">> \in Seq(C)
  BY <1>1
<1>7. \A r \in Request : <<"getHistory">> \o ParentMetadata(r) \in Seq(C)
  BY <1>5, <1>6, ConcatProperties, Zenon
<1>8. QED BY <1>4, <1>7 DEF C

\* Concatenation, as a symbol of which only these two facts are used
Join(x, y) == x \o y

LEMMA JoinFacts ==
    ASSUME NEW S, NEW x \in Seq(S), NEW y \in Seq(S), NEW z \in Seq(S)
    PROVE  Join(x, y) \in Seq(S) /\ Join(Join(x, y), z) = Join(x, Join(y, z))
<1>1. (x \o y) \o z = x \o (y \o z)
  BY ConcatAssociative
<1>2. x \o y \in Seq(S)
  BY ConcatProperties
<1>3. QED BY <1>1, <1>2, Zenon DEF Join

\* A request starts with a plan that makes, fills and hands over both directories,
\* of which only an empty tree has nothing to archive.
LEMMA PlanOrdered ==
    ASSUME NEW r \in Request
    PROVE  /\ Ordered(PlanOf(r)) /\ Unopened(PlanOf(r))
           /\ \A side \in Sides :
                /\ Await("mkdtemp", side) \in Steps(PlanOf(r))
                /\ ~(side = "before" /\ RootCommit(r)) => Await("extract", side) \in Steps(PlanOf(r))
                                                        /\ Await("archive", side) \in Steps(PlanOf(r))
           /\ PlanOf(r) # <<>>
<1> DEFINE C == OtherCalls \cup {"git"}
           metadata == Awaits(MetadataOf(r), "none")
           before == Materialize("before", RootCommit(r))
           after == Materialize("after", FALSE)
           between == Awaits(<<"getHistory">> \o ParentMetadata(r), "none")
           first == AnalyzeHistoricalTree("before")
           second == AnalyzeHistoricalTree("after")
           compose == <<Await("compose", "none")>>
           s7 == compose \o Cleanup
           s6 == second \o s7
           s5 == first \o s6
           s4 == between \o s5
           s3 == after \o s4
           s2 == before \o s3
           s1 == metadata \o s2
<1>1. /\ Ordered(s7) /\ Unopened(s7)
      /\ \A side \in Sides : Await("cleanup", side) \in Steps(s7)
      /\ \A x \in Steps(s7) : x.call \in {"compose", "cleanup"}
  BY CleanupSteps, Zenon
<1>2. "before" \in Sides /\ "after" \in Sides /\ RootCommit(r) \in BOOLEAN
  BY DEF Sides, RootCommit
<1> HIDE DEF s7
<1>3. /\ second \in Seq(Step) /\ Ordered(s6) /\ Unopened(s6)
      /\ Steps(s6) = Steps(second) \cup Steps(s7)
      /\ \A x \in Steps(second) : x.call \in AnalysisCalls \cup {"check"}
  <2>1. \A x \in Steps(s7) : x.call \in AnalysisCalls \cup {"check", "compose", "cleanup"}
    BY <1>1
  <2>2. QED BY <1>1, <1>2, <2>1, AnalyzeSteps, Zenon
<1> HIDE DEF s6
<1>4. /\ first \in Seq(Step) /\ Ordered(s5) /\ Unopened(s5)
      /\ Steps(s5) = Steps(first) \cup Steps(s6)
      /\ \A x \in Steps(first) : x.call \in AnalysisCalls \cup {"check"}
  <2>1. /\ \A x \in Steps(s6) : x.call \in AnalysisCalls \cup {"check", "compose", "cleanup"}
        /\ \A other \in Sides : Await("cleanup", other) \in Steps(s6)
    BY <1>1, <1>3
  <2>2. QED BY <1>2, <1>3, <2>1, AnalyzeSteps, Zenon
<1> HIDE DEF s5
<1>5. /\ MetadataOf(r) \in Seq(C)
      /\ <<"getHistory">> \o ParentMetadata(r) \in Seq(C)
      /\ C \in SUBSET AllCalls /\ "none" \in Sides \cup {"none"}
  BY NeutralCalls DEF AllCalls, Inside
<1>6. /\ Ordered(s4) /\ Unopened(s4) /\ Steps(s4) = Steps(between) \cup Steps(s5)
      /\ \A x \in Steps(between) : x.side = "none" /\ x.call \in C
  BY <1>4, <1>5, NeutralSteps, Zenon
<1>7. between \in Seq(Step) /\ metadata \in Seq(Step)
  <2> HIDE DEF C
  <2>1. QED BY <1>5, AwaitsFacts, Zenon
<1>8. /\ \A x \in Steps(s4) : \/ x.side = "none"
                              \/ x.call \in AnalysisCalls \cup {"check", "compose", "cleanup"}
      /\ \A side \in Sides : Await("cleanup", side) \in Steps(s4)
  BY <1>1, <1>3, <1>4, <1>6
<1> HIDE DEF s4, between
<1>9. \A side \in Sides : Steps(s4) \cap (Makes(side) \cup {Await("materialized", side)}) = {}
  <2>1. \A side \in Sides : \A call \in Inside \cup {"mkdtemp", "materialized"} :
          Await(call, side) \notin Steps(s4)
    BY <1>8 DEF Await, Inside, AnalysisCalls, Sides
  <2>2. QED BY <2>1 DEF Makes
<1>10. /\ after \in Seq(Step) /\ Ordered(s3) /\ Unopened(s3)
       /\ Steps(s3) = Steps(after) \cup Steps(s4)
       /\ \A x \in Steps(after) : x.side = "after"
  BY <1>2, <1>6, <1>8, <1>9, MaterializeSteps, Zenon
<1> HIDE DEF s3
<1>11. /\ Steps(s3) \cap (Makes("before") \cup {Await("materialized", "before")}) = {}
       /\ Await("cleanup", "before") \in Steps(s3)
  <2>1. \A call : Await(call, "before") \notin Steps(after)
    BY <1>10 DEF Await
  <2>2. Steps(s4) \cap (Makes("before") \cup {Await("materialized", "before")}) = {}
    BY <1>2, <1>9
  <2>3. \A x \in Makes("before") : x \notin Steps(after)
    BY <2>1 DEF Makes
  <2>4. Await("cleanup", "before") \in Steps(s4)
    BY <1>2, <1>8
  <2> HIDE DEF after
  <2>5. QED BY <1>10, <2>1, <2>2, <2>3, <2>4
<1>12. /\ before \in Seq(Step) /\ Ordered(s2) /\ Unopened(s2)
       /\ Steps(s2) = Steps(before) \cup Steps(s3)
  BY <1>2, <1>10, <1>11, MaterializeSteps, Zenon
<1> HIDE DEF s2
<1>13. /\ Ordered(s1) /\ Unopened(s1) /\ Steps(s1) = Steps(metadata) \cup Steps(s2)
  BY <1>5, <1>12, NeutralSteps, Zenon
<1>14. PlanOf(r) = s1
  <2>1. compose \in Seq(Step) /\ Cleanup \in Seq(Step)
    BY DEF Cleanup, Step, Await, AllCalls, OtherCalls, Checks, Sides
  <2>2. PlanOf(r) = metadata \o before \o after \o between \o (first \o second) \o compose \o Cleanup
    BY DEF PlanOf, Analyze, between
  <2> HIDE DEF metadata, before, after, first, second, compose
  <2>3. s1 = metadata \o (before \o (after \o (between \o (first \o (second \o (compose \o Cleanup))))))
    BY Zenon DEF s2, s3, s4, s5, s6, s7
  <2>4. metadata \o before \o after \o between \o (first \o second) \o compose \o Cleanup
          = metadata \o (before \o (after \o (between \o (first \o (second \o (compose \o Cleanup))))))
    <3> DEFINE Q == Seq(Step)
               tail == Join(compose, Cleanup)
               rest == Join(between, Join(first, Join(second, tail)))
               start == Join(Join(metadata, before), after)
    <3>1. \A x, y \in Q : Join(x, y) \in Q
      <4>1. ASSUME NEW x \in Q, NEW y \in Q PROVE Join(x, y) \in Q
        BY JoinFacts
      <4>2. QED BY <4>1
    <3>2. \A x, y, z \in Q : Join(Join(x, y), z) = Join(x, Join(y, z))
      <4>1. ASSUME NEW x \in Q, NEW y \in Q, NEW z \in Q PROVE Join(Join(x, y), z) = Join(x, Join(y, z))
        BY JoinFacts
      <4>2. QED BY <4>1
    <3>3. /\ metadata \in Q /\ before \in Q /\ after \in Q /\ between \in Q
          /\ first \in Q /\ second \in Q /\ compose \in Q /\ Cleanup \in Q
      BY <1>3, <1>4, <1>7, <1>10, <1>12, <2>1
    <3> HIDE DEF Q
    <3>4. /\ tail \in Q /\ Join(second, tail) \in Q /\ Join(first, Join(second, tail)) \in Q /\ rest \in Q
          /\ Join(after, rest) \in Q /\ Join(metadata, before) \in Q /\ start \in Q
          /\ Join(start, between) \in Q /\ Join(first, second) \in Q
          /\ Join(Join(start, between), Join(first, second)) \in Q
      BY <3>1, <3>3
    <3>5. Join(Join(Join(Join(start, between), Join(first, second)), compose), Cleanup)
            = Join(metadata, Join(before, Join(after, rest)))
      BY <3>2, <3>3, <3>4
    <3>6. QED BY <3>5 DEF Join
  <2> HIDE DEF s1
  <2>5. QED BY <2>2, <2>3, <2>4, Zenon
<1>15. /\ Await("mkdtemp", "before") \in Steps(before) /\ Await("mkdtemp", "after") \in Steps(after)
  <2>1. \A side \in Sides, empty \in BOOLEAN : Await("mkdtemp", side) \in Steps(Materialize(side, empty))
    <3> SUFFICES ASSUME NEW side \in Sides, NEW empty \in BOOLEAN
                 PROVE  Await("mkdtemp", side) \in Steps(Materialize(side, empty))
      OBVIOUS
    <3> DEFINE m == Materialize(side, empty)
    <3>1. PICK n \in Nat : m \in Seq(Step) /\ Len(m) = n /\ 3 < n /\ m[2] = Await("mkdtemp", side)
      BY MaterializeOrder
    <3> HIDE DEF m
    <3>2. 2 \in DOMAIN m
      BY <3>1
    <3>3. QED BY <3>1, <3>2 DEF Steps, m
  <2>2. QED BY <1>2, <2>1
<1>16. ASSUME NEW side \in Sides, ~(side = "before" /\ RootCommit(r))
       PROVE  Await("extract", side) \in Steps(s1) /\ Await("archive", side) \in Steps(s1)
  <2>1. \A x \in Sides : /\ Await("extract", x) \in Steps(Materialize(x, FALSE))
                         /\ Await("archive", x) \in Steps(Materialize(x, FALSE))
    <3> SUFFICES ASSUME NEW x \in Sides
                 PROVE  /\ Await("extract", x) \in Steps(Materialize(x, FALSE))
                        /\ Await("archive", x) \in Steps(Materialize(x, FALSE))
      OBVIOUS
    <3> DEFINE m == Materialize(x, FALSE)
    <3>1. PICK n \in Nat : /\ m \in Seq(Step) /\ Len(m) = n /\ 7 < n
                          /\ m[5] = Await("archive", x) /\ m[7] = Await("extract", x)
      BY MaterializeOrder
    <3> HIDE DEF m
    <3>2. 5 \in DOMAIN m /\ 7 \in DOMAIN m
      BY <3>1
    <3>3. QED BY <3>1, <3>2 DEF Steps, m
  <2>2. CASE side = "after"
    BY <1>10, <1>12, <1>13, <2>1, <2>2
  <2>3. CASE side = "before" /\ ~RootCommit(r)
    <3>1. RootCommit(r) = FALSE
      BY <1>2, <2>3
    <3>2. before = Materialize("before", FALSE)
      BY <3>1
    <3>3. QED BY <1>12, <1>13, <2>1, <2>3, <3>2
  <2>4. QED BY <1>16, <2>2, <2>3 DEF Sides
<1>17. \A side \in Sides : Await("mkdtemp", side) \in Steps(s1)
  BY <1>10, <1>12, <1>13, <1>15 DEF Sides
<1>18. s1 # <<>>
  BY <1>2, <1>17, EmptyOrdered
<1> HIDE DEF s1
<1>19. QED BY <1>13, <1>14, <1>16, <1>17, <1>18

-----------------------------------------------------------------------------
(* The inductive invariant *)

RequestInv == request \in [of : Request \cup {NoRequest}, outcome : Outcome]

\* The command is the one the plan awaits; an archive's is of the tree.
CommandPlaceInv ==
    command.kind # "none" =>
      /\ plan # <<>> /\ Call \in Commands
      /\ Call = "archive" /\ Side \in Sides =>
            command.kind = "archive" /\ command.size = trees[Side].size

\* Where the plan stands tells of each directory whether it is there and whose it is.
DirectoryInv(steps, tree, side) ==
    /\ Await("mkdtemp", side) \in steps => tree.dir = "none"
    /\ Await("materialized", side) \in steps /\ Await("mkdtemp", side) \notin steps => tree.dir = "private"
    /\ Await("cleanup", side) \in steps /\ Await("materialized", side) \notin steps => tree.dir = "handed"
    /\ Await("rm", side) \in steps => tree.dir = "private"
    /\ Await("cleanup", side) \notin steps /\ Await("materialized", side) \notin steps
         /\ Await("rm", side) \notin steps => tree.dir \in {"none", "removed", "left"}

\* As long as the trees are to be analysed, what was archived and extracted of them
\* is all of them.
WholeInv(steps, tree, side) ==
    (\E step \in steps : step.call \in AnalysisCalls) =>
      /\ Await("extract", side) \notin steps => tree.content = tree.size
      /\ Await("extract", side) \in steps /\ Await("archive", side) \notin steps =>
           tree.archived = tree.size

Inv ==
    /\ CommandInv /\ RequestInv
    /\ trees \in [Sides -> Tree]
    /\ Ordered(plan)
    /\ CommandPlaceInv
    /\ \A side \in Sides : /\ DirectoryInv(Steps(plan), trees[side], side)
                           /\ WholeInv(Steps(plan), trees[side], side)

LEMMA InitInv == Init => Inv
<1> SUFFICES ASSUME Init PROVE Inv
  OBVIOUS
<1>1. command = NoCommand /\ command \in Command /\ command.kind = "none" /\ command.outcome = "ok"
  BY NoCommandInv DEF Init
<1>2. CommandInv
  <2>1. /\ command.file = "none" /\ command.childClosed = FALSE /\ command.timer = FALSE
        /\ command.listening = FALSE /\ command.child = "none"
    BY <1>1 DEF NoCommand
  <2>2. CommandIsReleased
    BY <2>1 DEF CommandIsReleased
  <2>3. QED BY <1>1, <2>1, <2>2 DEF CommandInv, Archiving, Init
<1>3. RequestInv
  BY DEF Init, RequestInv, Outcome
<1>4. trees \in [Sides -> Tree] /\ \A side \in Sides : trees[side].dir = "none"
  BY CommandAssumption DEF Init, NoTree, Tree
<1>5. Ordered(plan) /\ Steps(plan) = {}
  BY EmptyOrdered DEF Init
<1>6. \A side \in Sides : /\ DirectoryInv(Steps(plan), trees[side], side)
                         /\ WholeInv(Steps(plan), trees[side], side)
  BY <1>4, <1>5 DEF DirectoryInv, WholeInv
<1>7. QED BY <1>1, <1>2, <1>3, <1>4, <1>5, <1>6 DEF Inv, CommandPlaceInv

\* The awaited step is done, with its effect on its directory.
LEMMA TailInv ==
    ASSUME Inv, plan # <<>>, plan' = Tail(plan), trees' \in [Sides -> Tree],
           \A side \in Sides :
             /\ trees'[side].size = trees[side].size
             /\ plan[1] = Await("mkdtemp", side) => trees'[side].dir = "private"
             /\ plan[1] = Await("materialized", side) => trees'[side].dir = "handed"
             /\ plan[1] \in {Await("rm", side), Await("cleanup", side)} =>
                   trees'[side].dir \in {"removed", "left"}
             /\ plan[1] \notin {Await(call, side) : call \in {"mkdtemp", "materialized", "rm", "cleanup"}} =>
                   trees'[side].dir = trees[side].dir
             /\ IF plan[1] = Await("archive", side)
                  THEN trees'[side].archived = trees[side].size
                  ELSE trees'[side].archived = trees[side].archived
             /\ IF plan[1] = Await("extract", side)
                  THEN trees'[side].content = trees[side].archived
                  ELSE trees'[side].content = trees[side].content
    PROVE  /\ Ordered(plan')
           /\ \A side \in Sides : /\ DirectoryInv(Steps(plan'), trees'[side], side)
                                  /\ WholeInv(Steps(plan'), trees'[side], side)
<1> DEFINE step == plan[1]
           later == Steps(plan')
<1>1. /\ Ordered(plan') /\ Precedes(step, later) /\ Steps(plan) = {step} \cup later
  BY Advance DEF Inv
<1> HIDE DEF step, later
<1> SUFFICES ASSUME NEW side \in Sides
             PROVE  DirectoryInv(later, trees'[side], side) /\ WholeInv(later, trees'[side], side)
  BY <1>1 DEF later
<1> DEFINE X(call) == Await(call, side)
<1>2. /\ X("rm") \notin later
      /\ step \in Makes(side) => X("mkdtemp") \notin later /\ X("materialized") \in later
      /\ step \in {X("materialized"), X("cleanup"), X("rm")} =>
           later \cap (Makes(side) \cup {X("materialized")}) = {}
      /\ step = X("materialized") => X("cleanup") \in later
      /\ step \in {X("cleanup"), X("rm")} => X("cleanup") \notin later
      /\ step = X("archive") => X("archive") \notin later /\ X("extract") \in later
      /\ step = X("extract") => X("archive") \notin later /\ X("extract") \notin later
  BY <1>1 DEF Precedes
<1>3. X("mkdtemp") \in Makes(side)
  BY DEF Makes
<1>4. /\ DirectoryInv({step} \cup later, trees[side], side)
      /\ WholeInv({step} \cup later, trees[side], side)
  BY <1>1 DEF Inv
<1>5. \A c, d \in {"mkdtemp", "materialized", "cleanup", "rm", "archive", "extract"} : X(c) = X(d) => c = d
  BY DEF Await
<1>6. DirectoryInv(later, trees'[side], side)
  <2>1. CASE step = X("mkdtemp")
    <3>1. X("mkdtemp") \notin later /\ X("materialized") \in later /\ X("rm") \notin later
      BY <1>2, <1>3, <2>1
    <3>2. trees'[side].dir = "private"
      BY <2>1 DEF step
    <3>3. QED BY <3>1, <3>2 DEF DirectoryInv
  <2>2. CASE step = X("materialized")
    <3>1. X("mkdtemp") \notin later /\ X("materialized") \notin later /\ X("rm") \notin later
          /\ X("cleanup") \in later
      BY <1>2, <1>3, <2>2
    <3>2. trees'[side].dir = "handed"
      BY <2>2 DEF step
    <3>3. QED BY <3>1, <3>2 DEF DirectoryInv
  <2>3. CASE step \in {X("rm"), X("cleanup")}
    <3>1. X("mkdtemp") \notin later /\ X("materialized") \notin later /\ X("rm") \notin later
          /\ X("cleanup") \notin later
      BY <1>2, <1>3, <2>3
    <3>2. trees'[side].dir \in {"removed", "left"}
      BY <2>3 DEF step
    <3>3. QED BY <3>1, <3>2 DEF DirectoryInv
  <2>4. CASE step \notin {X(call) : call \in {"mkdtemp", "materialized", "rm", "cleanup"}}
    <3>1. trees'[side].dir = trees[side].dir
      BY <2>4 DEF step
    <3>2. \A call \in {"mkdtemp", "materialized", "rm", "cleanup"} :
            X(call) \in {step} \cup later <=> X(call) \in later
      BY <2>4
    <3>3. QED BY <1>4, <3>1, <3>2 DEF DirectoryInv
  <2>5. QED BY <2>1, <2>2, <2>3, <2>4
<1>7. WholeInv(later, trees'[side], side)
  <2> SUFFICES ASSUME \E other \in later : other.call \in AnalysisCalls
               PROVE  /\ X("extract") \notin later => trees'[side].content = trees'[side].size
                      /\ X("extract") \in later /\ X("archive") \notin later =>
                            trees'[side].archived = trees'[side].size
    BY DEF WholeInv
  <2>1. /\ X("extract") \notin {step} \cup later => trees[side].content = trees[side].size
        /\ X("extract") \in {step} \cup later /\ X("archive") \notin {step} \cup later =>
             trees[side].archived = trees[side].size
    BY <1>4 DEF WholeInv
  <2>2. CASE step = X("archive")
    BY <1>2, <2>2 DEF step
  <2>3. CASE step = X("extract")
    <3>1. X("archive") \notin later /\ X("extract") \notin later /\ step # X("archive")
      BY <1>2, <1>5, <2>3
    <3>2. trees'[side].content = trees[side].archived
      BY <2>3 DEF step
    <3>3. QED BY <2>1, <2>3, <3>1, <3>2
  <2>4. CASE step # X("archive") /\ step # X("extract")
    BY <2>1, <2>4 DEF step
  <2>5. QED BY <2>2, <2>3, <2>4
<1>8. QED BY <1>6, <1>7

\* A private directory is that of the side the plan is about.
LEMMA PrivateIsCurrent ==
    ASSUME Inv, plan # <<>>, Call \notin {"rm", "cleanup"}, NEW side \in Sides, trees[side].dir = "private"
    PROVE  Side = side
<1> DEFINE step == plan[1]
           later == Steps(Tail(plan))
<1>1. Precedes(step, later) /\ Steps(plan) = {step} \cup later
  BY Advance DEF Inv
<1>2. DirectoryInv({step} \cup later, trees[side], side)
  BY <1>1 DEF Inv
<1> HIDE DEF step, later
<1>3. step # Await("rm", side) /\ step # Await("cleanup", side)
  BY DEF step, Call, Await
<1>4. Await("rm", side) \notin later
  BY <1>1 DEF Precedes
<1>5. Await("materialized", side) \in {step} \cup later /\ Await("mkdtemp", side) \notin {step} \cup later
  BY <1>2, <1>3, <1>4 DEF DirectoryInv
<1>6. step = Await("materialized", side) \/ step \in Makes(side)
  BY <1>1, <1>5 DEF Precedes
<1>7. step.side = side
  BY <1>6 DEF Makes, Await
<1>8. QED BY <1>7 DEF step, Side

\* Directories may be cleaned up in any order, after what failed has removed its own.
LEMMA GivingBack ==
    ASSUME NEW side \in Sides, NEW step \in {Await("rm", side), Await("cleanup", side)},
           NEW later, \A other \in later : \E t \in Sides \ {side} : other = Await("cleanup", t)
    PROVE  step \in Step /\ Precedes(step, later)
<1>1. /\ step.side = side /\ step.call \in {"rm", "cleanup"} /\ step \in Step
      /\ \A other \in later : other.side # side /\ other.side \in Sides /\ other.call = "cleanup"
  BY DEF Await, Step, AllCalls
<1>2. \A call, s : Await(call, s).call = call /\ Await(call, s).side = s
  BY DEF Await
<1> SUFFICES ASSUME NEW s \in Sides
             PROVE  /\ Await("rm", s) \notin later
                    /\ step \notin Makes(s)
                    /\ Await("materialized", s) \notin later
                    /\ later \cap (Makes(s) \cup {Await("materialized", s)}) = {}
                    /\ step # Await("materialized", s)
                    /\ step \in {Await("cleanup", s), Await("rm", s)} => Await("cleanup", s) \notin later
                    /\ step # Await("archive", s) /\ step # Await("extract", s)
                    /\ step.call \notin AnalysisCalls
                    /\ \A other \in later : other.call \notin AnalysisCalls
  <2>1. step # Await("archive", "none")
    BY <1>1, NotArchive
  <2>2. QED BY <1>1, <2>1 DEF Precedes
<1>3. \A x \in Makes(s) : x.call \notin {"rm", "cleanup"}
  BY <1>2 DEF Makes, Inside
<1>4. /\ Await("rm", s) \notin later /\ Await("materialized", s) \notin later
      /\ step \notin Makes(s) /\ step # Await("materialized", s)
      /\ step # Await("archive", s) /\ step # Await("extract", s)
  BY <1>1, <1>2, <1>3
<1>5. later \cap (Makes(s) \cup {Await("materialized", s)}) = {}
  BY <1>1, <1>3, <1>4
<1>6. step \in {Await("cleanup", s), Await("rm", s)} => Await("cleanup", s) \notin later
  BY <1>1, <1>2
<1>7. step.call \notin AnalysisCalls /\ \A other \in later : other.call \notin AnalysisCalls
  BY <1>1 DEF AnalysisCalls
<1>8. QED BY <1>4, <1>5, <1>6, <1>7

\* A failed request gives back the private directory and those handed over.
LEMMA UnwindInv ==
    ASSUME Inv, plan # <<>>, Call \notin {"rm", "cleanup"}, NEW outcome \in Outcome, Unwind(outcome),
           UNCHANGED trees
    PROVE  /\ RequestInv' /\ Ordered(plan')
           /\ \A side \in Sides : /\ DirectoryInv(Steps(plan'), trees'[side], side)
                                  /\ WholeInv(Steps(plan'), trees'[side], side)
<1> DEFINE R(side) == Await("rm", side)
           C(side) == Await("cleanup", side)
           Handed(side) == trees[side].dir = "handed"
           removes == Side \in Sides /\ trees[Side].dir = "private"
           first == IF removes THEN <<R(Side)>> ELSE <<>>
           second == Entered("before")
           cleanups == Entered("after") \o second
           expected == (IF removes THEN {R(Side)} ELSE {}) \cup {C(side) : side \in {s \in Sides : Handed(s)}}
<1>1. RequestInv'
  BY DEF Inv, RequestInv, Unwind
<1>2. \A side \in Sides : /\ C(side) \in Step /\ R(side) \in Step
                         /\ C(side).call = "cleanup" /\ R(side).call = "rm"
  BY DEF Step, Await, AllCalls
<1>3. /\ \A s, t \in Sides : C(s) = C(t) => s = t
      /\ \A s, t \in Sides : R(s) = R(t) => s = t
      /\ \A s, t \in Sides : C(s) # R(t)
      /\ \A s, t \in Sides : \A call \in {"mkdtemp", "materialized", "archive", "extract"} :
            Await(call, s) # C(t) /\ Await(call, s) # R(t)
      /\ \A s, t \in Sides : C(t) \notin Makes(s) /\ R(t) \notin Makes(s)
  BY DEF Await, Makes, Inside
<1>4. "before" \in Sides /\ "after" \in Sides /\ "before" # "after" /\ \A s \in Sides : s = "before" \/ s = "after"
  BY DEF Sides
<1>5. AnalysisCalls \cap {"cleanup", "rm"} = {}
  BY DEF AnalysisCalls
<1>6. /\ Entered("after") = IF Handed("after") THEN <<C("after")>> ELSE <<>>
      /\ second = IF Handed("before") THEN <<C("before")>> ELSE <<>>
  BY DEF Entered
<1>7. plan' = first \o cleanups
  <2>1. plan' = (first \o Entered("after")) \o Entered("before")
    BY DEF Unwind
  <2>2. <<>> \in Seq(Step) /\ \A s \in Step : <<s>> \in Seq(Step)
    OBVIOUS
  <2>3. first \in Seq(Step)
    BY <1>2, <2>2
  <2>4. Entered("after") \in Seq(Step) /\ Entered("before") \in Seq(Step)
    BY <1>2, <1>4, <1>6, <2>2
  <2> HIDE DEF first
  <2>5. (first \o Entered("after")) \o Entered("before") = first \o (Entered("after") \o Entered("before"))
    BY <2>3, <2>4, ConcatAssociative
  <2>6. QED BY <2>1, <2>5
<1>8. Ordered(second) /\ Steps(second) = IF Handed("before") THEN {C("before")} ELSE {}
  <2>1. CASE Handed("before")
    <3>1. \A other \in Steps(<<>>) : \E t \in Sides \ {"before"} : other = Await("cleanup", t)
      BY EmptyOrdered
    <3>2. C("before") \in Step /\ Precedes(C("before"), Steps(<<>>))
      BY <1>4, <3>1, GivingBack
    <3>3. Ordered(<<C("before")>> \o <<>>) /\ Steps(<<C("before")>> \o <<>>) = {C("before")} \cup Steps(<<>>)
      BY <3>2, EmptyOrdered, Prepend
    <3>4. <<C("before")>> \o <<>> = second
      BY <1>6, <2>1
    <3>5. QED BY <2>1, <3>3, <3>4, EmptyOrdered
  <2>2. CASE ~Handed("before")
    BY <1>6, <2>2, EmptyOrdered
  <2>3. QED BY <2>1, <2>2
<1> HIDE DEF second
<1>9. Ordered(cleanups) /\ Steps(cleanups) = {C(side) : side \in {s \in Sides : Handed(s)}}
  <2>1. CASE Handed("after")
    <3>1. \A other \in Steps(second) : \E t \in Sides \ {"after"} : other = Await("cleanup", t)
      BY <1>4, <1>8
    <3>2. C("after") \in Step /\ Precedes(C("after"), Steps(second))
      BY <1>4, <3>1, GivingBack
    <3>3. Ordered(<<C("after")>> \o second) /\ Steps(<<C("after")>> \o second) = {C("after")} \cup Steps(second)
      BY <1>8, <3>2, Prepend
    <3>4. <<C("after")>> \o second = cleanups
      BY <1>6, <2>1
    <3>5. QED BY <1>4, <1>8, <2>1, <3>3, <3>4
  <2>2. CASE ~Handed("after")
    <3>1. second \in Seq(Step) /\ Entered("after") = <<>>
      BY <1>6, <1>8, <2>2 DEF Ordered
    <3>2. <<>> \o second = second
      BY <3>1
    <3>3. cleanups = second
      BY <3>1, <3>2
    <3>4. QED BY <1>4, <1>8, <2>2, <3>3
  <2>3. QED BY <2>1, <2>2
<1> HIDE DEF cleanups
<1>10. Ordered(plan') /\ Steps(plan') = expected
  <2>1. CASE removes
    <3>1. Side \in Sides /\ ~Handed(Side)
      BY <2>1
    <3>2. \A other \in Steps(cleanups) : \E t \in Sides \ {Side} : other = Await("cleanup", t)
      BY <1>9, <3>1
    <3>3. R(Side) \in Step /\ Precedes(R(Side), Steps(cleanups))
      BY <3>1, <3>2, GivingBack
    <3>4. Ordered(<<R(Side)>> \o cleanups) /\ Steps(<<R(Side)>> \o cleanups) = {R(Side)} \cup Steps(cleanups)
      BY <1>9, <3>3, Prepend
    <3>5. plan' = <<R(Side)>> \o cleanups
      BY <1>7, <2>1
    <3>6. QED BY <1>9, <2>1, <3>4, <3>5
  <2>2. CASE ~removes
    <3>1. plan' = cleanups
      BY <1>7, <1>9, <2>2 DEF Ordered
    <3>2. QED BY <1>9, <2>2, <3>1
  <2>3. QED BY <2>1, <2>2
<1>11. ASSUME NEW side \in Sides
       PROVE  DirectoryInv(Steps(plan'), trees'[side], side) /\ WholeInv(Steps(plan'), trees'[side], side)
  <2>1. \A x \in Steps(plan') : \E t \in Sides : (x = C(t) /\ Handed(t)) \/ (x = R(t) /\ removes /\ t = Side)
    BY <1>10
  <2>2. /\ Await("mkdtemp", side) \notin Steps(plan') /\ Await("materialized", side) \notin Steps(plan')
        /\ C(side) \in Steps(plan') => Handed(side)
        /\ R(side) \in Steps(plan') => removes /\ Side = side
        /\ \A x \in Steps(plan') : x.call \notin AnalysisCalls
    BY <1>2, <1>3, <1>5, <2>1
  <2>3. trees[side].dir = "private" => R(side) \in Steps(plan')
    <3>1. SUFFICES ASSUME trees[side].dir = "private" PROVE R(side) \in expected
      BY <1>10
    <3>2. Side = side
      BY <3>1, PrivateIsCurrent
    <3>3. QED BY <3>1, <3>2
  <2>4. Handed(side) => C(side) \in Steps(plan')
    BY <1>10
  <2>5. trees'[side] = trees[side] /\ trees[side].dir \in {"none", "private", "handed", "removed", "left"}
    BY DEF Inv, Tree
  <2>6. DirectoryInv(Steps(plan'), trees'[side], side)
    BY <2>2, <2>3, <2>4, <2>5 DEF DirectoryInv
  <2>7. QED BY <2>2, <2>6 DEF WholeInv
<1>12. QED BY <1>1, <1>10, <1>11
-----------------------------------------------------------------------------
(* The steps of a request *)

LEMMA HeadFacts ==
    ASSUME Ordered(plan), plan # <<>>
    PROVE  /\ plan[1] = Await(Call, Side)
           /\ Call \in AllCalls /\ Side \in Sides \cup {"none"}
           /\ \A call, side : plan[1] = Await(call, side) <=> Call = call /\ Side = side
<1>1. plan[1] \in Step
  BY Advance
<1>2. QED BY <1>1 DEF Step, Await, Call, Side

LEMMA DirEffect ==
    ASSUME trees \in [Sides -> Tree], NEW dir \in {"none", "private", "handed", "removed", "left"}, SetDir(dir)
    PROVE  /\ trees' \in [Sides -> Tree]
           /\ \A side \in Sides :
                /\ trees'[side].size = trees[side].size
                /\ trees'[side].archived = trees[side].archived
                /\ trees'[side].content = trees[side].content
                /\ trees'[side].dir = IF side = Side THEN dir ELSE trees[side].dir
BY DEF SetDir, Tree

\* Without a command there is nothing to say of one.
LEMMA IdleCommand ==
    ASSUME CommandInv, signal' \in {"none", "live", "aborted"},
           command' = NoCommand \/ (UNCHANGED command /\ command.kind = "none")
    PROVE  CommandInv' /\ CommandPlaceInv'
<1>1. command' = NoCommand
  BY DEF CommandInv
<1>2. /\ command' \in Command /\ command'.kind = "none" /\ command'.outcome = "ok"
      /\ command'.file = "none" /\ command'.childClosed = FALSE /\ command'.timer = FALSE
      /\ command'.listening = FALSE /\ command'.child = "none"
  <2>1. NoCommand \in Command
    BY NoCommandInv
  <2>2. QED BY <1>1, <2>1 DEF NoCommand
<1>3. CommandIsReleased'
  BY <1>2 DEF CommandIsReleased
<1>4. QED BY <1>1, <1>2, <1>3 DEF CommandInv, Archiving, CommandPlaceInv

\* Only a command is awaited while there is one.
LEMMA CommandIsAwaited ==
    ASSUME Inv, plan = <<>> \/ Call \notin Commands
    PROVE  command.kind = "none"
BY DEF Inv, CommandPlaceInv

LEMMA StartInv ==
    ASSUME Inv, NEW r \in Request, NEW given \in {"none", "live"}, Start(r, given)
    PROVE  Inv'
<1> DEFINE steps == Steps(PlanOf(r))
<1>1. command.kind = "none" /\ UNCHANGED command /\ plan' = PlanOf(r)
      /\ signal' \in {"none", "live", "aborted"}
  BY CommandIsAwaited DEF Start, Idle
<1>2. CommandInv' /\ CommandPlaceInv'
  BY <1>1, IdleCommand DEF Inv
<1>3. RequestInv'
  BY DEF Start, RequestInv, Outcome
<1>4. /\ Ordered(plan') /\ Unopened(plan')
      /\ \A side \in Sides :
           /\ Await("mkdtemp", side) \in steps
           /\ ~(side = "before" /\ RootCommit(r)) => Await("extract", side) \in steps
                                                   /\ Await("archive", side) \in steps
  BY <1>1, PlanOrdered
<1>5. PICK sizes \in [Sides -> 0 .. Chunks] :
          /\ RootCommit(r) => sizes["before"] = 0
          /\ trees' = [side \in Sides |-> [NoTree EXCEPT !.size = sizes[side]]]
  BY DEF Start
<1>6. \A n \in 0 .. Chunks : /\ [NoTree EXCEPT !.size = n] \in Tree
                             /\ [NoTree EXCEPT !.size = n].size = n
                             /\ [NoTree EXCEPT !.size = n].dir = "none"
                             /\ [NoTree EXCEPT !.size = n].archived = 0
                             /\ [NoTree EXCEPT !.size = n].content = 0
  BY CommandAssumption DEF NoTree, Tree
<1>7. /\ trees' \in [Sides -> Tree]
      /\ \A side \in Sides :
           /\ trees'[side].dir = "none"
           /\ trees'[side].archived = 0
           /\ trees'[side].content = 0
           /\ side = "before" /\ RootCommit(r) => trees'[side].size = 0
  BY <1>5, <1>6
<1>8. ASSUME NEW side \in Sides
      PROVE  DirectoryInv(Steps(plan'), trees'[side], side) /\ WholeInv(Steps(plan'), trees'[side], side)
  <2>1. Await("mkdtemp", side) \in steps /\ Await("rm", side) \notin steps
    BY <1>1, <1>4 DEF Unopened
  <2>2. Await("materialized", side) \in steps
    <3>1. PICK i \in DOMAIN PlanOf(r) : PlanOf(r)[i] = Await("mkdtemp", side)
      BY <2>1 DEF Steps
    <3>2. Await("mkdtemp", side) \in Makes(side)
      BY DEF Makes
    <3>3. Await("materialized", side) \in Later(PlanOf(r), i)
      BY <1>1, <1>4, <3>1, <3>2 DEF Ordered, Precedes
    <3>4. QED BY <3>3 DEF Later, Steps
  <2> DEFINE tree == trees'[side]
  <2>3. tree.dir = "none"
    BY <1>7
  <2>4. /\ tree.content = tree.size \/ Await("extract", side) \in steps
        /\ tree.archived = tree.size \/ Await("archive", side) \in steps
    BY <1>4, <1>7
  <2> HIDE DEF tree, steps
  <2>5. DirectoryInv(steps, tree, side) /\ WholeInv(steps, tree, side)
    BY <2>1, <2>2, <2>3, <2>4 DEF DirectoryInv, WholeInv
  <2>6. QED BY <1>1, <2>5 DEF steps, tree
<1>9. QED BY <1>2, <1>3, <1>4, <1>7, <1>8 DEF Inv

LEMMA CheckInv ==
    ASSUME Inv, Check
    PROVE  Inv'
<1>1. /\ plan # <<>> /\ Call \in Checks /\ UNCHANGED <<signal, command>> /\ Ordered(plan)
      /\ trees \in [Sides -> Tree] /\ RequestInv /\ CommandInv /\ signal \in {"none", "live", "aborted"}
  BY DEF Check, Idle, Inv, CommandInv
<1>2. Call \notin Commands /\ Call \notin {"rm", "cleanup", "mkdtemp", "archive", "extract"}
  BY <1>1 DEF Checks, Commands
<1>3. CommandInv' /\ CommandPlaceInv'
  BY <1>1, <1>2, CommandIsAwaited, IdleCommand
<1>4. CASE CheckError # "none"
  <2>1. PICK outcome \in Outcome : Unwind(outcome)
    <3> DEFINE reason == IF CheckError = "ambiguous-merge-parent" THEN CheckError ELSE "failed"
    <3>1. Unwind(reason) /\ reason \in Outcome
      BY <1>4 DEF Check, Outcome
    <3> HIDE DEF reason
    <3>2. QED BY <3>1
  <2>2. UNCHANGED trees
    BY <1>4 DEF Check, Keep
  <2>3. /\ RequestInv' /\ Ordered(plan')
        /\ \A side \in Sides : /\ DirectoryInv(Steps(plan'), trees'[side], side)
                               /\ WholeInv(Steps(plan'), trees'[side], side)
    BY <1>1, <1>2, <2>1, <2>2, UnwindInv
  <2>4. QED BY <1>1, <1>3, <2>2, <2>3 DEF Inv
<1>5. CASE CheckError = "none"
  <2>1. /\ plan' = Tail(plan)
        /\ request' = [request EXCEPT !.outcome = IF Call = "compose" THEN "answered" ELSE @]
        /\ IF Call = "materialized" THEN SetDir("handed") ELSE UNCHANGED trees
    BY <1>5 DEF Check, Keep
  <2>2. RequestInv'
    BY <1>1, <2>1 DEF RequestInv, Outcome
  <2>3. /\ trees' \in [Sides -> Tree]
        /\ \A side \in Sides :
             /\ trees'[side].size = trees[side].size
             /\ trees'[side].archived = trees[side].archived
             /\ trees'[side].content = trees[side].content
             /\ trees'[side].dir = IF Call = "materialized" /\ side = Side THEN "handed" ELSE trees[side].dir
    BY <1>1, <2>1, DirEffect
  <2>4. \A call, side : plan[1] = Await(call, side) <=> Call = call /\ Side = side
    BY <1>1, HeadFacts
  <2>5. /\ Ordered(plan')
        /\ \A side \in Sides : /\ DirectoryInv(Steps(plan'), trees'[side], side)
                               /\ WholeInv(Steps(plan'), trees'[side], side)
    <3>1. ASSUME NEW side \in Sides
          PROVE /\ plan[1] # Await("mkdtemp", side) /\ plan[1] # Await("rm", side) /\ plan[1] # Await("cleanup", side)
                /\ plan[1] # Await("archive", side) /\ plan[1] # Await("extract", side)
                /\ plan[1] = Await("materialized", side) => trees'[side].dir = "handed"
                /\ plan[1] # Await("materialized", side) => trees'[side].dir = trees[side].dir
      BY <1>2, <2>3, <2>4
    <3>2. QED BY <1>1, <2>1, <2>3, <3>1, TailInv
  <2>6. QED BY <1>3, <2>2, <2>3, <2>5 DEF Inv
<1>6. QED BY <1>4, <1>5

LEMMA CallInv ==
    ASSUME Inv, CallReturns
    PROVE  Inv'
<1>1. /\ plan # <<>> /\ Call \in Calls /\ UNCHANGED <<signal, command, request>> /\ Ordered(plan)
      /\ trees \in [Sides -> Tree] /\ RequestInv /\ CommandInv /\ signal \in {"none", "live", "aborted"}
      /\ plan' = Tail(plan)
      /\ IF Call = "mkdtemp" THEN SetDir("private") ELSE UNCHANGED trees
  BY DEF CallReturns, Continue, Keep, Idle, Inv, CommandInv
<1>2. Call \notin Commands /\ Call \notin {"rm", "cleanup", "materialized", "archive", "extract"}
  BY <1>1 DEF Calls, Commands
<1>3. CommandInv' /\ CommandPlaceInv' /\ RequestInv'
  BY <1>1, <1>2, CommandIsAwaited, IdleCommand DEF RequestInv
<1>4. /\ trees' \in [Sides -> Tree]
      /\ \A side \in Sides :
           /\ trees'[side].size = trees[side].size
           /\ trees'[side].archived = trees[side].archived
           /\ trees'[side].content = trees[side].content
           /\ trees'[side].dir = IF Call = "mkdtemp" /\ side = Side THEN "private" ELSE trees[side].dir
  BY <1>1, DirEffect
<1>5. \A call, side : plan[1] = Await(call, side) <=> Call = call /\ Side = side
  BY <1>1, HeadFacts
<1>6. /\ Ordered(plan')
      /\ \A side \in Sides : /\ DirectoryInv(Steps(plan'), trees'[side], side)
                             /\ WholeInv(Steps(plan'), trees'[side], side)
  <2>1. ASSUME NEW side \in Sides
        PROVE /\ plan[1] # Await("materialized", side) /\ plan[1] # Await("rm", side) /\ plan[1] # Await("cleanup", side)
              /\ plan[1] # Await("archive", side) /\ plan[1] # Await("extract", side)
              /\ plan[1] = Await("mkdtemp", side) => trees'[side].dir = "private"
              /\ plan[1] # Await("mkdtemp", side) => trees'[side].dir = trees[side].dir
    BY <1>2, <1>4, <1>5
  <2>2. QED BY <1>1, <1>4, <2>1, TailInv
<1>7. QED BY <1>3, <1>4, <1>6 DEF Inv

LEMMA RemoveInv ==
    ASSUME Inv, RemoveTree
    PROVE  Inv'
<1>1. PICK dir \in {"removed", "left"} : SetDir(dir)
  BY DEF RemoveTree
<1>2. /\ plan # <<>> /\ Call \in {"rm", "cleanup"} /\ UNCHANGED <<signal, command>> /\ Ordered(plan)
      /\ trees \in [Sides -> Tree] /\ RequestInv /\ CommandInv /\ signal \in {"none", "live", "aborted"}
      /\ plan' = Tail(plan)
  BY DEF RemoveTree, Idle, Inv, CommandInv
<1>3. Call \notin Commands /\ Call \notin {"mkdtemp", "materialized", "archive", "extract"}
  BY <1>2 DEF Commands
<1>4. CommandInv' /\ CommandPlaceInv'
  BY <1>2, <1>3, CommandIsAwaited, IdleCommand
<1>5. RequestInv'
  BY <1>2 DEF RemoveTree, RequestInv, Outcome
<1>6. /\ trees' \in [Sides -> Tree]
      /\ \A side \in Sides :
           /\ trees'[side].size = trees[side].size
           /\ trees'[side].archived = trees[side].archived
           /\ trees'[side].content = trees[side].content
           /\ trees'[side].dir = IF side = Side THEN dir ELSE trees[side].dir
  BY <1>1, <1>2, DirEffect
<1>7. \A call, side : plan[1] = Await(call, side) <=> Call = call /\ Side = side
  BY <1>2, HeadFacts
<1>8. /\ Ordered(plan')
      /\ \A side \in Sides : /\ DirectoryInv(Steps(plan'), trees'[side], side)
                             /\ WholeInv(Steps(plan'), trees'[side], side)
  <2>1. ASSUME NEW side \in Sides
        PROVE /\ plan[1] # Await("materialized", side) /\ plan[1] # Await("mkdtemp", side)
              /\ plan[1] # Await("archive", side) /\ plan[1] # Await("extract", side)
              /\ plan[1] \in {Await("rm", side), Await("cleanup", side)} => trees'[side].dir \in {"removed", "left"}
              /\ plan[1] \notin {Await("rm", side), Await("cleanup", side)} => trees'[side].dir = trees[side].dir
    BY <1>2, <1>3, <1>6, <1>7
  <2>2. QED BY <1>2, <1>6, <2>1, TailInv
<1>9. QED BY <1>4, <1>5, <1>6, <1>8 DEF Inv

\* A failed check, call or composition of the answer ends the request.
LEMMA FailureInv ==
    ASSUME Inv, plan # <<>>, Call \notin Commands, Call \notin {"rm", "cleanup"}, Unwind("failed"), Keep,
           UNCHANGED <<signal, command>>
    PROVE  Inv'
<1>1. "failed" \in Outcome /\ UNCHANGED trees
  BY DEF Outcome, Keep
<1>2. CommandInv' /\ CommandPlaceInv'
  <2>1. CommandInv /\ signal' \in {"none", "live", "aborted"} /\ UNCHANGED command
    BY DEF Inv, CommandInv
  <2>2. QED BY <2>1, CommandIsAwaited, IdleCommand
<1>3. /\ RequestInv' /\ Ordered(plan')
      /\ \A side \in Sides : /\ DirectoryInv(Steps(plan'), trees'[side], side)
                             /\ WholeInv(Steps(plan'), trees'[side], side)
  BY <1>1, UnwindInv
<1>4. QED BY <1>1, <1>2, <1>3 DEF Inv

LEMMA RunInv ==
    ASSUME Inv, RunCommand
    PROVE  Inv'
<1>1. /\ plan # <<>> /\ Call \in Commands /\ UNCHANGED <<signal, request, plan, trees>>
      /\ trees \in [Sides -> Tree] /\ signal \in {"none", "live", "aborted"}
  BY DEF RunCommand, Idle, Inv, CommandInv
<1>2. PICK kind \in {"text", "archive"}, size \in 0 .. Chunks :
          /\ command' = Spawned(kind, size)
          /\ Call = "archive" /\ Side \in Sides => kind = "archive" /\ size = trees[Side].size
  <2> DEFINE kind == IF Call = "archive" THEN "archive" ELSE "text"
  <2>1. PICK size \in OutputSizes : command' = Spawned(kind, size)
    BY DEF RunCommand
  <2>2. kind \in {"text", "archive"} /\ (Call = "archive" => kind = "archive")
    OBVIOUS
  <2>3. Call = "archive" => Side \in Sides
    BY <1>1, HeadFacts, Advance DEF Inv, Precedes
  <2>4. QED BY <1>1, <2>1, <2>2, <2>3 DEF OutputSizes, Tree
<1>3. /\ command' \in Command /\ command'.kind = kind /\ command'.size = size /\ command'.child = "running"
      /\ command'.file = (IF kind = "archive" THEN "open" ELSE "none") /\ command'.childClosed = FALSE
      /\ command'.outcome = "pending"
  BY <1>2, CommandAssumption DEF Spawned, Command
<1>4. CommandInv'
  BY <1>1, <1>3 DEF CommandInv, CommandIsReleased, Running
<1>5. CommandPlaceInv'
  BY <1>1, <1>2, <1>3 DEF CommandPlaceInv, Call, Side
<1>6. QED BY <1>1, <1>4, <1>5 DEF Inv, RequestInv

LEMMA CommandEndInv ==
    ASSUME Inv, CommandEnds
    PROVE  Inv'
<1>1. /\ command # NoCommand /\ ~Running /\ command' = NoCommand /\ UNCHANGED signal
      /\ CommandInv /\ RequestInv /\ trees \in [Sides -> Tree] /\ Ordered(plan)
      /\ signal \in {"none", "live", "aborted"} /\ command \in Command
  BY DEF CommandEnds, Inv, CommandInv
<1>2. /\ command.kind # "none" /\ plan # <<>> /\ Call \in Commands
      /\ Call = "archive" /\ Side \in Sides => command.kind = "archive" /\ command.size = trees[Side].size
  BY <1>1 DEF CommandInv, CommandPlaceInv, Inv
<1>3. CommandInv' /\ CommandPlaceInv'
  BY <1>1, IdleCommand
<1>4. Call \notin {"rm", "cleanup", "mkdtemp", "materialized"}
  BY <1>2 DEF Commands
<1>5. CASE command.outcome = "failed"
  <2>1. Unwind("failed") /\ UNCHANGED trees /\ "failed" \in Outcome
    BY <1>5 DEF CommandEnds, Keep, Outcome
  <2>2. /\ RequestInv' /\ Ordered(plan')
        /\ \A side \in Sides : /\ DirectoryInv(Steps(plan'), trees'[side], side)
                               /\ WholeInv(Steps(plan'), trees'[side], side)
    BY <1>2, <1>4, <2>1, UnwindInv
  <2>3. QED BY <1>1, <1>3, <2>1, <2>2 DEF Inv
<1>6. CASE command.outcome # "failed"
  <2>1. command.outcome = "ok"
    BY <1>1, <1>6 DEF Running, Command
  <2>2. /\ plan' = Tail(plan) /\ UNCHANGED request
        /\ trees' = CASE Call = "archive" -> [trees EXCEPT ![Side].archived = command.flushed]
                      [] Call = "extract" -> [trees EXCEPT ![Side].content = trees[Side].archived]
                      [] OTHER -> trees
    BY <1>6 DEF CommandEnds, Continue
  <2>3. /\ command.flushed \in 0 .. Chunks
        /\ Call = "archive" /\ Side \in Sides => command.flushed = trees[Side].size
    BY <1>1, <1>2, <2>1 DEF CommandInv, Archiving, Command
  <2>4. /\ trees' \in [Sides -> Tree]
        /\ \A side \in Sides :
             /\ trees'[side].size = trees[side].size
             /\ trees'[side].dir = trees[side].dir
             /\ trees'[side].archived = IF Call = "archive" /\ side = Side THEN trees[side].size
                                                                         ELSE trees[side].archived
             /\ trees'[side].content = IF Call = "extract" /\ side = Side THEN trees[side].archived
                                                                        ELSE trees[side].content
    <3>1. CASE Call = "archive"
      BY <1>1, <2>2, <2>3, <3>1 DEF Tree
    <3>2. CASE Call = "extract"
      BY <1>1, <2>2, <3>2 DEF Tree
    <3>3. CASE Call # "archive" /\ Call # "extract"
      BY <1>1, <2>2, <3>3
    <3>4. QED BY <3>1, <3>2, <3>3
  <2>5. \A call, side : plan[1] = Await(call, side) <=> Call = call /\ Side = side
    BY <1>1, <1>2, HeadFacts
  <2>6. /\ Ordered(plan')
        /\ \A side \in Sides : /\ DirectoryInv(Steps(plan'), trees'[side], side)
                               /\ WholeInv(Steps(plan'), trees'[side], side)
    <3>1. ASSUME NEW side \in Sides
          PROVE /\ plan[1] # Await("materialized", side) /\ plan[1] # Await("mkdtemp", side)
                /\ plan[1] # Await("rm", side) /\ plan[1] # Await("cleanup", side)
                /\ IF plan[1] = Await("archive", side)
                     THEN trees'[side].archived = trees[side].size
                     ELSE trees'[side].archived = trees[side].archived
                /\ IF plan[1] = Await("extract", side)
                     THEN trees'[side].content = trees[side].archived
                     ELSE trees'[side].content = trees[side].content
      BY <1>4, <2>4, <2>5
    <3>2. QED BY <1>2, <2>2, <2>4, <3>1, TailInv
  <2>7. RequestInv'
    BY <1>1, <2>2 DEF RequestInv
  <2>8. QED BY <1>3, <2>4, <2>6, <2>7 DEF Inv
<1>7. QED BY <1>5, <1>6

\* What happens to a command while the request waits for it changes nothing else.
LEMMA CommandEventInv ==
    ASSUME Inv, CommandStep \/ AbortSignal, UNCHANGED <<request, plan, trees>>
    PROVE  Inv'
<1>1. CommandInv' /\ command'.kind = command.kind /\ command'.size = command.size
  BY CommandStepInv DEF Inv
<1>2. CommandPlaceInv'
  BY <1>1 DEF CommandPlaceInv, Inv, Call, Side
<1>3. QED BY <1>1, <1>2 DEF Inv, RequestInv

-----------------------------------------------------------------------------
(* Theorems *)

LEMMA StepInv == Inv /\ [Next]_vars => Inv'
<1> SUFFICES ASSUME Inv, [Next]_vars PROVE Inv'
  OBVIOUS
<1>1. CASE Check
  BY <1>1, CheckInv
<1>2. CASE ComposeFails
  <2>1. plan # <<>> /\ Call \notin Commands /\ Call \notin {"rm", "cleanup"} /\ Unwind("failed") /\ Keep
        /\ UNCHANGED <<signal, command>>
    BY <1>2 DEF ComposeFails, Commands, Idle
  <2>2. QED BY <2>1, FailureInv
<1>3. CASE RunCommand
  BY <1>3, RunInv
<1>4. CASE CommandEnds
  BY <1>4, CommandEndInv
<1>5. CASE CallReturns
  BY <1>5, CallInv
<1>6. CASE CallFails
  <2>1. plan # <<>> /\ Call \notin Commands /\ Call \notin {"rm", "cleanup"} /\ Unwind("failed") /\ Keep
        /\ UNCHANGED <<signal, command>>
    BY <1>6 DEF CallFails, Calls, Commands, Idle
  <2>2. QED BY <2>1, FailureInv
<1>7. CASE RemoveTree
  BY <1>7, RemoveInv
<1>8. CASE CommandEvent
  BY <1>8, CommandEventInv DEF CommandEvent
<1>9. CASE Abort
  BY <1>9, CommandEventInv DEF Abort
<1>10. ASSUME NEW r \in Request, NEW given \in {"none", "live"}, Start(r, given) PROVE Inv'
  BY <1>10, StartInv
<1>11. CASE UNCHANGED vars
  BY <1>11 DEF vars, Inv, CommandInv, CommandIsReleased, Running, Archiving, RequestInv, CommandPlaceInv, Call, Side
<1>12. QED
  BY <1>1, <1>2, <1>3, <1>4, <1>5, <1>6, <1>7, <1>8, <1>9, <1>10, <1>11 DEF Next, RequestStep

THEOREM InvariantHolds == Spec => []Inv
<1>1. QED BY InitInv, StepInv, PTL DEF Spec

\* The commands, the request and the directories stay of their types, and a command is
\* only ever the one the request waits for.
THEOREM TypesHold == Spec => []HistoricalTypeOK
<1>1. ASSUME Inv PROVE \A i \in DOMAIN plan : plan[i].side \in Sides \cup {"none"}
  <2>1. \A i \in DOMAIN plan : plan[i] \in Step
    BY <1>1 DEF Inv, Ordered
  <2>2. QED BY <2>1 DEF Step
<1>2. Inv => HistoricalTypeOK
  BY <1>1 DEF HistoricalTypeOK, Inv, RequestInv, CommandInv, CommandTypeOK, CommandPlaceInv, Idle
<1>3. QED BY <1>2, InvariantHolds, PTL

\* Every command that was started is given up with its promise: once it is settled no
\* timer and no listener is left and the process is gone (finish in runGit,
\* runProcess and archiveTree).
THEOREM CommandsAreReleased == Spec => []CommandIsReleased
<1>1. Inv => CommandIsReleased
  BY DEF Inv, CommandInv
<1>2. QED BY <1>1, InvariantHolds, PTL

\* However a request ends no private directory is left that could have been removed,
\* and no command works in one that is not there (the catch of materialize and the
\* finally blocks of getCommitImpact and getPullRequestImpact).
THEOREM DirectoriesAreReleased == Spec => []TreesAreReleased
<1>1. ASSUME Inv, Idle PROVE \A side \in Sides : trees[side].dir \in {"none", "removed", "left"}
  <2>1. Steps(plan) = {}
    BY <1>1, EmptyOrdered DEF Idle
  <2>2. QED BY <1>1, <2>1 DEF Inv, DirectoryInv
<1>2. ASSUME Inv, Running, Side \in Sides PROVE trees[Side].dir = "private"
  <2>1. plan # <<>> /\ Call \in Commands
    <3>1. command.kind # "none"
      BY <1>2 DEF Inv, CommandInv, Running, NoCommand
    <3>2. QED BY <1>2, <3>1 DEF Inv, CommandPlaceInv
  <2> DEFINE step == plan[1]
             later == Steps(Tail(plan))
  <2>2. /\ step = Await(Call, Side) /\ Precedes(step, later) /\ Steps(plan) = {step} \cup later
    BY <1>2, <2>1, HeadFacts, Advance DEF Inv
  <2>3. step \in Makes(Side) /\ step # Await("mkdtemp", Side)
    BY <2>1, <2>2 DEF Makes, Commands, Inside, Await
  <2>4. DirectoryInv({step} \cup later, trees[Side], Side)
    BY <1>2, <2>2 DEF Inv
  <2> HIDE DEF step, later
  <2>5. Await("mkdtemp", Side) \notin later /\ Await("materialized", Side) \in later
    BY <1>2, <2>2, <2>3 DEF Precedes
  <2>6. QED BY <2>3, <2>4, <2>5 DEF DirectoryInv
<1>3. Inv => TreesAreReleased
  BY <1>1, <1>2 DEF TreesAreReleased
<1>4. QED BY <1>3, InvariantHolds, PTL

\* What is analysed and compared is all of both trees: the archive on disk is the
\* whole output of git archive before it is extracted, and neither directory goes
\* before both analyses are done.
THEOREM WholeTreesAreAnalysed == Spec => []AnalysedTreesAreWhole
<1>1. ASSUME Inv, ~Idle, Call \in AnalysisCalls, NEW side \in Sides
      PROVE  trees[side].dir = "handed" /\ trees[side].content = trees[side].size
  <2> DEFINE step == plan[1]
             later == Steps(Tail(plan))
  <2>1. /\ step = Await(Call, Side) /\ Precedes(step, later) /\ Steps(plan) = {step} \cup later
    BY <1>1, HeadFacts, Advance DEF Inv, Idle
  <2>2. DirectoryInv({step} \cup later, trees[side], side) /\ WholeInv({step} \cup later, trees[side], side)
    BY <1>1, <2>1 DEF Inv
  <2>3. step.call \in AnalysisCalls
    BY <1>1, <2>1 DEF Await
  <2> HIDE DEF step, later
  <2>4. later \cap (Makes(side) \cup {Await("materialized", side)}) = {} /\ Await("cleanup", side) \in later
    BY <2>1, <2>3 DEF Precedes
  <2>5. /\ step # Await("materialized", side) /\ step # Await("extract", side)
        /\ Await("extract", side) \in Makes(side)
    BY <2>3 DEF AnalysisCalls, Await, Makes, Inside
  <2>6. trees[side].dir = "handed"
    BY <2>2, <2>4, <2>5 DEF DirectoryInv
  <2>7. trees[side].content = trees[side].size
    BY <2>2, <2>3, <2>4, <2>5 DEF WholeInv
  <2>8. QED BY <2>6, <2>7
<1>2. Inv => AnalysedTreesAreWhole
  BY <1>1 DEF AnalysedTreesAreWhole, AnalysisCalls
<1>3. QED BY <1>2, InvariantHolds, PTL
=============================================================================
