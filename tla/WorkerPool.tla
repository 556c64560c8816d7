------------------------------ MODULE WorkerPool ------------------------------
(***************************************************************************)
(* The bounded pool of a process and the calls that wait for their job     *)
(* (runBounded and runPoolJob): a buffered channel of jobs, worker         *)
(* goroutines, callers that give up, and shutdown.                         *)
(***************************************************************************)
EXTENDS Naturals, Sequences

CONSTANTS
    Calls,        \* calls of runBounded, each with its job
    PoolWorkers,  \* worker goroutines
    QueueSize     \* capacity of the channel

ASSUME PoolConstants == QueueSize \in Nat \ {0}

VARIABLES
    channel,      \* jobs that wait, by their call
    goroutine,    \* the job each worker runs: <<>> or <<call>>
    gone,         \* workers that have returned
    call,         \* where the caller is
    answered,     \* calls with a result in their channel done
    ran,          \* how often the job of a call was started
    stopping      \* the context of the process is cancelled

poolVars == <<channel, goroutine, gone, call, answered, ran, stopping>>

Free(w) == goroutine[w] = <<>> /\ w \notin gone

-----------------------------------------------------------------------------
\* Mutant: a full channel is not noticed.
SubmitUnbounded(c) ==
    /\ call[c] = "none"
    /\ channel' = Append(channel, c)
    /\ call' = [call EXCEPT ![c] = "waiting"]
    /\ UNCHANGED <<gone, goroutine, answered, ran, stopping>>

Submit(c) ==
    /\ call[c] = "none"
    /\ IF Len(channel) < QueueSize
       THEN /\ channel' = Append(channel, c)
            /\ call' = [call EXCEPT ![c] = "waiting"]
       ELSE /\ call' = [call EXCEPT ![c] = "full"]
            /\ UNCHANGED channel
    /\ UNCHANGED <<gone, goroutine, answered, ran, stopping>>

\* Mutant: the job stays in the channel.
TakeCopy(w) ==
    /\ Free(w) /\ channel # <<>>
    /\ goroutine' = [goroutine EXCEPT ![w] = <<Head(channel)>>]
    /\ ran' = [ran EXCEPT ![Head(channel)] = @ + 1]
    /\ UNCHANGED <<gone, channel, call, answered, stopping>>

\* With both channels ready select takes either: also a cancelled worker may
\* take another job.
Take(w) ==
    /\ Free(w) /\ channel # <<>>
    /\ goroutine' = [goroutine EXCEPT ![w] = <<Head(channel)>>]
    /\ channel' = Tail(channel)
    /\ ran' = [ran EXCEPT ![Head(channel)] = @ + 1]
    /\ UNCHANGED <<gone, call, answered, stopping>>

\* Mutant: the channel done has no buffer.
FinishUnbuffered(w) ==
    /\ goroutine[w] # <<>>
    /\ call[goroutine[w][1]] = "waiting"
    /\ answered' = answered \cup {goroutine[w][1]}
    /\ goroutine' = [goroutine EXCEPT ![w] = <<>>]
    /\ UNCHANGED <<gone, channel, call, ran, stopping>>

\* done has room for the result: a worker never waits for its caller.
Finish(w) ==
    /\ goroutine[w] # <<>>
    /\ answered' = answered \cup {goroutine[w][1]}
    /\ goroutine' = [goroutine EXCEPT ![w] = <<>>]
    /\ UNCHANGED <<gone, channel, call, ran, stopping>>

Answer(c) ==
    /\ call[c] = "waiting" /\ c \in answered
    /\ call' = [call EXCEPT ![c] = "answered"]
    /\ UNCHANGED <<gone, channel, goroutine, answered, ran, stopping>>

\* The context of the caller ends; its job stays where it is.
GiveUp(c) ==
    /\ call[c] = "waiting"
    /\ call' = [call EXCEPT ![c] = "cancelled"]
    /\ UNCHANGED <<gone, channel, goroutine, answered, ran, stopping>>

-----------------------------------------------------------------------------
BeginShutdown ==
    /\ ~stopping
    /\ stopping' = TRUE
    /\ UNCHANGED <<gone, channel, goroutine, call, answered, ran>>

Quit(w) ==
    /\ stopping /\ Free(w)
    /\ gone' = gone \cup {w}
    /\ UNCHANGED <<channel, goroutine, call, answered, ran, stopping>>

\* server.Shutdown waits for the calls, but not longer than its timeout; then
\* the pools are stopped and the process ends with the calls that still wait.
EndProcess ==
    /\ stopping /\ gone = PoolWorkers
    /\ \E c \in Calls : call[c] = "waiting"
    /\ call' = [c \in Calls |-> IF call[c] = "waiting" THEN "dropped" ELSE call[c]]
    /\ UNCHANGED <<gone, channel, goroutine, answered, ran, stopping>>

-----------------------------------------------------------------------------
PoolInit ==
    /\ channel = <<>>
    /\ goroutine = [w \in PoolWorkers |-> <<>>]
    /\ gone = {}
    /\ call = [c \in Calls |-> "none"]
    /\ answered = {}
    /\ ran = [c \in Calls |-> 0]
    /\ stopping = FALSE

WorkerStep(w) == Take(w) \/ Finish(w)

PoolNext ==
    \/ \E c \in Calls : Submit(c) \/ Answer(c) \/ GiveUp(c)
    \/ \E w \in PoolWorkers : WorkerStep(w) \/ Quit(w)
    \/ BeginShutdown
    \/ EndProcess

PoolSpec == PoolInit /\ [][PoolNext]_poolVars

-----------------------------------------------------------------------------
(* Properties. *)

\* The values of the channels and goroutines.
PoolTypeOK ==
    /\ channel \in Seq(Calls) /\ Len(channel) <= QueueSize
    /\ goroutine \in [PoolWorkers -> {<<>>} \cup {<<c>> : c \in Calls}]
    /\ gone \subseteq PoolWorkers
    /\ call \in [Calls -> {"none", "waiting", "full", "answered", "cancelled", "dropped"}]
    /\ answered \subseteq Calls
    /\ ran \in [Calls -> Nat]
    /\ stopping \in BOOLEAN

\* What a caller is told is true: an answered job has run, once, a refused one
\* never runs, and a job that was accepted runs at most once although its
\* caller may have left long before.
AnswersAreTrue ==
    \A c \in Calls : /\ ran[c] <= 1
                     /\ call[c] = "answered" => ran[c] = 1
                     /\ call[c] \in {"none", "full"} => ran[c] = 0

\* When calls wait, a time comes when all have returned or were dropped with
\* the process: callers that have left do not keep the workers from the jobs of
\* the others.
CallersReturn ==
    (\E c \in Calls : call[c] = "waiting") ~> \A c \in Calls : call[c] # "waiting"
=============================================================================
