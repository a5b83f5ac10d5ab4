----------------------------- MODULE TaskRunner -----------------------------
(***************************************************************************)
(* pkg/taskrunner: Run starts one goroutine per task, waits for all of      *)
(* them on a WaitGroup, closes the buffered result channel and drains it.  *)
(* Task t of sequence 1..NumTasks was registered by the t-th AddTask.       *)
(***************************************************************************)
EXTENDS Naturals, Sequences

CONSTANTS NumTasks
ASSUME NumTasksAssumption == NumTasks \in Nat \ {0}

Tasks == 1..NumTasks
Outcomes == {"ok", "err"}
Capacity_One == 1
Capacity == NumTasks

VARIABLES
  pc,        \* of each goroutine: unborn, running, sending, leaving, gone
  outcome,   \* what the task's function returned
  wg,        \* the WaitGroup's counter
  ch,        \* the results in the channel
  closed,
  main,      \* Run itself: idle, spawn, wait, drain, returned
  spawned,   \* goroutines started so far
  success,   \* successResults, by task
  errors     \* allErrors, in the order they are joined
rvars == <<pc, outcome, wg, ch, closed, main, spawned, success, errors>>

RInit == /\ pc = [t \in Tasks |-> "unborn"]
         /\ outcome \in [Tasks -> Outcomes]
         /\ wg = 0 /\ ch = <<>> /\ closed = FALSE
         /\ main = "idle" /\ spawned = 0
         /\ success = {} /\ errors = <<>>

(* Run: the counter is set before a goroutine can lower it.                 *)
Run == /\ main = "idle" /\ main' = "spawn" /\ wg' = NumTasks
       /\ UNCHANGED <<pc, outcome, ch, closed, spawned, success, errors>>

Spawn == /\ main = "spawn" /\ spawned < NumTasks
         /\ spawned' = spawned + 1
         /\ pc' = [pc EXCEPT ![spawned + 1] = "running"]
         /\ UNCHANGED <<outcome, wg, ch, closed, main, success, errors>>

AllSpawned == /\ main = "spawn" /\ spawned = NumTasks /\ main' = "wait"
              /\ UNCHANGED <<pc, outcome, wg, ch, closed, spawned, success, errors>>

(* task.fn() returns. *)
Compute(t) == /\ pc[t] = "running" /\ pc' = [pc EXCEPT ![t] = "sending"]
              /\ UNCHANGED <<outcome, wg, ch, closed, main, spawned, success, errors>>

Send(t) == /\ pc[t] = "sending" /\ Len(ch) < Capacity
           /\ ch' = Append(ch, t)
           /\ pc' = [pc EXCEPT ![t] = "leaving"]
           /\ UNCHANGED <<outcome, wg, closed, main, spawned, success, errors>>

(* The deferred wg.Done(). *)
Done(t) == /\ pc[t] = "leaving" /\ pc' = [pc EXCEPT ![t] = "gone"] /\ wg' = wg - 1
           /\ UNCHANGED <<outcome, ch, closed, main, spawned, success, errors>>

Wait == /\ main = "wait" /\ wg = 0
        /\ main' = "drain" /\ closed' = TRUE
        /\ UNCHANGED <<pc, outcome, wg, ch, spawned, success, errors>>

Drain_LastError ==
         /\ main = "drain" /\ ch # <<>>
         /\ ch' = Tail(ch)
         /\ IF outcome[Head(ch)] = "err"
            THEN errors' = <<Head(ch)>> /\ UNCHANGED success
            ELSE success' = success \cup {Head(ch)} /\ UNCHANGED errors
         /\ UNCHANGED <<pc, outcome, wg, closed, main, spawned>>

Drain == /\ main = "drain" /\ ch # <<>>
         /\ ch' = Tail(ch)
         /\ IF outcome[Head(ch)] = "err"
            THEN errors' = Append(errors, Head(ch)) /\ UNCHANGED success
            ELSE success' = success \cup {Head(ch)} /\ UNCHANGED errors
         /\ UNCHANGED <<pc, outcome, wg, closed, main, spawned>>

Return == /\ main = "drain" /\ ch = <<>> /\ main' = "returned"
          /\ UNCHANGED <<pc, outcome, wg, ch, closed, spawned, success, errors>>

Main == Spawn \/ AllSpawned \/ Wait \/ Drain \/ Return
Goroutine(t) == Compute(t) \/ Send(t) \/ Done(t)
RNext == Run \/ Main \/ \E t \in Tasks : Goroutine(t)
RSpec == RInit /\ [][RNext]_rvars
RFairness == WF_rvars(Main) /\ \A t \in Tasks : WF_rvars(Goroutine(t))

---------------------------------------------------------------------------
(* When Run returns, every task has been accounted for once: it is in the   *)
(* map iff it succeeded and its error was joined iff it failed.            *)
EveryResultOnce == main = "returned" =>
  /\ success = {t \in Tasks : outcome[t] = "ok"}
  /\ \A t \in Tasks : outcome[t] = "err" <=> \E k \in 1..Len(errors) : errors[k] = t
  /\ \A j, k \in 1..Len(errors) : errors[j] = errors[k] => j = k

(* A Run that was called returns: nobody waits for anybody forever, whatever *)
(* the tasks return.                                                        *)
RunReturns == main = "spawn" ~> main = "returned"
=============================================================================
