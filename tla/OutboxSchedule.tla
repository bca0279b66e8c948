--------------------------- MODULE OutboxSchedule ---------------------------
(***************************************************************************)
(* The times of maintenance, added to Reporting: when the timer starts a   *)
(* pass, and when a row that was tried in vain is due again.  Each pass    *)
(* takes the oldest rows that are due, a batch at most; they decide        *)
(* whether old rows that are tried in vain keep newer ones out of it.      *)
(*                                                                         *)
(* Time passes between the passes, in a unit of its own.  systemd starts   *)
(* no second process of the unit while one runs.                           *)
(***************************************************************************)
EXTENDS Reporting

CONSTANTS Reachable,   \* destinations that answer now and then; the others are
                       \* down, misconfigured or gone from the configuration
          ByMail,      \* those of type smtp
          Elapsed,     \* what may lie between two passes: the timer's period
                       \* (ten minutes), or more when one is late
          Doublings,   \* attempts after which the delay doubles no more (10)
          Longest      \* the longest delay (twelve hours)

ASSUME ScheduleAssumption ==
  /\ Cardinality(Maintainer) = 1
  /\ Reachable \cup ByMail \subseteq ToSet(Destination)
  /\ {Doublings, Longest} \subseteq Nat /\ Elapsed \subseteq Nat \ {0}

VARIABLES
  attempts,  \* how often each row was tried in vain, up to Doublings
  due,       \* the time left until its next_attempt_at
  rested     \* whether the timer may start the next pass

timeVars == <<attempts, due, rested>>

Lesser(a, b) == IF a < b THEN a ELSE b

TimedInit ==
  /\ Init
  /\ attempts = [i \in Item |-> 0] /\ due = [i \in Item |-> 0]
  /\ rested = TRUE

\* Mutation: the delay does not grow with the attempts
RetryDelayFlat(n) == 2

\* outboxRetryDelay, of the number of attempts made so far
RetryDelay(n) == Lesser(2 ^ Lesser(n, Doublings), Longest)

\* The timer starts a pass
Pass(p) ==
  /\ rested /\ rested' = FALSE
  /\ Maintain(p)
  /\ UNCHANGED <<attempts, due>>

\* FailOutbox with the time of the next attempt
Retry(p, i) ==
  /\ Postpone(p, i)
  /\ attempts' = [attempts EXCEPT ![i] = Lesser(@ + 1, Doublings)]
  /\ due' = [due EXCEPT ![i] = RetryDelay(attempts'[i])]
  /\ UNCHANGED rested

\* Time passes between two passes; the rows whose time has come are due again
Elapse ==
  /\ ~rested /\ rested' = TRUE
  /\ \E time \in Elapsed :
       due' = [i \in Item |-> IF due[i] > time THEN due[i] - time ELSE 0]
  /\ waiting' = {i \in waiting : due'[i] > 0}
  /\ UNCHANGED <<attempts, hostVars, runVars, outbox, left, netVars, envVars, lost>>

\* A row that is deleted takes its times with it
TimesKept ==
  /\ attempts' = [i \in Item |-> IF i \in Queued' THEN attempts[i] ELSE 0]
  /\ due' = [i \in Item |-> IF i \in Queued' THEN due[i] ELSE 0]
  /\ UNCHANGED rested

Deliver(p, i) == Delivered(p, i) /\ TimesKept

\* One turn of a pass
Turn(p) ==
  /\ \/ Report(p) \/ Enqueue(p) \/ Beat(p) \/ Prune(p)
     \/ \E i \in Item : Undelivered(p, i) \/ Complete(p, i)
  /\ TimesKept

Step(p) == Pass(p) \/ Turn(p) \/ \E i \in Item : Deliver(p, i) \/ Retry(p, i)

\* Runs, deaths, late requests and switches take no notice of the times
Elsewhere ==
  /\ \/ BeginRun \/ EndRun \/ RunReturns \/ Report(Backup) \/ Enqueue(Backup)
     \/ \E p \in Maintainer : Fatal(p)
     \/ \E p \in Process : Crash(p)
     \/ \E i \in Item : Arrive(i)
     \/ SwitchMonitoring
  /\ TimesKept

TimedNext == Elapse \/ Elsewhere \/ \E p \in Maintainer : Step(p)

\* Maintenance is sending a queued notice by mail: sendSMTP sets no deadline,
\* and neither does the unit, so a silent server keeps it for ever
WaitsForMail(p) ==
  pc[p] = "draining" /\ todo[p] # <<>> /\ Head(todo[p]).to \in ByMail

(* Time passes, the maintenance timer fires and its process is scheduled;  *)
(* an HTTP request ends, since its client has a timeout, while nothing is  *)
(* assumed of an attempt at a mail server; a receiver that answers now and *)
(* then answers some of the attempts made at an item.                      *)
Fairness ==
  /\ WF_<<vars, timeVars>>(Elapse)
  /\ \A p \in Maintainer : WF_<<vars, timeVars>>(~WaitsForMail(p) /\ Step(p))
  /\ \A i \in Item : i.to \in Reachable \cup {Monitor} =>
       SF_<<vars, timeVars>>(\E p \in Maintainer : Deliver(p, i))

TimedSpec == TimedInit /\ [][TimedNext]_<<vars, timeVars>> /\ Fairness
---------------------------------------------------------------------------
(* Correctness *)

\* What is queued for a receiver that answers now and then arrives or is
\* dropped, although older rows of other destinations are tried in vain and each
\* fills a batch: their delays outgrow the time between two passes.  Excepted is
\* what waits behind a row that a silent mail server keeps maintenance at
QueuedArrives ==
  (\A p \in Maintainer : []<>~WaitsForMail(p)) =>
    \A i \in Item :
      i.to \in Reachable \cup {Monitor} /\ i \in Queued ~> i \in Arrived \cup lost
=============================================================================
