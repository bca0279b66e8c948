------------------------------ MODULE Executor ------------------------------
(***************************************************************************)
(* executor.run: a command and what it starts write lines to pipes of      *)
(* bounded size; one goroutine per pipe reads them and calls back line by  *)
(* line; run waits for the readers, then for the command.  A context that  *)
(* ends kills the command's process group.  Lines are counted, not kept:   *)
(* the n-th line of a stream is n, and may be too long for the reader's    *)
(* buffer, which then stops without a word.                                *)
(***************************************************************************)
EXTENDS Naturals

CONSTANTS
  Stream,    \* the pipes that are read: both, or stderr alone (RunWithStdout)
  Leader,    \* the command
  Child,     \* a process it may start in its group
  Capacity,  \* lines a pipe holds
  MaxLines,  \* bound on the lines written to a stream
  None

ASSUME ExecutorAssumption ==
  /\ Stream # {} /\ None \notin Stream
  /\ Leader # Child
  /\ Capacity \in Nat \ {0} /\ MaxLines \in Nat

Program == {Leader, Child}

VARIABLES
  deadline,  \* whether the context ends by itself
  expired,   \* whether it has ended
  main,      \* where run is
  alive,     \* processes of the group that run; each holds every pipe open
  spawned,   \* whether the child was started
  wants,     \* the stream a process is writing a line to, None while it is not
  written,   \* lines written to a stream
  long,      \* the first line that is too long, 0 for none
  taken,     \* lines its reader took out of the pipe
  reader,    \* where the reader is
  handled,   \* lines whose callback has returned
  callback   \* who holds callbackMu

groupVars == <<alive, spawned, wants>>
pipeVars == <<written, long>>
readerVars == <<taken, reader, handled, callback>>
vars == <<deadline, expired, main, alive, spawned, wants, written, long, taken,
          reader, handled, callback>>

Init ==
  /\ deadline \in BOOLEAN /\ expired = FALSE
  /\ main = "starting"
  /\ alive = {} /\ spawned = FALSE /\ wants = [q \in Program |-> None]
  /\ written = [x \in Stream |-> 0] /\ long = [x \in Stream |-> 0]
  /\ taken = [x \in Stream |-> 0] /\ reader = [x \in Stream |-> "scanning"]
  /\ handled = [x \in Stream |-> 0] /\ callback = None

---------------------------------------------------------------------------
(* The command and its child *)

\* cmd.Start, or an error before it: a missing program, no more pipes
Start ==
  /\ main = "starting"
  /\ \/ ~expired /\ main' = "reading" /\ alive' = {Leader}
     \/ main' = "failed" /\ UNCHANGED alive
  /\ UNCHANGED <<deadline, expired, spawned, wants, pipeVars, readerVars>>

Spawn ==
  /\ Leader \in alive /\ ~spawned
  /\ alive' = alive \cup {Child} /\ spawned' = TRUE
  /\ UNCHANGED <<deadline, expired, main, wants, pipeVars, readerVars>>

PrintLine(q, x) ==
  /\ q \in alive /\ wants[q] = None
  /\ written[x] < MaxLines
  /\ wants' = [wants EXCEPT ![q] = x]
  /\ UNCHANGED <<deadline, expired, main, alive, spawned, pipeVars, readerVars>>

\* A write blocks while the pipe is full
Write(q) ==
  LET x == wants[q]
  IN /\ x # None /\ main # "returned"
     /\ written[x] - taken[x] < Capacity
     /\ written' = [written EXCEPT ![x] = @ + 1]
     /\ \/ UNCHANGED long
        \/ long[x] = 0 /\ long' = [long EXCEPT ![x] = written[x] + 1]
     /\ wants' = [wants EXCEPT ![q] = None]
     /\ UNCHANGED <<deadline, expired, main, alive, spawned, readerVars>>

Exit(q) ==
  /\ q \in alive /\ wants[q] = None
  /\ alive' = alive \ {q}
  /\ UNCHANGED <<deadline, expired, main, spawned, wants, pipeVars, readerVars>>

Expire ==
  /\ deadline /\ ~expired /\ main # "returned"
  /\ expired' = TRUE
  /\ UNCHANGED <<deadline, main, groupVars, pipeVars, readerVars>>

Kill(killed) ==
  /\ expired /\ main \in {"reading", "waiting"} /\ alive # {}
  /\ alive' = alive \ killed
  /\ wants' = [q \in Program |-> IF q \in killed THEN None ELSE wants[q]]
  /\ UNCHANGED <<deadline, expired, main, spawned, pipeVars, readerVars>>

\* Mutation: the command alone is killed
CancelLeader == Kill({Leader})

\* cmd.Cancel kills the whole process group
Cancel == Kill(Program)

---------------------------------------------------------------------------
(* The readers *)

\* Mutation: no lock around the callback
TakeLineUnlocked(x) ==
  /\ main = "reading" /\ reader[x] = "scanning" /\ taken[x] < written[x]
  /\ IF long[x] = taken[x] + 1
     THEN reader' = [reader EXCEPT ![x] = "done"] /\ UNCHANGED taken
     ELSE /\ reader' = [reader EXCEPT ![x] = "calling"]
          /\ taken' = [taken EXCEPT ![x] = @ + 1]
  /\ UNCHANGED <<deadline, expired, main, groupVars, pipeVars, handled, callback>>

\* Mutation: the end of a pipe is taken for an empty line
TakeNothing(x) ==
  /\ main = "reading" /\ reader[x] = "scanning"
  /\ taken[x] < written[x] \/ alive = {}
  /\ reader' = [reader EXCEPT ![x] = "locking"]
  /\ taken' = [taken EXCEPT ![x] = @ + 1]
  /\ UNCHANGED <<deadline, expired, main, groupVars, pipeVars, handled, callback>>

\* s.Scan: the rest of a line that is too long stays in the pipe
TakeLine(x) ==
  /\ main = "reading" /\ reader[x] = "scanning" /\ taken[x] < written[x]
  /\ IF long[x] = taken[x] + 1
     THEN reader' = [reader EXCEPT ![x] = "done"] /\ UNCHANGED taken
     ELSE /\ reader' = [reader EXCEPT ![x] = "locking"]
          /\ taken' = [taken EXCEPT ![x] = @ + 1]
  /\ UNCHANGED <<deadline, expired, main, groupVars, pipeVars, handled, callback>>

\* A pipe ends when it is empty and no process holds it open
EndOfFile(x) ==
  /\ main = "reading" /\ reader[x] = "scanning"
  /\ taken[x] = written[x] /\ alive = {}
  /\ reader' = [reader EXCEPT ![x] = "done"]
  /\ UNCHANGED <<deadline, expired, main, groupVars, pipeVars, taken, handled,
                 callback>>

LockCallback(x) ==
  /\ reader[x] = "locking" /\ callback = None
  /\ callback' = x
  /\ reader' = [reader EXCEPT ![x] = "calling"]
  /\ UNCHANGED <<deadline, expired, main, groupVars, pipeVars, taken, handled>>

\* onLine, or logger.Log, returns
CallbackReturns(x) ==
  /\ reader[x] = "calling"
  /\ handled' = [handled EXCEPT ![x] = @ + 1]
  /\ callback' = None
  /\ reader' = [reader EXCEPT ![x] = "scanning"]
  /\ UNCHANGED <<deadline, expired, main, groupVars, pipeVars, taken>>

---------------------------------------------------------------------------
(* run *)

\* Mutation: run waits for one reader only
CollectFirst ==
  /\ main = "reading"
  /\ \E x \in Stream : reader[x] = "done"
  /\ main' = "waiting"
  /\ UNCHANGED <<deadline, expired, groupVars, pipeVars, readerVars>>

Collect ==
  /\ main = "reading"
  /\ \A x \in Stream : reader[x] = "done"
  /\ main' = "waiting"
  /\ UNCHANGED <<deadline, expired, groupVars, pipeVars, readerVars>>

\* cmd.Wait waits for the command, not for its child, and closes the pipes
Wait ==
  /\ main = "waiting" /\ Leader \notin alive
  /\ main' = "returned"
  /\ UNCHANGED <<deadline, expired, groupVars, pipeVars, readerVars>>

Next ==
  \/ Start \/ Spawn \/ Expire \/ Cancel \/ Collect \/ Wait
  \/ \E q \in Program : \/ Write(q) \/ Exit(q)
                        \/ \E x \in Stream : PrintLine(q, x)
  \/ \E x \in Stream : \/ TakeLine(x) \/ EndOfFile(x)
                       \/ LockCallback(x) \/ CallbackReturns(x)

Spec == Init /\ [][Next]_vars

(***************************************************************************)
(* The Go runtime runs every goroutine that can run, a deadline is         *)
(* reached, and a program that is not blocked on a full pipe comes to its  *)
(* end.                                                                    *)
(***************************************************************************)
Fairness ==
  /\ WF_vars(Start) /\ WF_vars(Expire) /\ WF_vars(Cancel)
  /\ WF_vars(Collect) /\ WF_vars(Wait)
  /\ \A q \in Program : WF_vars(Write(q)) /\ WF_vars(Exit(q))
  /\ \A x \in Stream :
       /\ WF_vars(TakeLine(x)) /\ WF_vars(EndOfFile(x))
       /\ WF_vars(LockCallback(x)) /\ WF_vars(CallbackReturns(x))

FairSpec == Spec /\ Fairness

---------------------------------------------------------------------------
(* Properties *)

\* Every variable has its type, and a pipe never holds more than it can
TypeOK ==
  /\ deadline \in BOOLEAN /\ expired \in BOOLEAN
  /\ main \in {"starting", "failed", "reading", "waiting", "returned"}
  /\ alive \subseteq Program /\ spawned \in BOOLEAN
  /\ wants \in [Program -> Stream \cup {None}]
  /\ written \in [Stream -> Nat] /\ long \in [Stream -> Nat]
  /\ taken \in [Stream -> Nat] /\ handled \in [Stream -> Nat]
  /\ \A x \in Stream : written[x] - taken[x] \in 0..Capacity
  /\ reader \in [Stream -> {"scanning", "locking", "calling", "done"}]
  /\ callback \in Stream \cup {None}

\* When run returns, every line written before was called back for, up to the
\* first one that was too long, also when the command was killed: the snapshot
\* and the statistics of a run are read from these lines
OutputComplete ==
  main = "returned" =>
    \A x \in Stream :
      handled[x] = IF long[x] = 0 THEN written[x] ELSE long[x] - 1

\* The callbacks of the two readers never run at once, and none runs when run
\* has returned: they change variables the caller reads without a lock
CallbackExclusive ==
  \A x \in Stream :
    reader[x] = "calling" =>
      main = "reading" /\ \A y \in Stream \ {x} : reader[y] # "calling"

\* When run returns, nothing it started still works on the repository, unless
\* every reader had stopped at a line that was too long
NothingLeftBehind ==
  main = "returned" => alive = {} \/ \A x \in Stream : long[x] # 0

\* run returns: always when its context has a deadline, and without one unless
\* a line is too long, whatever the readers and the programs wait for
RunReturns ==
  deadline \/ [](\A x \in Stream : long[x] = 0)
    => <>(main \in {"failed", "returned"})
=============================================================================
