--------------------------- MODULE ExecutorProofs ---------------------------
(***************************************************************************)
(* Theorems of Executor for every set of pipes, every capacity and any     *)
(* number of lines: what run promises its caller when it returns.          *)
(***************************************************************************)
EXTENDS Executor, TLAPS

\* Only a process that lives waits to write, and none lives before the start
GroupOK ==
  /\ \A q \in Program : wants[q] # None => q \in alive
  /\ main \in {"starting", "failed"} => alive = {}
  /\ main = "returned" => Leader \notin alive

\* A reader has not passed the line that was too long for it, and has called
\* back for every line it took but the one in its hands
ReaderOK ==
  \A x \in Stream :
    /\ long[x] # 0 => taken[x] < long[x] /\ long[x] <= written[x]
    /\ IF reader[x] \in {"locking", "calling"} THEN taken[x] = handled[x] + 1
                                               ELSE taken[x] = handled[x]
    /\ main \in {"starting", "failed"} => reader[x] = "scanning"
    /\ main \in {"waiting", "returned"} => reader[x] = "done"

\* Why a reader has stopped, which stays the reason: it met a line that was too
\* long, or it read everything and nobody is left to write more
StoppedOK ==
  \A x \in Stream : reader[x] = "done" =>
    \/ long[x] # 0 /\ long[x] = taken[x] + 1
    \/ long[x] = 0 /\ taken[x] = written[x] /\ alive = {}

\* The lock names the reader that is calling back
CallbackOK == \A x \in Stream : reader[x] = "calling" => callback = x

IInv == TypeOK /\ GroupOK /\ ReaderOK /\ StoppedOK /\ CallbackOK

---------------------------------------------------------------------------
\* The invariant holds at first
LEMMA InitIInv == Init => IInv
<1> SUFFICES ASSUME Init PROVE IInv
  OBVIOUS
<1>1. TypeOK
  <2>1. ASSUME NEW x \in Stream PROVE written[x] - taken[x] \in 0..Capacity
    <3>1. written[x] = 0 /\ taken[x] = 0 /\ Capacity \in Nat
      BY ExecutorAssumption DEF Init
    <3> QED BY <3>1
  <2>2. wants \in [Program -> Stream \cup {None}] /\ callback \in Stream \cup {None}
    BY DEF Init
  <2>3. /\ written \in [Stream -> Nat] /\ long \in [Stream -> Nat]
        /\ taken \in [Stream -> Nat] /\ handled \in [Stream -> Nat]
    BY DEF Init
  <2>4. reader \in [Stream -> {"scanning", "locking", "calling", "done"}]
    BY DEF Init
  <2> QED BY <2>1, <2>2, <2>3, <2>4 DEF Init, TypeOK
<1>2. GroupOK /\ ReaderOK /\ StoppedOK /\ CallbackOK
  BY ExecutorAssumption DEF Init, GroupOK, ReaderOK, StoppedOK, CallbackOK
<1> QED BY <1>1, <1>2 DEF IInv

\* The steps of the command and its child
LEMMA GroupStep ==
  ASSUME IInv,
         \/ Start \/ Spawn \/ Expire \/ Cancel
         \/ \E q \in Program : Exit(q) \/ \E x \in Stream : PrintLine(q, x)
  PROVE  IInv'
<1> USE ExecutorAssumption DEF IInv, Program
<1>1. CASE Start
  <2>1. TypeOK'
    BY <1>1 DEF Start, TypeOK, pipeVars, readerVars
  <2> QED
    BY <1>1, <2>1 DEF Start, TypeOK, GroupOK, ReaderOK, StoppedOK, CallbackOK,
                      pipeVars, readerVars
<1>2. CASE Spawn
  <2>1. TypeOK'
    BY <1>2 DEF Spawn, TypeOK, pipeVars, readerVars
  <2> QED
    BY <1>2, <2>1 DEF Spawn, TypeOK, GroupOK, ReaderOK, StoppedOK, CallbackOK,
                      pipeVars, readerVars
<1>3. CASE Expire
  BY <1>3 DEF Expire, TypeOK, GroupOK, ReaderOK, StoppedOK, CallbackOK,
              groupVars, pipeVars, readerVars
<1>4. CASE Cancel
  <2>1. TypeOK'
    BY <1>4 DEF Cancel, Kill, TypeOK, pipeVars, readerVars
  <2>2. alive' = {} /\ \A q \in Program : wants'[q] = None
    BY <1>4 DEF Cancel, Kill, TypeOK
  <2> QED
    BY <1>4, <2>1, <2>2 DEF Cancel, Kill, TypeOK, GroupOK, ReaderOK, StoppedOK,
                            CallbackOK, pipeVars, readerVars
<1>5. ASSUME NEW q \in Program, Exit(q)
      PROVE  IInv'
  <2>1. TypeOK'
    BY <1>5 DEF Exit, TypeOK, pipeVars, readerVars
  <2> QED
    BY <1>5, <2>1 DEF Exit, TypeOK, GroupOK, ReaderOK, StoppedOK, CallbackOK,
                      pipeVars, readerVars
<1>6. ASSUME NEW q \in Program, NEW x \in Stream, PrintLine(q, x)
      PROVE  IInv'
  <2>1. TypeOK'
    BY <1>6 DEF PrintLine, TypeOK, pipeVars, readerVars
  <2> QED
    BY <1>6, <2>1 DEF PrintLine, TypeOK, GroupOK, ReaderOK, StoppedOK, CallbackOK,
                      pipeVars, readerVars
<1> QED BY <1>1, <1>2, <1>3, <1>4, <1>5, <1>6

\* A line is written only while a reader may still come to it
LEMMA WriteStep ==
  ASSUME IInv, NEW q \in Program, Write(q)
  PROVE  IInv'
<1> DEFINE x == wants[q]
<1> USE ExecutorAssumption DEF IInv
<1>1. x \in Stream /\ q \in alive
  BY DEF Write, TypeOK, GroupOK
<1>2. /\ written' = [written EXCEPT ![x] = @ + 1]
      /\ written[x] \in Nat /\ taken[x] \in Nat /\ long[x] \in Nat
      /\ \/ long' = long
         \/ long[x] = 0 /\ long' = [long EXCEPT ![x] = written[x] + 1]
      /\ written[x] - taken[x] \in 0 .. Capacity - 1
      /\ wants' = [wants EXCEPT ![q] = None]
      /\ UNCHANGED <<deadline, expired, main, alive, spawned, readerVars>>
  BY <1>1 DEF Write, TypeOK
<1>3. TypeOK'
  BY <1>1, <1>2 DEF TypeOK, readerVars
<1>4. GroupOK'
  BY <1>2 DEF TypeOK, GroupOK
<1>5. ReaderOK'
  BY <1>1, <1>2 DEF TypeOK, ReaderOK, readerVars
<1>6. StoppedOK'
  BY <1>1, <1>2 DEF TypeOK, StoppedOK, readerVars
<1>7. CallbackOK'
  BY <1>2 DEF CallbackOK, readerVars
<1> QED BY <1>3, <1>4, <1>5, <1>6, <1>7

\* The steps of the readers
LEMMA ReaderStep ==
  ASSUME IInv, NEW x \in Stream,
         TakeLine(x) \/ EndOfFile(x) \/ LockCallback(x) \/ CallbackReturns(x)
  PROVE  IInv'
<1> USE ExecutorAssumption DEF IInv
<1>0. written[x] \in Nat /\ taken[x] \in Nat /\ handled[x] \in Nat /\ long[x] \in Nat
  BY DEF TypeOK
<1>1. CASE TakeLine(x)
  <2>1. TypeOK'
    BY <1>0, <1>1 DEF TakeLine, TypeOK, groupVars, pipeVars
  <2>2. GroupOK'
    BY <1>1 DEF TakeLine, GroupOK, groupVars
  <2>3. ReaderOK' /\ StoppedOK'
    BY <1>0, <1>1 DEF TakeLine, TypeOK, ReaderOK, StoppedOK, groupVars, pipeVars
  <2>4. CallbackOK'
    BY <1>1 DEF TakeLine, TypeOK, CallbackOK
  <2> QED BY <2>1, <2>2, <2>3, <2>4
<1>2. CASE EndOfFile(x)
  <2>1. TypeOK'
    BY <1>2 DEF EndOfFile, TypeOK, groupVars, pipeVars
  <2>2. GroupOK' /\ CallbackOK'
    BY <1>2 DEF EndOfFile, TypeOK, GroupOK, CallbackOK, groupVars
  <2>3. ReaderOK' /\ StoppedOK'
    BY <1>0, <1>2 DEF EndOfFile, TypeOK, ReaderOK, StoppedOK, groupVars, pipeVars
  <2> QED BY <2>1, <2>2, <2>3
<1>3. CASE LockCallback(x)
  <2>1. TypeOK'
    BY <1>3 DEF LockCallback, TypeOK, groupVars, pipeVars
  <2>2. GroupOK' /\ CallbackOK'
    BY <1>3 DEF LockCallback, TypeOK, GroupOK, CallbackOK, groupVars
  <2>3. ReaderOK' /\ StoppedOK'
    BY <1>3 DEF LockCallback, TypeOK, ReaderOK, StoppedOK, groupVars, pipeVars
  <2> QED BY <2>1, <2>2, <2>3
<1>4. CASE CallbackReturns(x)
  <2>0. callback = x /\ \A y \in Stream \ {x} : reader[y] # "calling"
    BY <1>4 DEF CallbackReturns, CallbackOK
  <2>1. TypeOK'
    BY <1>0, <1>4 DEF CallbackReturns, TypeOK, groupVars, pipeVars
  <2>2. GroupOK' /\ CallbackOK'
    BY <1>4, <2>0 DEF CallbackReturns, TypeOK, GroupOK, CallbackOK, groupVars
  <2>3. ReaderOK' /\ StoppedOK'
    BY <1>0, <1>4 DEF CallbackReturns, TypeOK, ReaderOK, StoppedOK, groupVars, pipeVars
  <2> QED BY <2>1, <2>2, <2>3
<1> QED BY <1>1, <1>2, <1>3, <1>4

\* run collects its readers and the command
LEMMA MainStep ==
  ASSUME IInv, Collect \/ Wait
  PROVE  IInv'
<1> USE DEF IInv
<1>1. CASE Collect
  BY <1>1 DEF Collect, TypeOK, GroupOK, ReaderOK, StoppedOK, CallbackOK,
              groupVars, pipeVars, readerVars
<1>2. CASE Wait
  BY <1>2 DEF Wait, TypeOK, GroupOK, ReaderOK, StoppedOK, CallbackOK,
              groupVars, pipeVars, readerVars
<1> QED BY <1>1, <1>2

\* The invariant holds in every behaviour
LEMMA IInvInvariant == Spec => []IInv
<1>1. IInv /\ [Next]_vars => IInv'
  <2>1. IInv /\ Next => IInv'
    BY GroupStep, WriteStep, ReaderStep, MainStep DEF Next
  <2>2. IInv /\ UNCHANGED vars => IInv'
    BY DEF vars, IInv, TypeOK, GroupOK, ReaderOK, StoppedOK, CallbackOK
  <2> QED BY <2>1, <2>2
<1> QED BY InitIInv, <1>1, PTL DEF Spec

---------------------------------------------------------------------------
\* Every variable keeps its type, and no pipe holds more than it can
THEOREM TypeCorrect == Spec => []TypeOK
<1>1. IInv => TypeOK
  BY DEF IInv
<1> QED BY <1>1, IInvInvariant, PTL

\* The two readers' callbacks exclude each other and end before run returns
THEOREM CallbacksExclude == Spec => []CallbackExclusive
<1>1. IInv => CallbackExclusive
  <2> SUFFICES ASSUME IInv, NEW x \in Stream, reader[x] = "calling"
               PROVE  main = "reading" /\ \A y \in Stream \ {x} : reader[y] # "calling"
    BY DEF CallbackExclusive
  <2>1. main = "reading"
    BY DEF IInv, TypeOK, ReaderOK
  <2>2. \A y \in Stream \ {x} : reader[y] # "calling"
    BY DEF IInv, CallbackOK
  <2> QED BY <2>1, <2>2
<1> QED BY <1>1, IInvInvariant, PTL

\* When run returns, every line up to the first over-long one was called back for
THEOREM OutputIsComplete == Spec => []OutputComplete
<1>1. IInv => OutputComplete
  <2> SUFFICES ASSUME IInv, main = "returned", NEW x \in Stream
               PROVE  handled[x] = IF long[x] = 0 THEN written[x] ELSE long[x] - 1
    BY DEF OutputComplete
  <2>1. reader[x] = "done" /\ taken[x] = handled[x]
    BY DEF IInv, ReaderOK
  <2>2. \/ long[x] # 0 /\ long[x] = taken[x] + 1
        \/ long[x] = 0 /\ taken[x] = written[x]
    BY <2>1 DEF IInv, StoppedOK
  <2>3. taken[x] \in Nat /\ long[x] \in Nat
    BY DEF IInv, TypeOK
  <2> QED BY <2>1, <2>2, <2>3
<1> QED BY <1>1, IInvInvariant, PTL

\* When run returns, no process it started is left, unless every reader had
\* stopped at an over-long line
THEOREM NothingRemains == Spec => []NothingLeftBehind
<1>1. IInv => NothingLeftBehind
  BY DEF IInv, NothingLeftBehind, ReaderOK, StoppedOK
<1> QED BY <1>1, IInvInvariant, PTL
=============================================================================
