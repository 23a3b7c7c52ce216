------------------------- MODULE TaskWrapper_proofs -------------------------
(***************************************************************************)
(* Proofs about TaskWrapper, for any number of wrappers, any pipe and any  *)
(* set of faults: the bookkeeping that makes the report of an end reliable,*)
(* that a full pipe is read, and that the wrapper implements OneShotTask,  *)
(* its fairness included.                                                  *)
(***************************************************************************)
EXTENDS TaskWrapper, TLAPS, WellFoundedInduction

(* Before startTask nothing of a wrapper exists.                           *)
Untouched(w) ==
    calls[w].starts = 0 =>
        /\ w \notin held \union delegate \union observing \union reading \union asked
        /\ proc[w] = "none" /\ notice[w] = NoNotice
        /\ pipe[w] = 0 /\ made[w] = 0 /\ calls[w] = NoCalls

(* The delegate is connected from the start of the task to the one report  *)
(* of its end.                                                             *)
Connected(w) == w \in delegate <=> calls[w].starts = 1 /\ calls[w].finishes = 0

(* A process exists only after startTask.                                  *)
Observed(w) == w \in observing => w \in held /\ w \in delegate

(* The pieces the delegate has not seen.                                   *)
InNotice(w) == IF notice[w] = NoNotice THEN 0 ELSE notice[w]
Accounted(w) == w \in observing => made[w] = calls[w].outputs + pipe[w] + InNotice(w)

(* The end of file is announced only when nothing can follow it.           *)
TrueEnd(w) == notice[w] = 0 => proc[w] = "exited" /\ pipe[w] = 0

(* A read is armed or its result is on its way, not both.                  *)
OneRead(w) == w \in reading => notice[w] = NoNotice

(* The report of an end nobody asked for.                                  *)
TrueReport(w) ==
    calls[w].finishes = 1 /\ w \notin asked =>
        proc[w] = "exited" /\ calls[w].outputs = made[w]

WInv(w) ==
    /\ Untouched(w)
    /\ Connected(w)
    /\ Observed(w)
    /\ Accounted(w)
    /\ TrueEnd(w)
    /\ OneRead(w)
    /\ TrueReport(w)

IInv == TypeOK /\ \A w \in Wrappers : WInv(w)

USE TaskWrapperAssumption DEF NoNotice

LEMMA InitInv == Init => IInv
  BY DEF Init, IInv, TypeOK, WInv, Untouched, Connected, Observed, Accounted, InNotice,
         TrueEnd, OneRead, TrueReport, ProcStates, NoCalls

(* A step of one wrapper leaves the state of the others alone.             *)
Same(w) ==
    /\ w \in held' <=> w \in held
    /\ w \in delegate' <=> w \in delegate
    /\ w \in observing' <=> w \in observing
    /\ w \in reading' <=> w \in reading
    /\ w \in asked' <=> w \in asked
    /\ notice'[w] = notice[w]
    /\ proc'[w] = proc[w]
    /\ pipe'[w] = pipe[w]
    /\ made'[w] = made[w]
    /\ calls'[w] = calls[w]

Step(w) == MainThread(w) \/ ReadCompletes(w) \/ Child(w)

(* The invariant of a wrapper speaks of that wrapper's state only.         *)
LEMMA SameInv ==
  ASSUME NEW w \in Wrappers, WInv(w), Same(w)
  PROVE  WInv(w)'
  BY DEF WInv, Same, Untouched, Connected, Observed, Accounted, InNotice, TrueEnd, OneRead,
         TrueReport

LEMMA OthersSame ==
  ASSUME TypeOK, NEW w \in Wrappers, NEW v \in Wrappers, v # w, Step(w)
  PROVE  Same(v)
  <1>1. CASE Launch(w)
    BY <1>1 DEF Launch, Same, TypeOK
  <1>2. CASE Stop(w)
    BY <1>2 DEF Stop, StopEffect, Same, TypeOK
  <1>3. CASE Release(w)
    BY <1>3 DEF Release, StopEffect, Same, TypeOK
  <1>4. CASE Data(w)
    BY <1>4 DEF Data, SendDataToDelegate, Same, TypeOK
  <1>5. CASE EndOfFile(w)
    BY <1>5 DEF EndOfFile, StopEffect, Same, TypeOK
  <1>6. CASE Drop(w)
    BY <1>6 DEF Drop, Same, TypeOK
  <1>7. CASE ReadCompletes(w)
    BY <1>7 DEF ReadCompletes, Same, TypeOK
  <1>8. CASE Write(w)
    BY <1>8 DEF Write, Same, TypeOK
  <1>9. CASE Exit(w)
    BY <1>9 DEF Exit, Same, TypeOK
  <1> QED
    BY <1>1, <1>2, <1>3, <1>4, <1>5, <1>6, <1>7, <1>8, <1>9 DEF Step, MainThread, Delivered, Child

(* stopTask leaves the wrapper it stops consistent, whoever calls it: the  *)
(* owner, or the handler of the end of file.                               *)
LEMMA StepInv ==
  ASSUME IInv, NEW w \in Wrappers, Step(w)
  PROVE  TypeOK' /\ WInv(w)'
  <1> USE DEF IInv, TypeOK, WInv, Untouched, Connected, Observed, Accounted, InNotice, TrueEnd,
              OneRead, TrueReport, ProcStates, NoCalls
  <1>1. CASE Launch(w)
    BY <1>1 DEF Launch
  <1>2. CASE Stop(w)
    BY <1>2 DEF Stop, StopEffect
  <1>3. CASE Release(w)
    BY <1>3 DEF Release, StopEffect
  <1>4. CASE Data(w)
    BY <1>4 DEF Data, SendDataToDelegate
  <1>5. CASE EndOfFile(w)
    <2>1. /\ w \in delegate /\ w \in held /\ w \notin reading
          /\ proc[w] = "exited" /\ pipe[w] = 0 /\ notice[w] = 0
          /\ calls[w].starts = 1 /\ calls[w].finishes = 0
          /\ calls[w].outputs = made[w]
      BY <1>5 DEF EndOfFile
    <2>2. /\ observing' = observing \ {w}
          /\ delegate' = delegate \ {w}
          /\ proc' = [proc EXCEPT ![w] = proc[w]]
          /\ calls' = [calls EXCEPT ![w].finishes = 1]
          /\ notice' = [notice EXCEPT ![w] = NoNotice]
          /\ UNCHANGED <<held, reading, pipe, made, asked>>
      BY <1>5, <2>1 DEF EndOfFile, StopEffect
    <2>3. TypeOK'
      BY <2>1, <2>2
    <2>4. WInv(w)'
      BY <2>1, <2>2
    <2> QED
      BY <2>3, <2>4
  <1>6. CASE Drop(w)
    BY <1>6 DEF Drop
  <1>7. CASE ReadCompletes(w)
    BY <1>7 DEF ReadCompletes
  <1>8. CASE Write(w)
    <2>1. /\ proc[w] \in {"running", "dying"}
          /\ pipe[w] + 1 \in 0 .. PipeCapacity
          /\ made[w] + 1 \in 0 .. MaxOutput
          /\ pipe' = [pipe EXCEPT ![w] = pipe[w] + 1]
          /\ made' = [made EXCEPT ![w] = made[w] + 1]
          /\ UNCHANGED <<held, delegate, observing, reading, notice, proc, calls, asked>>
      BY <1>8 DEF Write, Alive
    <2>2. TypeOK'
      BY <2>1
    <2>3. WInv(w)'
      BY <2>1
    <2> QED
      BY <2>2, <2>3
  <1>9. CASE Exit(w)
    <2>1. /\ proc[w] \in {"running", "dying"}
          /\ proc' = [proc EXCEPT ![w] = "exited"]
          /\ UNCHANGED <<held, delegate, observing, reading, notice, pipe, made, calls, asked>>
      BY <1>9 DEF Exit, Alive
    <2>2. TypeOK'
      BY <2>1
    <2>3. WInv(w)'
      BY <2>1
    <2> QED
      BY <2>2, <2>3
  <1> QED
    BY <1>1, <1>2, <1>3, <1>4, <1>5, <1>6, <1>7, <1>8, <1>9 DEF Step, MainThread, Delivered, Child

LEMMA NextInv == IInv /\ [Next]_vars => IInv'
  <1> SUFFICES ASSUME IInv, [Next]_vars PROVE IInv'
    OBVIOUS
  <1>1. CASE UNCHANGED vars
    BY <1>1 DEF vars, IInv, TypeOK, WInv, Untouched, Connected, Observed, Accounted, InNotice,
                TrueEnd, OneRead, TrueReport
  <1>2. CASE Next
    <2>1. PICK w \in Wrappers : Step(w)
      BY <1>2 DEF Next, Step
    <2>2. TypeOK' /\ WInv(w)'
      BY <2>1, StepInv
    <2>3. ASSUME NEW v \in Wrappers, v # w PROVE WInv(v)'
      <3>1. Same(v)
        BY <2>1, <2>3, OthersSame DEF IInv
      <3> QED
        BY <3>1, SameInv DEF IInv
    <2> QED
      BY <2>2, <2>3 DEF IInv
  <1> QED
    BY <1>1, <1>2

LEMMA Invariant == SafeSpec => []IInv
  BY InitInv, NextInv, PTL DEF SafeSpec

-----------------------------------------------------------------------------
(* Every variable keeps to its type: the counters of calls stay at one     *)
(* start and one end, and the pipe never overflows.                        *)
THEOREM TypeCorrect == SafeSpec => []TypeOK
  BY Invariant, PTL DEF IInv

(* A process whose end was reported unasked is over and was heard out.     *)
THEOREM EndReportsAreTrue == SafeSpec => []FinishedByItself
  <1>1. IInv => FinishedByItself
    BY DEF IInv, WInv, TrueReport, FinishedByItself
  <1> QED
    BY <1>1, Invariant, PTL

(* Output reaches the delegate complete and in order while it is wanted.   *)
THEOREM OutputIsComplete == SafeSpec => []NothingSkipped
  <1>1. IInv => NothingSkipped
    BY DEF IInv, TypeOK, WInv, Accounted, InNotice, NothingSkipped
  <1> QED
    BY <1>1, Invariant, PTL

(* dealloc leaves no weak reference behind in the notification center.     *)
THEOREM ObserversAreHeld == SafeSpec => []NoDanglingObserver
  <1>1. IInv => NoDanglingObserver
    BY DEF IInv, TypeOK, WInv, Observed, NoDanglingObserver
  <1> QED
    BY <1>1, Invariant, PTL

(* The report of the end is the last call a delegate gets.                 *)
THEOREM EndIsLast == SafeSpec => NothingAfterFinish
  <1>1. ASSUME IInv, [Next]_vars, NEW v \in Wrappers, calls[v].finishes = 1
        PROVE  calls'[v] = calls[v]
    <2>1. CASE UNCHANGED vars
      BY <2>1 DEF vars
    <2>2. CASE Next
      <3>1. PICK w \in Wrappers : Step(w)
        BY <2>2 DEF Next, Step
      <3>2. CASE v # w
        BY <1>1, <3>1, <3>2, OthersSame DEF IInv, Same
      <3>3. CASE v = w
        <4>1. v \notin delegate /\ v \notin observing /\ calls[v].starts = 1
          BY <1>1 DEF IInv, TypeOK, WInv, Connected, Observed, Untouched, NoCalls
        <4>2. calls \in [Wrappers -> [starts : {0, 1}, outputs : 0 .. MaxOutput, finishes : {0, 1}]]
          BY <1>1 DEF IInv, TypeOK
        <4> QED
          BY <3>1, <3>3, <4>1, <4>2
          DEF Step, MainThread, Delivered, Child, Launch, Stop, Release, StopEffect, Data,
              SendDataToDelegate, EndOfFile, Drop, ReadCompletes, Write, Exit
      <3> QED
        BY <3>2, <3>3
    <2> QED
      BY <1>1, <2>1, <2>2
  <1>2. IInv /\ [Next]_vars
          => [\A w \in Wrappers : calls[w].finishes = 1 => calls'[w] = calls[w]]_vars
    BY <1>1
  <1> QED
    BY <1>2, Invariant, PTL DEF SafeSpec, NothingAfterFinish

-----------------------------------------------------------------------------
(* A delegate that never raises keeps the reading loop alive.              *)
THEOREM LoopIsKept ==
  ASSUME "handler" \notin Faults
  PROVE  SafeSpec => []ReaderKeepsReading
  <1>1. Init => ReaderKeepsReading
    BY DEF Init, ReaderKeepsReading
  <1>2. IInv /\ ReaderKeepsReading /\ [Next]_vars => ReaderKeepsReading'
    <2> SUFFICES ASSUME IInv, ReaderKeepsReading, [Next]_vars PROVE ReaderKeepsReading'
      OBVIOUS
    <2>1. CASE UNCHANGED vars
      BY <2>1 DEF vars, ReaderKeepsReading
    <2>2. CASE Next
      <3>1. PICK w \in Wrappers : Step(w)
        BY <2>2 DEF Next, Step
      <3>2. w \in observing' => ((w \in reading') # (notice'[w] # NoNotice))
        BY <3>1
        DEF IInv, TypeOK, WInv, Untouched, ReaderKeepsReading, Step, MainThread, Delivered, Child, Launch,
            Stop, Release, StopEffect, Data, SendDataToDelegate, EndOfFile, Drop, ReadCompletes, Write, Exit
      <3>3. ASSUME NEW v \in observing', v # w
            PROVE  (v \in reading') # (notice'[v] # NoNotice)
        <4>1. TypeOK'
          BY <3>1, StepInv
        <4>2. v \in Wrappers
          BY <4>1 DEF TypeOK
        <4>3. Same(v)
          BY <3>1, <3>3, <4>2, OthersSame DEF IInv
        <4> QED
          BY <3>3, <4>3 DEF Same, ReaderKeepsReading
      <3> QED
        BY <3>2, <3>3 DEF ReaderKeepsReading
    <2> QED
      BY <2>1, <2>2
  <1> QED
    BY <1>1, <1>2, Invariant, PTL DEF SafeSpec

-----------------------------------------------------------------------------
(* Refinement.  Without a launch that raises, whoever was started has a    *)
(* process.                                                                *)
HasProcess == \A w \in Wrappers : calls[w].starts = 1 => proc[w] # "none"

Over == {w \in Wrappers : proc[w] = "exited"}

LEMMA HasProcessInv ==
  ASSUME "launch" \notin Faults
  PROVE  SafeSpec => []HasProcess
  <1>1. Init => HasProcess
    BY DEF Init, HasProcess, NoCalls
  <1>2. IInv /\ HasProcess /\ [Next]_vars => HasProcess'
    <2> SUFFICES ASSUME IInv, HasProcess, [Next]_vars PROVE HasProcess'
      OBVIOUS
    <2>1. CASE UNCHANGED vars
      BY <2>1 DEF vars, HasProcess
    <2>2. CASE Next
      <3>1. PICK w \in Wrappers : Step(w)
        BY <2>2 DEF Next, Step
      <3>2. calls'[w].starts = 1 => proc'[w] # "none"
        BY <3>1
        DEF IInv, TypeOK, HasProcess, Step, MainThread, Delivered, Child, Launch, Stop, Release, StopEffect,
            Data, SendDataToDelegate, EndOfFile, Drop, ReadCompletes, Write, Exit, Alive
      <3>3. ASSUME NEW v \in Wrappers, v # w
            PROVE  calls'[v].starts = 1 => proc'[v] # "none"
        <4>1. Same(v)
          BY <3>1, <3>3, OthersSame DEF IInv
        <4> QED
          BY <4>1 DEF Same, HasProcess
      <3> QED
        BY <3>2, <3>3 DEF HasProcess
    <2> QED
      BY <2>1, <2>2
  <1> QED
    BY <1>1, <1>2, Invariant, PTL DEF SafeSpec

(* What the handler of the notification does is what the contract owes:    *)
(* output is heard, an end is complete.                                    *)
LEMMA DataIsHeard ==
  ASSUME IInv, NEW w \in Wrappers, Data(w)
  PROVE  Contract!Hear(w)
  <1> USE DEF IInv, TypeOK
  <1>1. /\ calls[w].starts = 1 /\ calls[w].finishes = 0
        /\ made[w] = calls[w].outputs + pipe[w] + notice[w]
        /\ w \in delegate
    BY DEF Data, SendDataToDelegate, WInv, Connected, Observed, Accounted, InNotice
  <1>2. /\ Over' = Over
        /\ UNCHANGED <<made, asked>>
        /\ calls' = [calls EXCEPT ![w].outputs = calls[w].outputs + notice[w]]
        /\ notice[w] > 0
    BY <1>1 DEF Data, SendDataToDelegate, Over
  <1>3. calls[w].outputs + notice[w] \in (calls[w].outputs + 1) .. made[w]
    BY <1>1, <1>2
  <1>4. \E heard \in (calls[w].outputs + 1) .. made[w] :
           calls' = [calls EXCEPT ![w].outputs = heard]
    BY <1>2, <1>3
  <1>5. Contract!Started(w) /\ ~ Contract!Reported(w)
    BY <1>1 DEF Contract!Started, Contract!Reported
  <1> QED
    BY <1>2, <1>4, <1>5, Zenon DEF Contract!Hear, Over

LEMMA EndIsComplete ==
  ASSUME IInv, NEW w \in Wrappers, EndOfFile(w)
  PROVE  Contract!Complete(w)
  <1> USE DEF IInv, TypeOK
  <1>1. /\ calls[w].starts = 1 /\ calls[w].finishes = 0
        /\ w \in delegate
        /\ calls[w].outputs = made[w]
        /\ proc[w] = "exited"
    BY DEF EndOfFile, WInv, Connected, Observed, Accounted, InNotice, TrueEnd
  <1>2. /\ proc' = [proc EXCEPT ![w] = proc[w]]
        /\ calls' = [calls EXCEPT ![w].finishes = 1]
        /\ UNCHANGED <<made, asked>>
    BY <1>1 DEF EndOfFile, StopEffect
  <1>3. proc' = proc
    BY <1>2
  <1> QED
    BY <1>1, <1>2, <1>3 DEF Contract!Complete, Contract!Started, Contract!Reported

(* Every step of a wrapper is a step of the contract or none: the pipe, the*)
(* armed read and the notification are invisible to the delegate.          *)
LEMMA StepRefines ==
  ASSUME IInv, HasProcess, "launch" \notin Faults, NEW w \in Wrappers, Step(w)
  PROVE  Contract!Next \/ UNCHANGED <<calls, made, Over, asked>>
  <1> USE DEF IInv, TypeOK
  <1>1. CASE Launch(w)
    <2>1. calls[w] = NoCalls /\ proc[w] = "none"
      BY <1>1 DEF Launch, WInv, Untouched
    <2>2. Over' = Over
      BY <1>1, <2>1 DEF Launch, Over
    <2>3. Contract!Begin(w)
      BY <1>1, <2>1, <2>2 DEF Launch, Contract!Begin, Contract!NoCalls, NoCalls, Over
    <2> QED
      BY <2>3 DEF Contract!Next
  <1>2. ASSUME StopEffect(w), w \in held
        PROVE  /\ calls[w].starts = 1
               /\ Over' = Over
               /\ calls' = [calls EXCEPT ![w].finishes = 1]
    <2>1. calls[w].starts = 1 /\ proc[w] # "none"
      BY <1>2 DEF WInv, Untouched, HasProcess
    <2>2. Over' = Over
      <3>1. proc' = [proc EXCEPT ![w] = IF proc[w] = "running" THEN "dying" ELSE proc[w]]
        BY <1>2, <2>1 DEF StopEffect
      <3>2. \A v \in Wrappers : proc'[v] = "exited" <=> proc[v] = "exited"
        BY <3>1
      <3> QED
        BY <3>2 DEF Over
    <2>3. IF w \in delegate THEN calls[w].finishes = 0 ELSE calls[w].finishes = 1
      BY <2>1 DEF WInv, Connected
    <2>4. calls' = [calls EXCEPT ![w].finishes = 1]
      BY <1>2, <2>1, <2>3 DEF StopEffect
    <2> QED
      BY <2>1, <2>2, <2>4
  <1>3. CASE Stop(w)
    <2>1. StopEffect(w) /\ w \in held /\ asked' = asked \union {w} /\ UNCHANGED made
      BY <1>3 DEF Stop
    <2>2. Contract!Stop(w)
      BY <1>2, <2>1 DEF Contract!Stop, Contract!Started, Over
    <2> QED
      BY <2>2 DEF Contract!Next
  <1>4. CASE Release(w)
    <2>1. StopEffect(w) /\ w \in held /\ asked' = asked \union {w} /\ UNCHANGED made
      BY <1>4 DEF Release
    <2>2. Contract!Stop(w)
      BY <1>2, <2>1 DEF Contract!Stop, Contract!Started, Over
    <2> QED
      BY <2>2 DEF Contract!Next
  <1>5. CASE Data(w)
    BY <1>5, DataIsHeard DEF Contract!Next
  <1>6. CASE EndOfFile(w)
    BY <1>6, EndIsComplete DEF Contract!Next
  <1>7. CASE Drop(w)
    BY <1>7 DEF Drop, Over
  <1>8. CASE ReadCompletes(w)
    BY <1>8 DEF ReadCompletes, Over
  <1>9. CASE Write(w)
    <2>1. calls[w].starts = 1 /\ w \notin Over
      BY <1>9 DEF Write, Alive, WInv, Untouched, Over
    <2>2. Contract!Produce(w)
      BY <1>9, <2>1 DEF Write, Contract!Produce, Contract!Started, Over
    <2> QED
      BY <2>2 DEF Contract!Next
  <1>10. CASE Exit(w)
    <2>1. calls[w].starts = 1 /\ w \notin Over
      BY <1>10 DEF Exit, Alive, WInv, Untouched, Over
    <2>2. Over' = Over \union {w}
      BY <1>10 DEF Exit, Over
    <2>3. Contract!End(w)
      BY <1>10, <2>1, <2>2 DEF Exit, Contract!End, Contract!Started, Over
    <2> QED
      BY <2>3 DEF Contract!Next
  <1> QED
    BY <1>1, <1>3, <1>4, <1>5, <1>6, <1>7, <1>8, <1>9, <1>10 DEF Step, MainThread, Delivered, Child

(* The wrapper keeps the promises of its headers, whatever its delegate    *)
(* does, as long as the binary it is given exists.                         *)
THEOREM WrapperImplementsContract ==
  ASSUME "launch" \notin Faults
  PROVE  SafeSpec => ImplementsContract
  <1>1. Init => Contract!Init
    BY DEF Init, Contract!Init, NoCalls, Contract!NoCalls
  <1>2. IInv /\ HasProcess /\ [Next]_vars => [Contract!Next]_(Contract!vars)
    <2> SUFFICES ASSUME IInv, HasProcess, [Next]_vars
                 PROVE  Contract!Next \/ UNCHANGED <<calls, made, Over, asked>>
      BY DEF Contract!vars, Over
    <2>1. CASE UNCHANGED vars
      BY <2>1 DEF vars, Over
    <2>2. CASE Next
      <3>1. PICK w \in Wrappers : Step(w)
        BY <2>2 DEF Next, Step
      <3> QED
        BY <3>1, StepRefines
    <2> QED
      BY <2>1, <2>2
  <1> QED
    BY <1>1, <1>2, Invariant, HasProcessInv, PTL
    DEF SafeSpec, ImplementsContract, Contract!SafeSpec

-----------------------------------------------------------------------------
(* Liveness.  Weak fairness says something of an action only while it is   *)
(* enabled, and ENABLED is a word the prover does not expand.  What it     *)
(* takes is therefore a hypothesis, of one wrapper: a read that is armed   *)
(* on a pipe with something in it, or at the end of its process, can       *)
(* complete, and a notification can be delivered or dropped.  It is true   *)
(* by the shape of the actions, whose primed variables are all assigned.   *)
CanCarry(w) ==
    /\ [](w \in reading /\ (pipe[w] > 0 \/ proc[w] = "exited")
            => ENABLED <<ReadCompletes(w)>>_vars)
    /\ [](notice[w] # NoNotice
            => ENABLED <<Delivered(w)>>_vars)

(* Who was started and neither stopped nor let go still listens, unless    *)
(* the end was reported: then the process is over and its pipe is empty.   *)
(* Who was stopped while it had a process was told of the end, and what    *)
(* has no process wrote nothing.                                           *)
Listens(w) ==
    /\ calls[w].starts = 1 /\ w \notin asked /\ w \notin observing =>
           calls[w].finishes = 1 /\ proc[w] = "exited" /\ pipe[w] = 0
    /\ w \in asked /\ proc[w] # "none" => calls[w].finishes = 1
    /\ proc[w] = "none" => made[w] = 0

LiveInv == IInv /\ ReaderKeepsReading /\ \A w \in Wrappers : Listens(w)

LEMMA LiveInvariant ==
  ASSUME "handler" \notin Faults
  PROVE  SafeSpec => []LiveInv
  <1> DEFINE All == \A w \in Wrappers : Listens(w)
  <1>1. Init => All
    <2> SUFFICES ASSUME Init, NEW w \in Wrappers PROVE Listens(w)
      OBVIOUS
    <2>1. calls[w].starts = 0 /\ asked = {} /\ made[w] = 0
      BY DEF Init, NoCalls
    <2> QED
      BY <2>1 DEF Listens
  <1>2. IInv /\ All /\ [Next]_vars => All'
    <2> SUFFICES ASSUME IInv, All, [Next]_vars PROVE All'
      OBVIOUS
    <2>1. CASE UNCHANGED vars
      BY <2>1 DEF vars, Listens
    <2>2. CASE Next
      <3>1. PICK w \in Wrappers : Step(w)
        BY <2>2 DEF Next, Step
      <3>2. Listens(w)'
        BY <3>1
        DEF IInv, TypeOK, WInv, Untouched, Connected, Observed, TrueEnd, Listens, Step, MainThread,
            Delivered, Child, Launch, Stop, Release, StopEffect, Data, SendDataToDelegate,
            EndOfFile, Drop, ReadCompletes, Write, Exit, Alive
      <3>3. ASSUME NEW v \in Wrappers, v # w PROVE Listens(v)'
        BY <3>1, <3>3, OthersSame DEF IInv, Same, Listens
      <3> QED
        BY <3>2, <3>3
    <2> QED
      BY <2>1, <2>2
  <1>3. IInv /\ ReaderKeepsReading /\ All => LiveInv
    BY DEF LiveInv
  <1> QED
    BY <1>1, <1>2, <1>3, Invariant, LoopIsKept, PTL DEF SafeSpec

(* A pipe with k pieces that nothing is added to: it is full, or its       *)
(* process is over.  Data is on its way, a read is armed, or the end is on *)
(* its way; and what is to come of it.                                     *)
Quiet(w, k) == k = PipeCapacity \/ proc[w] = "exited"
Stuck(w, k) == w \in observing /\ pipe[w] = k /\ Quiet(w, k)
Told(w, k)  == Stuck(w, k) /\ notice[w] > 0
Armed(w, k) == Stuck(w, k) /\ w \in reading
Final(w, k) == Stuck(w, k) /\ notice[w] = 0
Moved(w, k) == w \in asked \/ calls[w].finishes = 1 \/ (pipe[w] < k /\ Quiet(w, k))

(* A step is one of this wrapper, or leaves it alone.                      *)
LEMMA StepOfOne ==
  ASSUME LiveInv, NEW w \in Wrappers, [Next]_vars
  PROVE  UNCHANGED vars \/ Same(w) \/ Step(w)
  <1>1. ASSUME Next, ~ Step(w) PROVE Same(w)
    <2>1. PICK v \in Wrappers : Step(v)
      BY <1>1 DEF Next, Step
    <2> QED
      BY <1>1, <2>1, OthersSame DEF LiveInv, IInv
  <1> QED
    BY <1>1

LEMMA StuckStep ==
  ASSUME "handler" \notin Faults, LiveInv,
         NEW w \in Wrappers, NEW k \in 0 .. PipeCapacity, [Next]_vars
  PROVE  /\ Stuck(w, k) => Told(w, k) \/ Armed(w, k) \/ Final(w, k)
         /\ Told(w, k) => (Told(w, k) \/ Armed(w, k) \/ Moved(w, k))'
         /\ Told(w, k) /\ Delivered(w) => Armed(w, k)'
         /\ Armed(w, k) => (Armed(w, k) \/ Final(w, k) \/ Moved(w, k))'
         /\ Armed(w, k) /\ ReadCompletes(w) => (Final(w, k) \/ Moved(w, k))'
         /\ Final(w, k) => (Final(w, k) \/ Moved(w, k))'
         /\ Final(w, k) /\ Delivered(w) => Moved(w, k)'
  <1> USE DEF Stuck, Told, Armed, Final, Moved, Quiet
  <1>1. /\ notice[w] \in NoNotice .. PipeCapacity /\ pipe[w] \in 0 .. PipeCapacity
        /\ w \in observing => ((w \in reading) # (notice[w] # NoNotice))
        /\ w \in observing => /\ calls[w].starts = 1 /\ calls[w].finishes = 0
                              /\ w \in delegate /\ w \in held
        /\ notice[w] = 0 => proc[w] = "exited" /\ pipe[w] = 0
    BY DEF LiveInv, IInv, TypeOK, WInv, Observed, Connected, TrueEnd, ReaderKeepsReading
  <1>2. Stuck(w, k) => Told(w, k) \/ Armed(w, k) \/ Final(w, k)
    BY <1>1
  <1>3. Told(w, k) /\ Delivered(w) => Armed(w, k)'
    BY <1>1 DEF Delivered, Data, SendDataToDelegate, EndOfFile, Drop
  <1>4. Armed(w, k) /\ ReadCompletes(w) => (Final(w, k) \/ Moved(w, k))'
    BY <1>1 DEF ReadCompletes, LiveInv, IInv, TypeOK
  <1>5. Final(w, k) /\ Delivered(w) => Moved(w, k)'
    <2> SUFFICES ASSUME Final(w, k), Delivered(w) PROVE Moved(w, k)'
      OBVIOUS
    <2>1. EndOfFile(w) /\ proc[w] = "exited" /\ w \in delegate /\ calls[w].finishes = 0
      BY <1>1 DEF Delivered, Data, SendDataToDelegate, EndOfFile, Drop
    <2>2. calls' = [calls EXCEPT ![w].finishes = 1]
      BY <2>1 DEF EndOfFile, StopEffect
    <2> QED
      BY <2>2 DEF LiveInv, IInv, TypeOK
  <1>6. ASSUME UNCHANGED vars \/ Same(w) \/ Step(w)
        PROVE  /\ Told(w, k) => (Told(w, k) \/ Armed(w, k) \/ Moved(w, k))'
               /\ Armed(w, k) => (Armed(w, k) \/ Final(w, k) \/ Moved(w, k))'
               /\ Final(w, k) => (Final(w, k) \/ Moved(w, k))'
    <2> USE <1>1 DEF LiveInv, IInv, TypeOK
    <2>1. CASE UNCHANGED vars
      BY <2>1 DEF vars
    <2>2. CASE Same(w)
      BY <2>2 DEF Same
    <2>3. CASE Launch(w)
      BY <2>3 DEF Launch
    <2>4. CASE Stop(w) \/ Release(w)
      BY <2>4 DEF Stop, Release
    <2>5. CASE Data(w) \/ EndOfFile(w) \/ Drop(w)
      <3>1. ~ Armed(w, k)
        BY <2>5 DEF Data, SendDataToDelegate, EndOfFile, Drop
      <3> QED
        BY <1>3, <1>5, <2>5, <3>1 DEF Delivered
    <2>6. CASE ReadCompletes(w)
      <3>1. ~ Told(w, k) /\ ~ Final(w, k)
        BY <2>6 DEF ReadCompletes
      <3> QED
        BY <1>4, <2>6, <3>1
    <2>7. CASE Write(w)
      BY <2>7 DEF Write, Alive
    <2>8. CASE Exit(w)
      BY <2>8 DEF Exit, Alive
    <2> QED
      BY <1>6, <2>1, <2>2, <2>3, <2>4, <2>5, <2>6, <2>7, <2>8 DEF Step, MainThread, Delivered, Child
  <1> QED
    BY <1>2, <1>3, <1>4, <1>5, <1>6, StepOfOne

LEMMA StuckMoves ==
  ASSUME "handler" \notin Faults, NEW w \in Wrappers, NEW k \in 0 .. PipeCapacity
  PROVE  SafeSpec /\ Carried(w) /\ CanCarry(w) => (Stuck(w, k) ~> Moved(w, k))
  <1>1. LiveInv /\ [Next]_vars =>
         /\ Stuck(w, k) => Told(w, k) \/ Armed(w, k) \/ Final(w, k)
         /\ Told(w, k) => (Told(w, k) \/ Armed(w, k) \/ Moved(w, k))'
         /\ Told(w, k) /\ Delivered(w) => Armed(w, k)'
         /\ Armed(w, k) => (Armed(w, k) \/ Final(w, k) \/ Moved(w, k))'
         /\ Armed(w, k) /\ ReadCompletes(w) => (Final(w, k) \/ Moved(w, k))'
         /\ Final(w, k) => (Final(w, k) \/ Moved(w, k))'
         /\ Final(w, k) /\ Delivered(w) => Moved(w, k)'
    BY StuckStep
  <1>2. LiveInv /\ Armed(w, k) => w \in reading /\ (pipe[w] > 0 \/ proc[w] = "exited")
    BY DEF LiveInv, IInv, TypeOK, Armed, Stuck, Quiet
  <1>3. Told(w, k) \/ Final(w, k) => notice[w] # NoNotice
    BY DEF Told, Final
  <1> QED
    BY <1>1, <1>2, <1>3, LiveInvariant, PTL DEF SafeSpec, Carried, CanCarry

LEMMA FullMoves ==
  ASSUME "handler" \notin Faults, NEW w \in Wrappers,
         NEW k \in 0 .. PipeCapacity, k = PipeCapacity
  PROVE  SafeSpec /\ Carried(w) /\ CanCarry(w)
           => (pipe[w] = PipeCapacity ~> pipe[w] < PipeCapacity \/ w \in asked)
  <1> DEFINE Full == pipe[w] = PipeCapacity
             Room == pipe[w] < PipeCapacity \/ w \in asked
  <1>1. LiveInv /\ Full => Stuck(w, k) \/ Room
    BY DEF LiveInv, IInv, TypeOK, WInv, Untouched, Listens, Stuck, Quiet
  <1>2. LiveInv /\ Moved(w, k) => Room
    BY DEF LiveInv, IInv, TypeOK, WInv, Untouched, Connected, Observed, Listens, Moved, NoCalls
  <1> HIDE DEF Full, Room
  <1>3. SafeSpec /\ Carried(w) /\ CanCarry(w) => (Full ~> Room)
    BY <1>1, <1>2, LiveInvariant, StuckMoves, PTL
  <1> QED
    BY <1>3 DEF Full, Room

(* A process with a full pipe gets room again, unless its owner gave up:   *)
(* the delegate is told, the next read is armed, and that read completes.  *)
THEOREM NoPipeStaysFull ==
  ASSUME "handler" \notin Faults
  PROVE  Spec /\ (\A w \in Wrappers : CanCarry(w)) => FullPipeIsRead
  <1> SUFFICES ASSUME Spec, \A w \in Wrappers : CanCarry(w), NEW w \in Wrappers
               PROVE  pipe[w] = PipeCapacity ~> pipe[w] < PipeCapacity \/ w \in asked
    BY DEF FullPipeIsRead
  <1>1. SafeSpec /\ Carried(w) /\ CanCarry(w)
    BY DEF Spec, Fairness
  <1>2. PICK k \in 0 .. PipeCapacity : k = PipeCapacity
    OBVIOUS
  <1> QED
    BY <1>1, <1>2, FullMoves

(* A process that is over and whose end is not yet reported: what is in    *)
(* its pipe can only become less.                                          *)
Unreported(w) == proc[w] = "exited" /\ calls[w].finishes # 1
Emptier(w)    == pipe[w] \in Nat /\ pipe'[w] \in Nat /\ pipe'[w] < pipe[w]

Draining(w)     == [][Emptier(w) \/ pipe'[w] = pipe[w]]_vars /\ []<><<Emptier(w)>>_vars
PipeDescends(w) == <>Draining(w)

LEMMA OverStep ==
  ASSUME "handler" \notin Faults, NEW w \in Wrappers, LiveInv, LiveInv', [Next]_vars,
         Unreported(w), Unreported(w)'
  PROVE  /\ notice[w] > 0 \/ w \in reading \/ notice[w] = 0
         /\ Emptier(w) \/ pipe'[w] = pipe[w]
         /\ notice[w] > 0 => notice'[w] > 0 \/ w \in reading' \/ Emptier(w)
         /\ notice[w] > 0 /\ Delivered(w) => w \in reading' \/ Emptier(w)
         /\ w \in reading => w \in reading' \/ notice'[w] = 0 \/ Emptier(w)
         /\ w \in reading /\ ReadCompletes(w) => notice'[w] = 0 \/ Emptier(w)
         /\ notice[w] = 0 => notice'[w] = 0 \/ Emptier(w)
         /\ notice[w] = 0 /\ Delivered(w) => Emptier(w)
  <1>1. PICK k \in 0 .. PipeCapacity : k = pipe[w]
    BY DEF LiveInv, IInv, TypeOK
  <1>2. Stuck(w, k)
    BY <1>1 DEF LiveInv, IInv, TypeOK, WInv, Untouched, Listens, Stuck, Quiet, Unreported
  <1>3. Moved(w, k)' => Emptier(w)
    BY <1>1 DEF LiveInv, IInv, TypeOK, Listens, Moved, Unreported, Emptier
  <1>4. /\ notice[w] > 0 <=> Told(w, k)
        /\ w \in reading <=> Armed(w, k)
        /\ notice[w] = 0 <=> Final(w, k)
    BY <1>2 DEF Told, Armed, Final
  <1>5. /\ Told(w, k)' => notice'[w] > 0 /\ pipe'[w] = k
        /\ Armed(w, k)' => w \in reading' /\ pipe'[w] = k
        /\ Final(w, k)' => notice'[w] = 0 /\ pipe'[w] = k
    BY DEF Told, Armed, Final, Stuck
  <1> QED
    BY <1>1, <1>2, <1>3, <1>4, <1>5, StuckStep

LEMMA ExitIsFinal ==
  ASSUME NEW w \in Wrappers, LiveInv, [Next]_vars, proc[w] = "exited"
  PROVE  proc'[w] = "exited"
  <1>1. CASE UNCHANGED vars
    BY <1>1 DEF vars
  <1>2. CASE Next
    <2>1. PICK v \in Wrappers : Step(v)
      BY <1>2 DEF Next, Step
    <2>2. CASE v # w
      BY <2>1, <2>2, OthersSame DEF LiveInv, IInv, Same
    <2>3. CASE v = w
      BY <2>1, <2>3
      DEF LiveInv, IInv, TypeOK, WInv, Untouched, Step, MainThread, Delivered, Child, Launch,
          Stop, Release, StopEffect, Data, SendDataToDelegate, EndOfFile, Drop, ReadCompletes, Write, Exit, Alive
    <2> QED
      BY <2>2, <2>3
  <1> QED
    BY <1>1, <1>2

LEMMA EndedMoves ==
  ASSUME "handler" \notin Faults, NEW w \in Wrappers
  PROVE  SafeSpec /\ Carried(w) /\ CanCarry(w) /\ ~ PipeDescends(w)
           => (proc[w] = "exited" ~> calls[w].finishes = 1)
  <1> DEFINE Exited   == proc[w] = "exited"
             Reported == calls[w].finishes = 1
             Coming   == notice[w] > 0
             Reading  == w \in reading
             EndNext  == notice[w] = 0
             Same_p   == pipe'[w] = pipe[w]
  <1>1. LiveInv /\ LiveInv' /\ [Next]_vars /\ Exited /\ ~ Reported /\ Exited' /\ ~ Reported'
          => /\ Coming \/ Reading \/ EndNext
             /\ Emptier(w) \/ Same_p
             /\ Coming => Coming' \/ Reading' \/ Emptier(w)
             /\ Coming /\ Delivered(w) => Reading' \/ Emptier(w)
             /\ Reading => Reading' \/ EndNext' \/ Emptier(w)
             /\ Reading /\ ReadCompletes(w) => EndNext' \/ Emptier(w)
             /\ EndNext => EndNext' \/ Emptier(w)
             /\ EndNext /\ Delivered(w) => Emptier(w)
    BY OverStep DEF Unreported
  <1>2. LiveInv /\ [Next]_vars /\ Exited => Exited'
    BY ExitIsFinal
  <1>3. Emptier(w) => ~ UNCHANGED vars
    BY DEF Emptier, vars
  <1>4. /\ Exited /\ Reading => w \in reading /\ (pipe[w] > 0 \/ proc[w] = "exited")
        /\ Coming \/ EndNext => notice[w] # NoNotice
        /\ (proc[w] = "exited") <=> Exited
        /\ (calls[w].finishes = 1) <=> Reported
        /\ (pipe'[w] = pipe[w]) <=> Same_p
    BY DEF NoNotice
  <1> HIDE DEF Exited, Reported, Coming, Reading, EndNext, Same_p
  <1> QED
    BY <1>1, <1>2, <1>3, <1>4, LiveInvariant, PTL
    DEF SafeSpec, Carried, CanCarry, PipeDescends, Draining

(* Every process that is over has its end reported, unless its pipe becomes*)
(* emptier for ever: no read is left unarmed, no notice undelivered, and   *)
(* the end of file is noticed when nothing is left.                        *)
THEOREM EndIsReportedOrDescends ==
  ASSUME "handler" \notin Faults
  PROVE  Spec /\ (\A w \in Wrappers : CanCarry(w))
           => TaskEndIsReported \/ (\E w \in Wrappers : PipeDescends(w))
  <1> SUFFICES ASSUME Spec, \A w \in Wrappers : CanCarry(w),
                      ~ \E w \in Wrappers : PipeDescends(w), NEW w \in Wrappers
               PROVE  proc[w] = "exited" ~> calls[w].finishes = 1
    BY DEF TaskEndIsReported
  <1>1. SafeSpec /\ Carried(w) /\ CanCarry(w) /\ ~ PipeDescends(w)
    BY DEF Spec, Fairness
  <1> QED
    BY <1>1, EndedMoves

(* Some set has just the numbers of pieces that a pipe holds while it      *)
(* drains for ever.  Each behaviour has one, and it is empty; but that     *)
(* sets are formed by formulas about behaviours is no rule the prover      *)
(* knows, and the induction rests on it.                                   *)
DrainsTo(w, n) == <>(Draining(w) /\ pipe[w] = n)

ContentsAreASet(w) ==
    \E S \in SUBSET Nat :
        /\ [](Draining(w) => pipe[w] \in S)
        /\ \A n \in S : DrainsTo(w, n)

LEMMA LeastNumber ==
  ASSUME NEW S \in SUBSET Nat, S # {}
  PROVE  \E m \in S : \A n \in S : ~ (n < m)
  <1> DEFINE Below == OpToRel(<, Nat)
  <1>1. IsWellFoundedOn(Below, Nat)
    BY NatLessThanWellFounded
  <1>2. \A k, l \in Nat : k < l => <<k, l>> \in Below
    BY DEF OpToRel
  <1> HIDE DEF Below
  <1>3. \E m \in S : \A n \in S : <<n, m>> \notin Below
    BY <1>1, WFMin
  <1> QED BY <1>2, <1>3

(* No pipe drains for ever: there is a least it would hold.                *)
LEMMA LeastContents ==
  ASSUME NEW w \in Wrappers, NEW S \in SUBSET Nat
  PROVE  [](Draining(w) => pipe[w] \in S) /\ (\A n \in S : DrainsTo(w, n)) => ~ PipeDescends(w)
  <1> DEFINE InS    == pipe[w] \in S
             Same_p == pipe'[w] = pipe[w]
  <1>1. CASE S = {}
    <2>1. ~ InS
      BY <1>1
    <2> HIDE DEF InS
    <2>2. [](Draining(w) => InS) => ~ PipeDescends(w)
      BY <2>1, PTL DEF PipeDescends
    <2> QED BY <2>2 DEF InS
  <1>2. CASE S # {}
    <2>1. PICK m \in S : \A n \in S : ~ (n < m)
      BY <1>2, LeastNumber
    <2> DEFINE IsM == pipe[w] = m
    <2>2. Emptier(w) /\ IsM => ~ InS'
      BY <2>1 DEF Emptier
    <2>3. (UNCHANGED vars \/ Same_p) /\ IsM => IsM'
      BY DEF vars
    <2>4. (\A n \in S : DrainsTo(w, n)) => DrainsTo(w, m)
      OBVIOUS
    <2>5. /\ (pipe[w] = m) <=> IsM
          /\ (pipe'[w] = pipe[w]) <=> Same_p
      OBVIOUS
    <2> HIDE DEF InS, IsM, Same_p
    <2>6. [](Draining(w) => InS) /\ DrainsTo(w, m) => ~ PipeDescends(w)
      BY <2>2, <2>3, <2>5, PTL DEF Draining, DrainsTo, PipeDescends
    <2> QED BY <2>4, <2>6 DEF InS
  <1> QED BY <1>1, <1>2

(* Every process that is over has its end reported (TaskWrapper.h, and     *)
(* TaskWrapperDelegate.h:19-22), however much it left in its pipe.         *)
THEOREM EndIsReported ==
  ASSUME "handler" \notin Faults
  PROVE  Spec /\ (\A w \in Wrappers : CanCarry(w) /\ ContentsAreASet(w)) => TaskEndIsReported
  <1>1. ASSUME NEW w \in Wrappers PROVE ContentsAreASet(w) => ~ PipeDescends(w)
    BY LeastContents DEF ContentsAreASet
  <1>2. Spec /\ (\A w \in Wrappers : CanCarry(w))
          => TaskEndIsReported \/ (\E w \in Wrappers : PipeDescends(w))
    BY EndIsReportedOrDescends
  <1> QED BY <1>1, <1>2

-----------------------------------------------------------------------------
(* The contract's fairness.  What it owes: output not heard, or the end of *)
(* a process that is over, before the report of the end.                   *)
Owes(w) ==
    /\ calls[w].starts = 1 /\ calls[w].finishes = 0
    /\ calls[w].outputs < made[w] \/ proc[w] = "exited"

OwesTold(w)  == Owes(w) /\ w \in observing /\ notice[w] # NoNotice
OwesArmed(w) == Owes(w) /\ w \in observing /\ w \in reading

(* The contract can report only what it owes: again a fact about ENABLED,  *)
(* true by the guards of Hear and Complete.                                *)
ReportsWhatItOwes(w) ==
    [](ENABLED <<Contract!Report(w)>>_(Contract!vars) => Owes(w))

LEMMA OwedStep ==
  ASSUME "handler" \notin Faults, LiveInv, NEW w \in Wrappers, [Next]_vars
  PROVE  /\ Owes(w) => OwesTold(w) \/ OwesArmed(w)
         /\ OwesTold(w) => (OwesTold(w) \/ ~ Owes(w))' \/ Delivered(w)
         /\ OwesTold(w) /\ Delivered(w) => <<Contract!Report(w)>>_(Contract!vars)
         /\ OwesArmed(w) => (OwesArmed(w) \/ OwesTold(w) \/ ~ Owes(w))'
         /\ OwesArmed(w) /\ ReadCompletes(w) => (OwesTold(w) \/ ~ Owes(w))'
         /\ OwesArmed(w) => w \in reading /\ (pipe[w] > 0 \/ proc[w] = "exited")
  <1> USE DEF Owes, OwesTold, OwesArmed
  <1>1. /\ notice[w] \in NoNotice .. PipeCapacity /\ pipe[w] \in 0 .. PipeCapacity
        /\ w \in observing => ((w \in reading) # (notice[w] # NoNotice))
        /\ w \in observing => made[w] = calls[w].outputs + pipe[w] + InNotice(w)
        /\ made[w] \in Nat /\ calls[w].outputs \in Nat
        /\ calls[w].finishes = 0 /\ calls[w].starts = 1 => w \in delegate
    BY DEF LiveInv, IInv, TypeOK, WInv, Accounted, Connected, ReaderKeepsReading
  <1>2. Owes(w) => w \in observing
    <2>1. w \in asked /\ calls[w].finishes = 0 => proc[w] = "none" /\ made[w] = 0
      BY DEF LiveInv, Listens
    <2> QED
      BY <2>1 DEF LiveInv, IInv, TypeOK, WInv, Untouched, Listens
  <1>3. OwesTold(w) /\ Delivered(w) => <<Contract!Report(w)>>_(Contract!vars)
    <2> SUFFICES ASSUME OwesTold(w), Delivered(w)
                 PROVE  Contract!Report(w) /\ calls' # calls
      BY DEF Contract!vars
    <2>1. CASE Data(w)
      <3>1. Contract!Hear(w)
        BY <2>1, DataIsHeard DEF LiveInv
      <3>2. calls'[w].outputs # calls[w].outputs
        BY <1>1, <2>1 DEF Data, SendDataToDelegate, LiveInv, IInv, TypeOK
      <3> QED
        BY <3>1, <3>2 DEF Contract!Report
    <2>2. CASE EndOfFile(w)
      <3>1. Contract!Complete(w)
        BY <2>2, EndIsComplete DEF LiveInv
      <3>2. calls'[w].finishes # calls[w].finishes
        BY <3>1 DEF Contract!Complete, LiveInv, IInv, TypeOK
      <3> QED
        BY <3>1, <3>2 DEF Contract!Report
    <2> QED
      BY <2>1, <2>2 DEF Delivered, Drop
  <1>4. OwesArmed(w) /\ ReadCompletes(w) => (OwesTold(w) \/ ~ Owes(w))'
    BY <1>1 DEF ReadCompletes, LiveInv, IInv, TypeOK
  <1>5. ASSUME UNCHANGED vars \/ Same(w) \/ Step(w)
        PROVE  /\ OwesTold(w) => (OwesTold(w) \/ ~ Owes(w))' \/ Delivered(w)
               /\ OwesArmed(w) => (OwesArmed(w) \/ OwesTold(w) \/ ~ Owes(w))'
    <2> USE <1>1 DEF LiveInv, IInv, TypeOK
    <2>1. CASE UNCHANGED vars
      BY <2>1 DEF vars
    <2>2. CASE Same(w)
      BY <2>2 DEF Same
    <2>3. CASE Launch(w)
      BY <2>3 DEF Launch
    <2>4. CASE Stop(w) \/ Release(w)
      <3>1. ASSUME Owes(w) PROVE ~ Owes(w)'
        <4>1. proc[w] # "none" /\ w \in delegate /\ calls[w].finishes = 0
          BY <3>1 DEF WInv, Untouched, OwesArmed, Listens
        <4>2. calls' = [calls EXCEPT ![w].finishes = 1]
          BY <2>4, <4>1 DEF Stop, Release, StopEffect
        <4> QED
          BY <4>2
      <3> QED
        BY <3>1
    <2>5. CASE Delivered(w)
      BY <2>5 DEF Delivered, Data, SendDataToDelegate, EndOfFile, Drop
    <2>6. CASE ReadCompletes(w)
      <3>1. ~ OwesTold(w)
        BY <2>6 DEF ReadCompletes
      <3> QED
        BY <1>4, <2>6, <3>1
    <2>7. CASE Write(w)
      BY <2>7 DEF Write, Alive
    <2>8. CASE Exit(w)
      BY <2>8 DEF Exit, Alive
    <2> QED
      BY <1>5, <2>1, <2>2, <2>3, <2>4, <2>5, <2>6, <2>7, <2>8 DEF Step, MainThread, Child
  <1> QED
    BY <1>1, <1>2, <1>3, <1>4, <1>5, StepOfOne DEF InNotice

LEMMA OwedIsReported ==
  ASSUME "handler" \notin Faults, NEW w \in Wrappers
  PROVE  SafeSpec /\ Carried(w) /\ CanCarry(w) /\ ReportsWhatItOwes(w) => Contract!Kept(w)
  <1>1. LiveInv /\ [Next]_vars =>
         /\ Owes(w) => OwesTold(w) \/ OwesArmed(w)
         /\ OwesTold(w) => (OwesTold(w) \/ ~ Owes(w))' \/ Delivered(w)
         /\ OwesTold(w) /\ Delivered(w) => <<Contract!Report(w)>>_(Contract!vars)
         /\ OwesArmed(w) => (OwesArmed(w) \/ OwesTold(w) \/ ~ Owes(w))'
         /\ OwesArmed(w) /\ ReadCompletes(w) => (OwesTold(w) \/ ~ Owes(w))'
         /\ OwesArmed(w) => w \in reading /\ (pipe[w] > 0 \/ proc[w] = "exited")
    BY OwedStep
  <1>2. OwesTold(w) => notice[w] # NoNotice
    BY DEF OwesTold
  <1> QED
    BY <1>1, <1>2, LiveInvariant, PTL
    DEF SafeSpec, Carried, CanCarry, ReportsWhatItOwes, Contract!Kept

(* What the contract owes is reported: whatever output is in the pipe is   *)
(* read, whatever was read is delivered, the end of file last.  No         *)
(* induction is needed, since any progress is one of the reports owed.     *)
THEOREM WrapperKeepsContract ==
  ASSUME "handler" \notin Faults
  PROVE  /\ Spec
         /\ \A w \in Wrappers : CanCarry(w)
         /\ \A w \in Wrappers : ReportsWhatItOwes(w)
         => ImplementsFairness
  <1> SUFFICES ASSUME Spec, \A w \in Wrappers : CanCarry(w),
                      \A w \in Wrappers : ReportsWhatItOwes(w), NEW w \in Wrappers
               PROVE  Contract!Kept(w)
    BY DEF ImplementsFairness, Contract!Fairness
  <1>1. SafeSpec /\ Carried(w) /\ CanCarry(w) /\ ReportsWhatItOwes(w)
    BY DEF Spec, Fairness
  <1> QED
    BY <1>1, OwedIsReported

(* Where launches are not refused and delegates do not raise, the wrapper  *)
(* does all that TaskWrapper.h and TaskWrapperDelegate.h promise: no call  *)
(* too many, none too early, none that is owed and never comes.            *)
THEOREM WrapperMeetsItsContract ==
  ASSUME "launch" \notin Faults, "handler" \notin Faults
  PROVE  /\ Spec
         /\ \A w \in Wrappers : CanCarry(w)
         /\ \A w \in Wrappers : ReportsWhatItOwes(w)
         => Contract!Spec
  <1>1. Spec => SafeSpec
    BY DEF Spec
  <1> QED
    BY <1>1, WrapperImplementsContract, WrapperKeepsContract
    DEF Contract!Spec, ImplementsContract, ImplementsFairness

=============================================================================
