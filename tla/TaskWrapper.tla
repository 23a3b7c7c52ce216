---------------------------- MODULE TaskWrapper ----------------------------
(***************************************************************************)
(* TaskWrapper.m: one NSTask, the pipe its output goes to, and the         *)
(* notification loop that carries that output to the delegate.             *)
(*                                                                         *)
(* Three parties run at once.  The child process writes into the pipe and  *)
(* exits.  NSFileHandle's background thread finishes the read that is      *)
(* armed and posts a notification.  The main thread runs everything else:  *)
(* startTask, stopTask, dealloc and the handler of the notification, each  *)
(* from its first line to its last without interruption.                   *)
(*                                                                         *)
(* A handler that raises is caught by NSApplication, which logs and goes   *)
(* on: what the handler did before it raised stays, the rest is skipped.   *)
(***************************************************************************)
EXTENDS Integers

CONSTANTS
    Wrappers,        \* the TaskWrapper objects ever made
    PipeCapacity,    \* pieces of output the pipe holds before a writer blocks
    MaxOutput,       \* bound: pieces of output one process writes
    Faults           \* which failures of other code may occur in this run

FaultKinds == {"launch", "handler"}

ASSUME TaskWrapperAssumption ==
    /\ PipeCapacity \in Nat \ {0}
    /\ MaxOutput \in Nat
    /\ Faults \subseteq FaultKinds

VARIABLES
    held,         \* wrappers that were made and not yet deallocated
    delegate,     \* wrappers with _taskDelegate still set
    observing,    \* wrappers registered for the read completion notification
    reading,      \* wrappers whose file handle has a background read armed
    notice,       \* per wrapper, the length of the data of the posted notification
    proc,         \* per wrapper, its process
    pipe,         \* per wrapper, pieces in the pipe
    made,         \* per wrapper, pieces the process wrote since it was launched
    calls,        \* per wrapper, the calls its delegate received
    asked         \* wrappers that their owner stopped or released

vars == <<held, delegate, observing, reading, notice, proc, pipe, made, calls, asked>>

(* No notification is on its way.  A notification of length 0 is the end   *)
(* of file.                                                                *)
NoNotice == -1

(* A process after terminate is "dying": SIGTERM was sent, and nothing     *)
(* waits for it to take effect.                                            *)
ProcStates == {"none", "running", "dying", "exited"}

Alive(w) == proc[w] \in {"running", "dying"}

NoCalls == [starts |-> 0, outputs |-> 0, finishes |-> 0]

TypeOK ==
    /\ held \subseteq Wrappers
    /\ delegate \subseteq Wrappers
    /\ observing \subseteq Wrappers
    /\ reading \subseteq Wrappers
    /\ notice \in [Wrappers -> NoNotice .. PipeCapacity]
    /\ proc \in [Wrappers -> ProcStates]
    /\ pipe \in [Wrappers -> 0 .. PipeCapacity]
    /\ made \in [Wrappers -> 0 .. MaxOutput]
    /\ calls \in [Wrappers -> [starts : {0, 1}, outputs : 0 .. MaxOutput, finishes : {0, 1}]]
    /\ asked \subseteq Wrappers

Init ==
    /\ held = {}
    /\ delegate = {}
    /\ observing = {}
    /\ reading = {}
    /\ notice = [w \in Wrappers |-> NoNotice]
    /\ proc = [w \in Wrappers |-> "none"]
    /\ pipe = [w \in Wrappers |-> 0]
    /\ made = [w \in Wrappers |-> 0]
    /\ calls = [w \in Wrappers |-> NoCalls]
    /\ asked = {}

-----------------------------------------------------------------------------
(* The main thread.                                                        *)

(* initWithCommandPath:... and startTask, which every owner calls one      *)
(* after the other.  The last line, [_task launch], raises when the binary *)
(* is missing: by then the delegate was told and the read is armed.        *)
Launch(w) ==
    /\ w \notin held
    /\ calls[w].starts = 0
    /\ held' = held \union {w}
    /\ delegate' = delegate \union {w}
    /\ calls' = [calls EXCEPT ![w].starts = 1]
    /\ observing' = observing \union {w}
    /\ reading' = reading \union {w}
    /\ \/ proc' = [proc EXCEPT ![w] = "running"]
       \/ "launch" \in Faults /\ UNCHANGED proc
    /\ UNCHANGED <<notice, pipe, made, asked>>

(* A slip in stopTask: the delegate stays connected.                       *)
StopEffectKeepsDelegate(w) ==
    /\ observing' = observing \ {w}
    /\ IF proc[w] = "none"
         THEN UNCHANGED <<proc, calls>>
         ELSE /\ proc' = [proc EXCEPT ![w] = IF @ = "running" THEN "dying" ELSE @]
              /\ calls' = [calls EXCEPT ![w].finishes = IF w \in delegate THEN @ + 1 ELSE @]
    /\ UNCHANGED delegate

(* What stopTask does.  terminate raises for a task that was never         *)
(* launched, and only the observer is gone then; for a process that is     *)
(* over it does nothing.                                                   *)
StopEffect(w) ==
    /\ observing' = observing \ {w}
    /\ IF proc[w] = "none"
         THEN UNCHANGED <<proc, calls, delegate>>
         ELSE /\ proc' = [proc EXCEPT ![w] = IF @ = "running" THEN "dying" ELSE @]
              /\ calls' = [calls EXCEPT ![w].finishes = IF w \in delegate THEN @ + 1 ELSE @]
              /\ delegate' = delegate \ {w}

(* The owner calls stopTask.                                               *)
Stop(w) ==
    /\ w \in held
    /\ StopEffect(w)
    /\ asked' = asked \union {w}
    /\ UNCHANGED <<held, reading, notice, pipe, made>>

(* The owner drops its last reference: dealloc, which calls stopTask.      *)
Release(w) ==
    /\ w \in held
    /\ StopEffect(w)
    /\ held' = held \ {w}
    /\ asked' = asked \union {w}
    /\ UNCHANGED <<reading, notice, pipe, made>>

(* _sendDataToDelegate: with data: a delegate that is still connected sees *)
(* it, nobody else does.                                                   *)
SendDataToDelegate(w, n) ==
    calls' = [calls EXCEPT ![w].outputs = IF w \in delegate THEN @ + n ELSE @]

(* Slips in the handler: the next read is not armed, or only the first     *)
(* piece of the data reaches the delegate.                                 *)
DataUnarmed(w) ==
    /\ w \in observing
    /\ notice[w] > 0
    /\ SendDataToDelegate(w, notice[w])
    /\ notice' = [notice EXCEPT ![w] = NoNotice]
    /\ UNCHANGED <<held, delegate, observing, reading, proc, pipe, made, asked>>

DataCutShort(w) ==
    /\ w \in observing
    /\ notice[w] > 0
    /\ SendDataToDelegate(w, 1)
    /\ notice' = [notice EXCEPT ![w] = NoNotice]
    /\ reading' = reading \union {w}
    /\ UNCHANGED <<held, delegate, observing, proc, pipe, made, asked>>

(* _taskDidProduceOutput: with data.  The delegate sees it, then the next  *)
(* read is armed; a delegate that raises leaves it unarmed.                *)
Data(w) ==
    /\ w \in observing
    /\ notice[w] > 0
    /\ SendDataToDelegate(w, notice[w])
    /\ notice' = [notice EXCEPT ![w] = NoNotice]
    /\ \/ reading' = reading \union {w}
       \/ "handler" \in Faults /\ w \in delegate /\ UNCHANGED reading
    /\ UNCHANGED <<held, delegate, observing, proc, pipe, made, asked>>

(* _taskDidProduceOutput: without data: the end of file, so stopTask.      *)
EndOfFile(w) ==
    /\ w \in observing
    /\ notice[w] = 0
    /\ StopEffect(w)
    /\ notice' = [notice EXCEPT ![w] = NoNotice]
    /\ UNCHANGED <<held, reading, pipe, made, asked>>

(* The notification center has nobody to deliver to.                       *)
Drop(w) ==
    /\ w \notin observing
    /\ notice[w] # NoNotice
    /\ notice' = [notice EXCEPT ![w] = NoNotice]
    /\ UNCHANGED <<held, delegate, observing, reading, proc, pipe, made, calls, asked>>

-----------------------------------------------------------------------------
(* NSFileHandle's background thread.                                       *)

(* A slip: the end of the process is taken for the end of its output.      *)
ReadEndsEarly(w) ==
    /\ w \in reading
    /\ \/ \E n \in 1 .. pipe[w] :
             /\ notice' = [notice EXCEPT ![w] = n]
             /\ pipe' = [pipe EXCEPT ![w] = @ - n]
       \/ /\ proc[w] = "exited"
          /\ notice' = [notice EXCEPT ![w] = 0]
          /\ UNCHANGED pipe
    /\ reading' = reading \ {w}
    /\ UNCHANGED <<held, delegate, observing, proc, made, calls, asked>>

(* The armed read returns what the pipe holds, or some of it, or the end   *)
(* of file once the process is over and the pipe empty.                    *)
ReadCompletes(w) ==
    /\ w \in reading
    /\ \/ \E n \in 1 .. pipe[w] :
             /\ notice' = [notice EXCEPT ![w] = n]
             /\ pipe' = [pipe EXCEPT ![w] = @ - n]
       \/ /\ pipe[w] = 0
          /\ proc[w] = "exited"
          /\ notice' = [notice EXCEPT ![w] = 0]
          /\ UNCHANGED pipe
    /\ reading' = reading \ {w}
    /\ UNCHANGED <<held, delegate, observing, proc, made, calls, asked>>

-----------------------------------------------------------------------------
(* The child process.                                                      *)

(* It writes a piece; with the pipe full it blocks.                        *)
Write(w) ==
    /\ Alive(w)
    /\ pipe[w] < PipeCapacity
    /\ made[w] < MaxOutput
    /\ pipe' = [pipe EXCEPT ![w] = @ + 1]
    /\ made' = [made EXCEPT ![w] = @ + 1]
    /\ UNCHANGED <<held, delegate, observing, reading, notice, proc, calls, asked>>

(* It exits, crashes, or the signal takes effect.                          *)
Exit(w) ==
    /\ Alive(w)
    /\ proc' = [proc EXCEPT ![w] = "exited"]
    /\ UNCHANGED <<held, delegate, observing, reading, notice, pipe, made, calls, asked>>

-----------------------------------------------------------------------------
(* The notification that was posted is handed to its observer.             *)
Delivered(w) == Data(w) \/ EndOfFile(w) \/ Drop(w)

MainThread(w) ==
    \/ Launch(w)
    \/ Stop(w)
    \/ Release(w)
    \/ Delivered(w)

Child(w) == Write(w) \/ Exit(w)

Next == \E w \in Wrappers : MainThread(w) \/ ReadCompletes(w) \/ Child(w)

SafeSpec == Init /\ [][Next]_vars

(* The run loop delivers what was posted and the background thread reads   *)
(* what it was told to.  Nothing makes a process write or exit, and        *)
(* nothing makes an owner start or stop one.                               *)
Carried(w) ==
    /\ WF_vars(ReadCompletes(w))
    /\ WF_vars(Delivered(w))

Fairness == \A w \in Wrappers : Carried(w)

Spec == SafeSpec /\ Fairness

-----------------------------------------------------------------------------
(* Properties.                                                             *)

(* A process whose end was reported although nobody asked for it is        *)
(* really over, and the delegate saw every piece of its output first.      *)
(* This is what lets a controller restart a miner on didFinishTask.        *)
FinishedByItself ==
    \A w \in Wrappers :
        calls[w].finishes = 1 /\ w \notin asked =>
            /\ proc[w] = "exited"
            /\ calls[w].outputs = made[w]

(* While the delegate is told about output, nothing is skipped: what it    *)
(* has not seen is in the pipe or in the notification on its way.          *)
NothingSkipped ==
    \A w \in observing :
        made[w] = calls[w].outputs + pipe[w] + (IF notice[w] = NoNotice THEN 0 ELSE notice[w])

(* The reading loop is never broken: a wrapper that observes its file      *)
(* handle has a read armed or a notification coming, never both.           *)
ReaderKeepsReading ==
    \A w \in observing : (w \in reading) # (notice[w] # NoNotice)

(* A deallocated wrapper is not registered with the notification center,   *)
(* which keeps a weak reference that would dangle (TaskWrapper.m:98).      *)
NoDanglingObserver == observing \subseteq held

(* After the delegate heard of the end it hears nothing more of this       *)
(* wrapper, not even output that was on its way when stopTask ran.         *)
NothingAfterFinish ==
    [][\A w \in Wrappers : calls[w].finishes = 1 => calls'[w] = calls[w]]_vars

(* The end of a process is reported: by the end of file or by its owner.   *)
(* TaskWrapperDelegate.h:19-22: "Called when ... the task ends".           *)
TaskEndIsReported ==
    \A w \in Wrappers : proc[w] = "exited" ~> calls[w].finishes = 1

(* A process with a full pipe gets room again, unless its owner gave up.   *)
(* TaskWrapper.m:67-69: "if the file handle gets filled up, the task will  *)
(* block ... So we have to keep reading data from the file handle".        *)
FullPipeIsRead ==
    \A w \in Wrappers :
        pipe[w] = PipeCapacity ~> pipe[w] < PipeCapacity \/ w \in asked

-----------------------------------------------------------------------------
(* The contract: the wrapper implements OneShotTask, where a process is    *)
(* over once it has exited.                                                *)
Contract == INSTANCE OneShotTask WITH ended <- {w \in Wrappers : proc[w] = "exited"}

(* Every behaviour of the wrapper is one its headers (TaskWrapper.h,       *)
(* TaskWrapperDelegate.h) promise.                                         *)
ImplementsContract == Contract!SafeSpec

(* And whatever is left to report, output or end, is reported: the handler *)
(* of the notification keeps the loop going (TaskWrapper.m:126-149).       *)
ImplementsFairness == Contract!Fairness

=============================================================================
