---------------------------- MODULE OneShotTask ----------------------------
(***************************************************************************)
(* What TaskWrapper.h and TaskWrapperDelegate.h promise about a child      *)
(* process, seen by the delegate that owns it: "one-shot, like NSTask",    *)
(* one call when it is started, one call per piece of output, in order and *)
(* none skipped, and one call when it is over.  Nothing here says how the  *)
(* output travels: no pipe, no notification, no observer.                  *)
(***************************************************************************)
EXTENDS Naturals

CONSTANTS
    Wrappers,    \* the TaskWrapper objects
    MaxOutput    \* bound: pieces of output one process writes

VARIABLES
    calls,    \* per wrapper, how often the delegate's methods were called
    made,     \* per wrapper, the pieces of output its process has written
    ended,    \* the wrappers whose process is over
    asked     \* the wrappers whose owner stopped or released them

vars == <<calls, made, ended, asked>>

NoCalls == [starts |-> 0, outputs |-> 0, finishes |-> 0]

Started(w)  == calls[w].starts = 1
Reported(w) == calls[w].finishes = 1

Init ==
    /\ calls = [w \in Wrappers |-> NoCalls]
    /\ made = [w \in Wrappers |-> 0]
    /\ ended = {}
    /\ asked = {}

(* taskWrapperWillStartTask:, once in the life of a wrapper.               *)
Begin(w) ==
    /\ calls[w] = NoCalls
    /\ calls' = [calls EXCEPT ![w].starts = 1]
    /\ UNCHANGED <<made, ended, asked>>

(* The process writes, whether or not anybody still listens.               *)
Produce(w) ==
    /\ Started(w)
    /\ w \notin ended
    /\ made[w] < MaxOutput
    /\ made' = [made EXCEPT ![w] = @ + 1]
    /\ UNCHANGED <<calls, ended, asked>>

(* The process is over: it exited, crashed or obeyed a signal.             *)
End(w) ==
    /\ Started(w)
    /\ w \notin ended
    /\ ended' = ended \union {w}
    /\ UNCHANGED <<calls, made, asked>>

(* taskWrapper:didProduceOutput: with some of the output not heard so far. *)
Hear(w) ==
    /\ Started(w)
    /\ ~ Reported(w)
    /\ \E heard \in (calls[w].outputs + 1) .. made[w] :
          calls' = [calls EXCEPT ![w].outputs = heard]
    /\ UNCHANGED <<made, ended, asked>>

(* taskWrapper:didFinishTaskWithStatus: for a process that ended by        *)
(* itself, after all of its output.                                        *)
Complete(w) ==
    /\ w \in ended
    /\ Started(w)
    /\ ~ Reported(w)
    /\ calls[w].outputs = made[w]
    /\ calls' = [calls EXCEPT ![w].finishes = 1]
    /\ UNCHANGED <<made, ended, asked>>

(* The owner gives up: the end is reported at once and only once, and the  *)
(* output not heard by then is lost.                                       *)
Stop(w) ==
    /\ Started(w)
    /\ calls' = [calls EXCEPT ![w].finishes = 1]
    /\ asked' = asked \union {w}
    /\ UNCHANGED <<made, ended>>

Next ==
    \E w \in Wrappers :
        \/ Begin(w)
        \/ Produce(w)
        \/ End(w)
        \/ Hear(w)
        \/ Complete(w)
        \/ Stop(w)

SafeSpec == Init /\ [][Next]_vars

(* What is left to report is reported.                                     *)
Report(w) == Hear(w) \/ Complete(w)

Kept(w) == WF_vars(Report(w))

Fairness == \A w \in Wrappers : Kept(w)

Spec == SafeSpec /\ Fairness

=============================================================================
