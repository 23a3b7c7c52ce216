------------------------------- MODULE Miners -------------------------------
(***************************************************************************)
(* The four mining controllers of MacMiner (GPU: bfgminerViewController,   *)
(* FPGA/ASIC: asicMiner, cgminer: cgminerViewController, CPU:              *)
(* cpuminerViewController), the dock readings they share through           *)
(* AppDelegate, the delayed restart, and quitting.                         *)
(*                                                                         *)
(* Everything but the miners' processes runs on the main thread, one       *)
(* handler at a time.  A wrapper is used by its contract (OneShotTask):    *)
(* output is heard before the end is reported, the end is reported once,   *)
(* at once when the owner stops it.  A handler that raises is abandoned    *)
(* there; the application goes on.                                         *)
(***************************************************************************)
EXTENDS Naturals

CONSTANTS
    Miners,        \* the controllers in play
    Faults,        \* failures outside the controllers that may occur
    HideChoices,   \* what the dock reading preference may be: hidden or not
    Hasty,         \* miners whose button is pressed even while a restart is due
    MaxPending     \* bound: delayed restarts of one miner waiting to fire

(* "launch": the binary is missing.  "handler": didProduceOutput raises.   *)
(* "conf": no pool was saved for the algorithm chosen for the CPU miner.   *)
FaultKinds == {"launch", "handler", "conf"}

ASSUME MinersAssumption ==
    /\ Miners \subseteq {"bfg", "asic", "cg", "cpu"}
    /\ Faults \subseteq FaultKinds
    /\ HideChoices \subseteq BOOLEAN
    /\ Hasty \subseteq Miners
    /\ MaxPending \in Nat

VARIABLES
    running,     \* searchTaskIsRunning, findRunning, cgsearchTaskIsRunning
    titled,      \* miners whose button reads "Stop"
    tagged,      \* miners whose button has tag 1: the user stopped them
    task,        \* per miner, the TaskWrapper it holds and what became of it
    deaf,        \* miners whose wrapper lost its reading loop
    reading,     \* miners whose dock reading is visible
    readBack,    \* miners whose dock reading's background is visible
    pending,     \* per miner, start: messages scheduled 10 seconds ahead
    hidden,      \* preference showDockReading is set to "hide"
    quit,        \* the application terminated
    wanted,      \* miners the user last asked to run: history
    concealed    \* miners whose reading the preference hid: history

buttons == <<running, titled, tagged, wanted>>
dock    == <<reading, readBack, hidden, concealed>>
vars    == <<buttons, task, deaf, dock, pending, quit>>

(* The wrapper is missing, was not launched although startTask was called, *)
(* has a live process, has a process that is over but whose end was not    *)
(* reported, or has reported the end and is still held.                    *)
TaskStates == {"nil", "broken", "live", "exited", "spent"}

(* These two restart a miner that stopped by itself.                       *)
Restarting == Miners \ {"cg", "cpu"}

(* These show their dock reading when started; asicMiner waits for output. *)
ShownAtStart == Miners \ {"asic"}

(* Closing the window of these stops them.                                 *)
StoppedByClosing == Miners \ {"bfg", "asic"}

TypeOK ==
    /\ running \subseteq Miners
    /\ titled \subseteq Miners
    /\ tagged \subseteq Restarting
    /\ wanted \subseteq Miners
    /\ task \in [Miners -> TaskStates]
    /\ deaf \subseteq Miners
    /\ reading \subseteq Miners
    /\ readBack \subseteq Miners
    /\ concealed \subseteq Miners
    /\ hidden \in BOOLEAN
    /\ pending \in [Miners -> 0 .. MaxPending]
    /\ quit \in BOOLEAN

(* awakeFromNib starts the miners whose start preference is "start", all   *)
(* of them before the first event is handled.  unready: those without a    *)
(* configuration file.                                                     *)
Init ==
    \E auto \in SUBSET Miners :
    \E unready \in SUBSET (IF "conf" \in Faults THEN auto \intersect {"cpu"} ELSE {}) :
        /\ running = auto \ unready
        /\ titled = auto
        /\ tagged = {}
        /\ wanted = auto
        /\ task = [m \in Miners |-> IF m \in auto \ unready THEN "live" ELSE "nil"]
        /\ deaf = {}
        /\ reading = auto \intersect ShownAtStart
        /\ readBack = auto \intersect ShownAtStart
        /\ pending = [m \in Miners |-> 0]
        /\ hidden \in HideChoices
        /\ concealed = {}
        /\ quit = FALSE

-----------------------------------------------------------------------------
(* The parts of the handlers.                                              *)

(* Slips in didFinish, for the runs to notice: the flag or the dock        *)
(* reading is not reset.                                                   *)
DidFinishKeepsFlag(m, tags, waiting) ==
    /\ titled' = titled \ {m}
    /\ reading' = reading \ {m}
    /\ readBack' = readBack \ {m}
    /\ pending' = IF m \in Restarting \ tags THEN [waiting EXCEPT ![m] = @ + 1] ELSE waiting
    /\ UNCHANGED running

DidFinishKeepsReading(m, tags, waiting) ==
    /\ running' = running \ {m}
    /\ titled' = titled \ {m}
    /\ readBack' = readBack \ {m}
    /\ pending' = IF m \in Restarting \ tags THEN [waiting EXCEPT ![m] = @ + 1] ELSE waiting
    /\ UNCHANGED reading

(* taskWrapper:didFinishTaskWithStatus: with the tags the buttons have     *)
(* then, and the restarts that are waiting then.                           *)
DidFinish(m, tags, waiting) ==
    /\ running' = running \ {m}
    /\ titled' = titled \ {m}
    /\ reading' = reading \ {m}
    /\ readBack' = readBack \ {m}
    /\ pending' = IF m \in Restarting \ tags THEN [waiting EXCEPT ![m] = @ + 1] ELSE waiting

(* The wrapper of m still has its delegate: stopping it reports the end.   *)
Connected(m) == task[m] \in {"live", "exited"}

(* Slips in the stop branch: the tag is set only after the task was        *)
(* stopped, or on a button that restarts nothing.                          *)
StopBranchTagsLate(m, waiting) ==
    /\ m \in running
    /\ tagged' = tagged \union ({m} \intersect Restarting)
    /\ DidFinish(m, tagged, waiting)
    /\ task' = [task EXCEPT ![m] = "nil"]
    /\ deaf' = deaf \ {m}
    /\ UNCHANGED concealed

StopBranchTagsAll(m, waiting) ==
    /\ m \in running
    /\ tagged' = tagged \union {m}
    /\ DidFinish(m, tagged', waiting)
    /\ task' = [task EXCEPT ![m] = "nil"]
    /\ deaf' = deaf \ {m}
    /\ UNCHANGED concealed

(* start: while the flag is set.  Stopping a task that was never launched  *)
(* raises, and what follows is skipped: the flag stays set.                *)
StopBranch(m, waiting) ==
    /\ m \in running
    /\ tagged' = tagged \union ({m} \intersect Restarting)
    /\ UNCHANGED concealed
    /\ IF task[m] = "broken"
         THEN /\ titled' = titled \ {m}
              /\ pending' = waiting
              /\ UNCHANGED <<running, task, deaf, reading, readBack>>
         ELSE /\ DidFinish(m, tagged', waiting)
              /\ task' = [task EXCEPT ![m] = "nil"]
              /\ deaf' = deaf \ {m}

(* A slip in the start branch: the tag of the last stop is not reset.      *)
StartBranchKeepsTag(m, waiting) ==
    /\ m \notin running
    /\ titled' = titled \union {m}
    /\ reading' = reading \union ({m} \intersect ShownAtStart)
    /\ readBack' = readBack \union ({m} \intersect ShownAtStart)
    /\ concealed' = concealed \ ({m} \intersect ShownAtStart)
    /\ running' = running \union {m}
    /\ task' = [task EXCEPT ![m] = "live"]
    /\ pending' = waiting
    /\ UNCHANGED <<tagged, deaf>>

(* start: while the flag is clear.  The old wrapper is released; it has    *)
(* reported its end, so nothing hears of that.  The CPU miner does all of  *)
(* this before it looks for its configuration file, and without one it     *)
(* starts nothing.                                                         *)
StartBranch(m, waiting) ==
    /\ m \notin running
    /\ tagged' = tagged \ {m}
    /\ titled' = titled \union {m}
    /\ reading' = reading \union ({m} \intersect ShownAtStart)
    /\ readBack' = readBack \union ({m} \intersect ShownAtStart)
    /\ concealed' = concealed \ ({m} \intersect ShownAtStart)
    /\ deaf' = deaf \ {m}
    /\ \/ /\ running' = running \union {m}
          /\ task' = [task EXCEPT ![m] = "live"]
       \/ /\ "launch" \in Faults
          /\ running' = running \union {m}
          /\ task' = [task EXCEPT ![m] = "broken"]
       \/ /\ m = "cpu" /\ "conf" \in Faults
          /\ task' = [task EXCEPT ![m] = "nil"]
          /\ UNCHANGED running
    /\ pending' = waiting

Toggle(m, waiting) == StopBranch(m, waiting) \/ StartBranch(m, waiting)

(* What a statistics line does to the dock.  asicMiner hides the reading   *)
(* of the GPU miner, and does so for any output; cgminer shows its reading *)
(* but not the background.                                                 *)
ShowReadings(m) ==
    LET hides == IF m = "asic" THEN "bfg" ELSE m
    IN  IF hidden
          THEN /\ reading' = reading \ {hides}
               /\ readBack' = readBack \ {hides}
               /\ concealed' = concealed \union ({hides} \intersect Miners)
          ELSE /\ reading' = reading \union {m}
               /\ concealed' = concealed \ {m}
               /\ readBack' = IF m = "cg" THEN readBack ELSE readBack \union {m}

-----------------------------------------------------------------------------
(* The user.                                                               *)

(* The Start button, which is the Stop button.                             *)
Press(m) ==
    /\ ~ quit
    /\ pending[m] > 0 => m \in Hasty
    /\ Toggle(m, pending)
    /\ wanted' = IF m \in running THEN wanted \ {m} ELSE wanted \union {m}
    /\ UNCHANGED <<hidden, quit>>

(* windowShouldClose: of cgminer stops the task and then clears the flag;  *)
(* that of the CPU miner releases the wrapper, which stops it, first.  For *)
(* a task that was never launched the stop raises in both.                 *)
CloseWindow(m) ==
    /\ ~ quit
    /\ m \in StoppedByClosing
    /\ IF Connected(m)
         THEN DidFinish(m, tagged, pending)
         ELSE /\ running' = IF task[m] = "broken" THEN running ELSE running \ {m}
              /\ UNCHANGED <<titled, reading, readBack, pending>>
    /\ task' = IF m = "cg" /\ task[m] = "broken" THEN task ELSE [task EXCEPT ![m] = "nil"]
    /\ deaf' = deaf \ {m}
    /\ wanted' = wanted \ {m}
    /\ UNCHANGED <<tagged, hidden, concealed, quit>>

(* dockReadingsOption:                                                     *)
ChoosePreference ==
    /\ ~ quit
    /\ hidden' \in HideChoices
    /\ UNCHANGED <<buttons, task, deaf, reading, readBack, concealed, pending, quit>>

(* A slip in applicationShouldTerminate: one of the readings is forgotten. *)
QuitForgetsCpu ==
    /\ ~ quit
    /\ reading \subseteq {"cpu"}
    /\ quit' = TRUE
    /\ UNCHANGED <<buttons, task, deaf, dock, pending>>

(* applicationShouldTerminate: refuses while a dock reading is visible.    *)
Quit ==
    /\ ~ quit
    /\ reading = {}
    /\ quit' = TRUE
    /\ UNCHANGED <<buttons, task, deaf, dock, pending>>

-----------------------------------------------------------------------------
(* The run loop.                                                           *)

(* The delayed start: fires; it is the button's own action.                *)
FireRestart(m) ==
    /\ ~ quit
    /\ pending[m] > 0
    /\ Toggle(m, [pending EXCEPT ![m] = @ - 1])
    /\ UNCHANGED <<wanted, hidden, quit>>

(* didProduceOutput, or one that raises before or after the dock changed.  *)
Output(m) ==
    /\ ~ quit
    /\ Connected(m)
    /\ m \notin deaf
    /\ \/ ShowReadings(m) /\ UNCHANGED deaf
       \/ /\ "handler" \in Faults
          /\ ShowReadings(m) \/ UNCHANGED <<reading, readBack, concealed>>
          /\ deaf' = deaf \union {m}
    /\ UNCHANGED <<buttons, task, hidden, pending, quit>>

(* _taskDidProduceOutput: at the end of file, so the wrapper stops itself. *)
(* The cap on pending only bounds the model: without it a hasty user and a *)
(* crashing miner would schedule ever more restarts.                       *)
EndOfFile(m) ==
    /\ ~ quit
    /\ task[m] = "exited"
    /\ m \notin deaf
    /\ pending[m] < MaxPending
    /\ DidFinish(m, tagged, pending)
    /\ task' = [task EXCEPT ![m] = "spent"]
    /\ UNCHANGED <<tagged, wanted, deaf, hidden, concealed, quit>>

-----------------------------------------------------------------------------
(* The miner's process stops by itself: it crashed, or gave up.            *)
ProcessEnds(m) ==
    /\ ~ quit
    /\ task[m] = "live"
    /\ task' = [task EXCEPT ![m] = "exited"]
    /\ UNCHANGED <<buttons, deaf, dock, pending, quit>>

-----------------------------------------------------------------------------
Next ==
    \/ ChoosePreference
    \/ Quit
    \/ \E m \in Miners :
          \/ Press(m)
          \/ CloseWindow(m)
          \/ FireRestart(m)
          \/ Output(m)
          \/ EndOfFile(m)
          \/ ProcessEnds(m)

SafeSpec == Init /\ [][Next]_vars

(* The run loop fires what is due and delivers the end of file (which the  *)
(* wrapper guarantees: TaskEndIsReported).  The user and the miners do     *)
(* what they like.                                                         *)
Served(m) == WF_vars(FireRestart(m)) /\ WF_vars(EndOfFile(m))

Spec == SafeSpec /\ \A m \in Miners : Served(m)

-----------------------------------------------------------------------------
(* Properties.                                                             *)

(* The running flag, on which the button decides between its two branches, *)
(* is set exactly while a wrapper that has not reported its end is held,   *)
(* refused launches included: these keep flag and wrapper.  Only the       *)
(* window of the CPU miner lets go of such a wrapper and not of the flag   *)
(* (cpuminerViewController.m:690).                                         *)
FlagMatchesTask ==
    \A m \in Miners :
        /\ task[m] \in {"broken", "live", "exited"} => m \in running
        /\ m \in running /\ (m = "cpu" => "launch" \notin Faults)
               => task[m] \in {"broken", "live", "exited"}

(* The button says what it is going to do.                                 *)
TitleTellsTruth == titled = running

(* A visible dock reading belongs to a running miner, so that the quit     *)
(* dialog asks to stop something that can be stopped.  AppDelegate.m:386:  *)
(* "Please stop your miners before quitting".  The exception is a CPU      *)
(* miner that was started without a configuration (168), or whose window   *)
(* was closed twice after its launch was refused.                          *)
ReadingMeansRunning ==
    reading \subseteq running \union (IF Faults \subseteq {"handler"} THEN {} ELSE {"cpu"})

(* The application leaves no miner behind that shows its dock reading when *)
(* it is started, whatever fails and whatever the others do to the dock,   *)
(* unless the preference has hidden the reading since.  AppDelegate.m:386: *)
(* "Please stop your miners before quitting".                              *)
QuitLeavesNoMiner ==
    quit => \A m \in ShownAtStart \ concealed : task[m] # "live"

(* A miner that was asked for and not stopped since runs, or is about to   *)
(* be restarted; one that was stopped does not, and will not be, unless it *)
(* cannot be stopped because its launch was refused.                       *)
WantedIsServed ==
    \A m \in Restarting :
        /\ m \in wanted => m \in running \/ pending[m] > 0
        /\ m \in running \/ pending[m] > 0 => m \in wanted \/ task[m] = "broken"

(* The delayed restart only ever starts a miner, one that was wanted.      *)
(* bfgminerViewController.m:927: "Your miner was restarted automatically   *)
(* after a sudden stop".                                                   *)
RestartRestarts ==
    [][\A m \in Miners : pending'[m] < pending[m] => m \in wanted /\ m \in running']_vars

(* A miner whose process ended by itself is launched again, unless the     *)
(* user stopped it meanwhile, or one of its handlers had raised.           *)
SuddenStopRestarts ==
    \A m \in Restarting :
        task[m] = "exited" ~> task[m] \in {"live", "broken"} \/ m \notin wanted \/ m \in deaf \/ quit

(* Pressing Stop stops: the branch the button takes while the flag is set  *)
(* clears it.  bfgminerViewController.m:91: "This stops the task and calls *)
(* our callback".                                                          *)
StopStops ==
    [][\A m \in Miners : m \in wanted \ wanted' => m \notin running']_vars
=============================================================================
