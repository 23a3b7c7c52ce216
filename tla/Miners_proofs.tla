--------------------------- MODULE Miners_proofs ---------------------------
(***************************************************************************)
(* Proofs about Miners, for any set of controllers, faults and users.      *)
(* A theorem assumes away a fault only where its property fails under it.  *)
(***************************************************************************)
EXTENDS Miners, TLAPS

USE DEF Restarting, ShownAtStart, StoppedByClosing

(* The actions of one miner.                                               *)
Act(m) ==
    \/ Press(m)
    \/ CloseWindow(m)
    \/ FireRestart(m)
    \/ Output(m)
    \/ EndOfFile(m)
    \/ ProcessEnds(m)

LEMMA InitType == Init => TypeOK
  <1> SUFFICES ASSUME Init PROVE TypeOK
    OBVIOUS
  <1>1. running \subseteq Miners /\ titled \subseteq Miners /\ wanted \subseteq Miners
    BY DEF Init
  <1>2. reading \subseteq Miners /\ readBack \subseteq Miners /\ concealed = {}
          /\ deaf = {} /\ tagged = {}
    BY DEF Init
  <1>3. task \in [Miners -> TaskStates]
    BY DEF Init, TaskStates
  <1>4. pending \in [Miners -> 0 .. MaxPending]
    BY MinersAssumption DEF Init
  <1>5. hidden \in BOOLEAN /\ quit \in BOOLEAN
    BY MinersAssumption, Zenon DEF Init
  <1> QED
    BY <1>1, <1>2, <1>3, <1>4, <1>5 DEF TypeOK

LEMMA ToggleType ==
  ASSUME TypeOK, NEW m \in Miners, NEW waiting \in [Miners -> 0 .. MaxPending],
         Toggle(m, waiting)
  PROVE  /\ running' \subseteq Miners
         /\ titled' \subseteq Miners
         /\ tagged' \subseteq Restarting
         /\ task' \in [Miners -> TaskStates]
         /\ deaf' \subseteq Miners
         /\ reading' \subseteq Miners
         /\ readBack' \subseteq Miners
         /\ concealed' \subseteq Miners
         /\ pending' \in [Miners -> 0 .. MaxPending]
  <1>1. CASE StopBranch(m, waiting)
    BY <1>1 DEF StopBranch, DidFinish, TypeOK, TaskStates
  <1>2. CASE StartBranch(m, waiting)
    BY <1>2 DEF StartBranch, TypeOK, TaskStates
  <1> QED
    BY <1>1, <1>2 DEF Toggle

LEMMA NextType == TypeOK /\ [Next]_vars => TypeOK'
  <1> SUFFICES ASSUME TypeOK, [Next]_vars PROVE TypeOK'
    OBVIOUS
  <1>1. CASE UNCHANGED vars
    BY <1>1 DEF vars, buttons, dock, TypeOK
  <1>2. CASE ChoosePreference
    BY <1>2, MinersAssumption DEF ChoosePreference, buttons, TypeOK
  <1>3. CASE Quit
    BY <1>3 DEF Quit, buttons, dock, TypeOK
  <1>4. ASSUME NEW m \in Miners, Press(m) PROVE TypeOK'
    <2>1. Toggle(m, pending)
      BY <1>4 DEF Press
    <2>2. pending \in [Miners -> 0 .. MaxPending]
      BY DEF TypeOK
    <2> QED
      BY <1>4, <2>1, <2>2, ToggleType DEF Press, TypeOK
  <1>5. ASSUME NEW m \in Miners, CloseWindow(m) PROVE TypeOK'
    <2>1. task' \in [Miners -> TaskStates]
      BY <1>5 DEF CloseWindow, TypeOK, TaskStates
    <2>2. m \notin Restarting \ tagged
      BY <1>5, MinersAssumption DEF CloseWindow
    <2>3. /\ running' \subseteq Miners /\ titled' \subseteq Miners
          /\ reading' \subseteq Miners /\ readBack' \subseteq Miners
          /\ pending' = pending
      <3>1. CASE Connected(m)
        BY <1>5, <2>2, <3>1 DEF CloseWindow, DidFinish, TypeOK
      <3>2. CASE ~ Connected(m)
        BY <1>5, <3>2 DEF CloseWindow, TypeOK
      <3> QED
        BY <3>1, <3>2
    <2> QED
      BY <1>5, <2>1, <2>3 DEF CloseWindow, TypeOK
  <1>6. ASSUME NEW m \in Miners, FireRestart(m) PROVE TypeOK'
    <2> DEFINE waiting == [pending EXCEPT ![m] = @ - 1]
    <2>1. Toggle(m, waiting)
      BY <1>6 DEF FireRestart
    <2>2. waiting \in [Miners -> 0 .. MaxPending]
      BY <1>6, MinersAssumption DEF FireRestart, TypeOK
    <2> HIDE DEF waiting
    <2> QED
      BY <1>6, <2>1, <2>2, ToggleType DEF FireRestart, TypeOK
  <1>7. ASSUME NEW m \in Miners, Output(m) PROVE TypeOK'
    <2>1. reading' \subseteq Miners /\ readBack' \subseteq Miners /\ concealed' \subseteq Miners
      BY <1>7 DEF Output, ShowReadings, TypeOK
    <2> QED
      BY <1>7, <2>1 DEF Output, buttons, TypeOK
  <1>8. ASSUME NEW m \in Miners, EndOfFile(m) PROVE TypeOK'
    BY <1>8, MinersAssumption DEF EndOfFile, DidFinish, TypeOK, TaskStates
  <1>9. ASSUME NEW m \in Miners, ProcessEnds(m) PROVE TypeOK'
    BY <1>9 DEF ProcessEnds, buttons, dock, TypeOK, TaskStates
  <1> QED
    BY <1>1, <1>2, <1>3, <1>4, <1>5, <1>6, <1>7, <1>8, <1>9 DEF Next

(* Every variable keeps to its type, whatever fails and whoever presses.   *)
THEOREM TypeCorrect == SafeSpec => []TypeOK
  BY InitType, NextType, PTL DEF SafeSpec

-----------------------------------------------------------------------------
(* The running flag.  Nothing is broken unless launches may be refused.    *)
NoneBroken == \A m \in Miners : task[m] # "broken"
Unbroken   == "launch" \notin Faults => NoneBroken

LEMMA ToggleFlag ==
  ASSUME TypeOK, FlagMatchesTask, Unbroken,
         NEW m \in Miners, NEW waiting, Toggle(m, waiting)
  PROVE  FlagMatchesTask' /\ Unbroken'
  <1> USE DEF Unbroken, NoneBroken
  <1>1. CASE StopBranch(m, waiting)
    <2>1. task[m] # "broken" => running' = running \ {m} /\ task' = [task EXCEPT ![m] = "nil"]
      BY <1>1 DEF StopBranch, DidFinish
    <2>2. task[m] = "broken" => running' = running /\ task' = task
      BY <1>1 DEF StopBranch
    <2> QED
      BY <2>1, <2>2 DEF FlagMatchesTask, TypeOK
  <1>2. CASE StartBranch(m, waiting)
    BY <1>2 DEF StartBranch, FlagMatchesTask, TypeOK
  <1> QED
    BY <1>1, <1>2 DEF Toggle

(* The flag that decides what the button does is right, whatever fails.    *)
THEOREM FlagIsRight == SafeSpec => []FlagMatchesTask /\ []Unbroken
  <1> DEFINE Sound == FlagMatchesTask /\ Unbroken
  <1> USE DEF Unbroken, NoneBroken
  <1>1. Init => Sound
    BY DEF Init, FlagMatchesTask
  <1>2. TypeOK /\ Sound /\ [Next]_vars => Sound'
    <2> SUFFICES ASSUME TypeOK, Sound, [Next]_vars PROVE Sound'
      OBVIOUS
    <2>1. CASE UNCHANGED vars
      BY <2>1 DEF vars, buttons, FlagMatchesTask
    <2>2. CASE ChoosePreference
      BY <2>2 DEF ChoosePreference, buttons, FlagMatchesTask
    <2>3. CASE Quit
      BY <2>3 DEF Quit, buttons, FlagMatchesTask
    <2>4. ASSUME NEW m \in Miners, NEW waiting, Toggle(m, waiting) PROVE Sound'
      BY <2>4, ToggleFlag
    <2>5. ASSUME NEW m \in Miners, Press(m) PROVE Sound'
      BY <2>4, <2>5 DEF Press
    <2>6. ASSUME NEW m \in Miners, FireRestart(m) PROVE Sound'
      BY <2>4, <2>6 DEF FireRestart
    <2>7. ASSUME NEW m \in Miners, CloseWindow(m) PROVE Sound'
      <3>1. m \in {"cg", "cpu"}
        BY <2>7, MinersAssumption DEF CloseWindow
      <3>2. CASE task[m] # "broken"
        <4>1. running' = running \ {m} /\ task' = [task EXCEPT ![m] = "nil"]
          BY <2>7, <3>2 DEF CloseWindow, DidFinish, Connected
        <4> QED
          BY <4>1 DEF FlagMatchesTask, TypeOK
      <3>3. CASE task[m] = "broken"
        <4>1. /\ running' = running
              /\ task' = IF m = "cg" THEN task ELSE [task EXCEPT ![m] = "nil"]
          BY <2>7, <3>3 DEF CloseWindow, Connected
        <4>2. "launch" \in Faults
          BY <3>3
        <4> QED
          BY <3>1, <3>3, <4>1, <4>2 DEF FlagMatchesTask, TypeOK
      <3> QED
        BY <3>2, <3>3
    <2>8. ASSUME NEW m \in Miners, Output(m) PROVE Sound'
      BY <2>8 DEF Output, buttons, FlagMatchesTask
    <2>9. ASSUME NEW m \in Miners, EndOfFile(m) PROVE Sound'
      <3>1. running' = running \ {m} /\ task' = [task EXCEPT ![m] = "spent"]
        BY <2>9 DEF EndOfFile, DidFinish
      <3> QED
        BY <3>1 DEF FlagMatchesTask, TypeOK
    <2>10. ASSUME NEW m \in Miners, ProcessEnds(m) PROVE Sound'
      BY <2>10 DEF ProcessEnds, buttons, FlagMatchesTask, TypeOK
    <2> QED
      BY <2>1, <2>2, <2>3, <2>5, <2>6, <2>7, <2>8, <2>9, <2>10 DEF Next
  <1>3. SafeSpec => []Sound
    BY <1>1, <1>2, TypeCorrect, PTL DEF SafeSpec
  <1> QED
    BY <1>3, PTL

(* Stopping clears the flag: the button and the two windows that stop      *)
(* their miner are the only ways to take back that it was asked for.       *)
THEOREM StoppingStops ==
  ASSUME "launch" \notin Faults
  PROVE  SafeSpec => StopStops
  <1> DEFINE Stopped == \A m \in Miners : m \in wanted \ wanted' => m \notin running'
  <1>1. NoneBroken /\ [Next]_vars => [Stopped]_vars
    <2> SUFFICES ASSUME NoneBroken, Next PROVE Stopped
      OBVIOUS
    <2>1. CASE UNCHANGED wanted
      BY <2>1
    <2>2. ASSUME NEW m \in Miners, Press(m) PROVE Stopped
      <3>1. CASE m \in running
        <4>1. running' = running \ {m} /\ wanted' = wanted \ {m}
          BY <2>2, <3>1 DEF Press, Toggle, StopBranch, StartBranch, DidFinish, NoneBroken
        <4> QED
          BY <4>1
      <3>2. CASE m \notin running
        BY <2>2, <3>2 DEF Press
      <3> QED
        BY <3>1, <3>2
    <2>3. ASSUME NEW m \in Miners, CloseWindow(m) PROVE Stopped
      <3>1. running' = running \ {m} /\ wanted' = wanted \ {m}
        BY <2>3 DEF CloseWindow, DidFinish, NoneBroken
      <3> QED
        BY <3>1
    <2> QED
      BY <2>1, <2>2, <2>3 DEF Next, ChoosePreference, Quit, FireRestart, Output, EndOfFile,
         ProcessEnds, buttons
  <1>2. Unbroken => NoneBroken
    BY DEF Unbroken
  <1> QED
    BY <1>1, <1>2, FlagIsRight, PTL DEF SafeSpec, StopStops

-----------------------------------------------------------------------------
(* What the window shows.                                                  *)

(* The title of a button is the flag, whatever else fails, as long as no   *)
(* launch is refused and every algorithm has its configuration             *)
(* (bfgminerViewController.m:92-118).                                      *)
THEOREM ButtonsAreHonest ==
  ASSUME "launch" \notin Faults, "conf" \notin Faults
  PROVE  SafeSpec => []TitleTellsTruth
  <1> USE DEF TitleTellsTruth
  <1>1. Init => TitleTellsTruth
    BY DEF Init
  <1>2. TypeOK /\ FlagMatchesTask /\ Unbroken /\ TitleTellsTruth /\ [Next]_vars
          => TitleTellsTruth'
    <2> SUFFICES ASSUME TypeOK, FlagMatchesTask, Unbroken, TitleTellsTruth, [Next]_vars
                 PROVE  TitleTellsTruth'
      OBVIOUS
    <2> USE DEF Unbroken, NoneBroken
    <2>1. CASE UNCHANGED titled /\ UNCHANGED running
      BY <2>1
    <2>2. ASSUME NEW m \in Miners, NEW waiting, Toggle(m, waiting) PROVE TitleTellsTruth'
      <3>1. CASE StopBranch(m, waiting)
        BY <3>1 DEF StopBranch, DidFinish
      <3>2. CASE StartBranch(m, waiting)
        BY <3>2 DEF StartBranch
      <3> QED
        BY <2>2, <3>1, <3>2 DEF Toggle
    <2>3. ASSUME NEW m \in Miners, Press(m) PROVE TitleTellsTruth'
      BY <2>2, <2>3 DEF Press
    <2>4. ASSUME NEW m \in Miners, FireRestart(m) PROVE TitleTellsTruth'
      BY <2>2, <2>4 DEF FireRestart
    <2>5. ASSUME NEW m \in Miners, CloseWindow(m) PROVE TitleTellsTruth'
      <3>1. CASE Connected(m)
        BY <2>5, <3>1 DEF CloseWindow, DidFinish
      <3>2. CASE ~ Connected(m)
        <4>1. m \notin running
          BY <3>2 DEF Connected, FlagMatchesTask
        <4> QED
          BY <2>5, <3>2, <4>1 DEF CloseWindow
      <3> QED
        BY <3>1, <3>2
    <2>6. ASSUME NEW m \in Miners, EndOfFile(m) PROVE TitleTellsTruth'
      BY <2>6 DEF EndOfFile, DidFinish
    <2> QED
      BY <2>1, <2>3, <2>4, <2>5, <2>6
      DEF Next, vars, buttons, ChoosePreference, Quit, Output, ProcessEnds
  <1> QED
    BY <1>1, <1>2, FlagIsRight, TypeCorrect, PTL DEF SafeSpec

(* A visible dock reading, on which quitting is decided, is that of a      *)
(* running miner (AppDelegate.m:383), whatever fails.                      *)
THEOREM ReadingsAreOfMiners == SafeSpec => []ReadingMeansRunning
  <1> USE DEF ReadingMeansRunning
  <1>1. Init => ReadingMeansRunning
    BY DEF Init
  <1>2. TypeOK /\ FlagMatchesTask /\ Unbroken /\ ReadingMeansRunning /\ [Next]_vars
          => ReadingMeansRunning'
    <2> SUFFICES ASSUME TypeOK, FlagMatchesTask, Unbroken, ReadingMeansRunning, [Next]_vars
                 PROVE  ReadingMeansRunning'
      OBVIOUS
    <2> USE DEF Unbroken, NoneBroken
    <2>1. CASE reading' \subseteq reading /\ UNCHANGED running
      BY <2>1
    <2>2. ASSUME NEW m \in Miners, NEW waiting, Toggle(m, waiting)
          PROVE  ReadingMeansRunning'
      <3>1. CASE StopBranch(m, waiting)
        BY <3>1 DEF StopBranch, DidFinish
      <3>2. CASE StartBranch(m, waiting)
        <4>1. reading' \subseteq reading \union {m} /\ running \subseteq running'
          BY <3>2 DEF StartBranch
        <4>2. m \in running' \/ (m = "cpu" /\ "conf" \in Faults)
          BY <3>2 DEF StartBranch
        <4> QED
          BY <4>1, <4>2
      <3> QED
        BY <2>2, <3>1, <3>2 DEF Toggle
    <2>3. ASSUME NEW m \in Miners, Press(m) PROVE ReadingMeansRunning'
      BY <2>2, <2>3 DEF Press
    <2>4. ASSUME NEW m \in Miners, FireRestart(m) PROVE ReadingMeansRunning'
      BY <2>2, <2>4 DEF FireRestart
    <2>5. ASSUME NEW m \in Miners, CloseWindow(m) PROVE ReadingMeansRunning'
      <3>1. CASE Connected(m)
        BY <2>5, <3>1 DEF CloseWindow, DidFinish
      <3>2. CASE ~ Connected(m)
        <4>1. reading' = reading /\ (task[m] = "broken" => running' = running)
          BY <2>5, <3>2 DEF CloseWindow
        <4>2. running \ {m} \subseteq running'
          BY <2>5, <3>2 DEF CloseWindow
        <4>3. \/ task[m] = "broken"
              \/ m \notin running
              \/ m = "cpu" /\ "launch" \in Faults
          BY <3>2 DEF Connected, FlagMatchesTask
        <4> QED
          BY <4>1, <4>2, <4>3
      <3> QED
        BY <3>1, <3>2
    <2>6. ASSUME NEW m \in Miners, Output(m) PROVE ReadingMeansRunning'
      <3>1. m \in running
        BY <2>6 DEF Output, Connected, FlagMatchesTask
      <3>2. running' = running
        BY <2>6 DEF Output, buttons
      <3>3. reading' \subseteq reading \union {m}
        BY <2>6 DEF Output, ShowReadings
      <3> QED
        BY <3>1, <3>2, <3>3
    <2>7. ASSUME NEW m \in Miners, EndOfFile(m) PROVE ReadingMeansRunning'
      BY <2>7 DEF EndOfFile, DidFinish
    <2> QED
      BY <2>1, <2>3, <2>4, <2>5, <2>6, <2>7
      DEF Next, vars, buttons, dock, ChoosePreference, Quit, ProcessEnds
  <1> QED
    BY <1>1, <1>2, FlagIsRight, TypeCorrect, PTL DEF SafeSpec

-----------------------------------------------------------------------------
(* Quitting.  Whoever shows a reading when started and has a process has a *)
(* visible reading, because start: shows it, unless the preference hid it: *)
(* only the miner's own stop or end hides it otherwise.                    *)
Guarded ==
    /\ \A m \in ShownAtStart : Connected(m) => m \in reading \union concealed
    /\ quit => \A m \in ShownAtStart \ concealed : ~ Connected(m)

(* The quit dialog lets none of them slip through, even when launches are  *)
(* refused, handlers raise and restarts are pending.                       *)
THEOREM QuitIsSafe == SafeSpec => []QuitLeavesNoMiner
  <1>1. Init => Guarded
    BY DEF Init, Guarded, Connected, ShownAtStart
  <1>2. TypeOK /\ Guarded /\ [Next]_vars => Guarded'
    <2> SUFFICES ASSUME TypeOK, Guarded, [Next]_vars PROVE Guarded'
      OBVIOUS
    <2> USE DEF Guarded, Connected, ShownAtStart
    <2>1. CASE UNCHANGED vars
      BY <2>1 DEF vars, dock
    <2>2. CASE ChoosePreference
      BY <2>2 DEF ChoosePreference
    <2>3. CASE Quit
      BY <2>3 DEF Quit, dock
    <2>4. ASSUME NEW m \in Miners, NEW waiting, Toggle(m, waiting), ~ quit, UNCHANGED quit
          PROVE  Guarded'
      <3>1. CASE StopBranch(m, waiting)
        <4>1. CASE task[m] = "broken"
          BY <2>4, <3>1, <4>1 DEF StopBranch
        <4>2. CASE task[m] # "broken"
          BY <2>4, <3>1, <4>2 DEF StopBranch, DidFinish, TypeOK
        <4> QED
          BY <4>1, <4>2
      <3>2. CASE StartBranch(m, waiting)
        BY <2>4, <3>2 DEF StartBranch, TypeOK
      <3> QED
        BY <2>4, <3>1, <3>2 DEF Toggle
    <2>5. ASSUME NEW m \in Miners, Press(m) PROVE Guarded'
      BY <2>4, <2>5 DEF Press
    <2>6. ASSUME NEW m \in Miners, FireRestart(m) PROVE Guarded'
      BY <2>4, <2>6 DEF FireRestart
    <2>7. ASSUME NEW m \in Miners, CloseWindow(m) PROVE Guarded'
      <3>1. ~ quit /\ UNCHANGED <<quit, concealed>>
        BY <2>7 DEF CloseWindow
      <3>2. CASE Connected(m)
        BY <2>7, <3>1, <3>2 DEF CloseWindow, DidFinish, TypeOK
      <3>3. CASE ~ Connected(m)
        BY <2>7, <3>1, <3>3 DEF CloseWindow, TypeOK
      <3> QED
        BY <3>2, <3>3
    <2>8. ASSUME NEW m \in Miners, Output(m) PROVE Guarded'
      <3>1. reading \union concealed \subseteq reading' \union concealed'
        <4>1. CASE ShowReadings(m)
          BY <4>1, MinersAssumption DEF ShowReadings, TypeOK
        <4>2. CASE UNCHANGED <<reading, concealed>>
          BY <4>2
        <4> QED
          BY <2>8, <4>1, <4>2 DEF Output
      <3>2. ~ quit /\ UNCHANGED <<quit, task>>
        BY <2>8 DEF Output
      <3> QED
        BY <3>1, <3>2
    <2>9. ASSUME NEW m \in Miners, EndOfFile(m) PROVE Guarded'
      BY <2>9 DEF EndOfFile, DidFinish, TypeOK
    <2>10. ASSUME NEW m \in Miners, ProcessEnds(m) PROVE Guarded'
      BY <2>10 DEF ProcessEnds, dock, TypeOK
    <2> QED
      BY <2>1, <2>2, <2>3, <2>5, <2>6, <2>7, <2>8, <2>9, <2>10 DEF Next
  <1>3. Guarded => QuitLeavesNoMiner
    BY DEF Guarded, Connected, QuitLeavesNoMiner, ShownAtStart
  <1> QED
    BY <1>1, <1>2, <1>3, TypeCorrect, PTL DEF SafeSpec

-----------------------------------------------------------------------------
(* The delayed restart.  A restart waits only for a miner that is wanted   *)
(* and not running and whose tag says that the user did not stop it; there *)
(* is never more than one.  A miner whose launch was refused cannot be     *)
(* stopped, and never ends.  The user who presses meanwhile (Hasty) breaks *)
(* it.                                                                     *)
Due ==
    \A m \in Miners :
        /\ pending[m] > 0 => m \in Restarting /\ m \notin running
        /\ pending[m] <= 1
        /\ m \in Restarting /\ m \in running /\ task[m] # "broken" => m \notin tagged
        /\ m \in Restarting /\ m \in wanted => m \in running \/ pending[m] > 0
        /\ m \in Restarting /\ (m \in running \/ pending[m] > 0) => m \in wanted \/ task[m] = "broken"

LEMMA DueStep ==
  ASSUME Hasty = {}, TypeOK, FlagMatchesTask, Due, [Next]_vars
  PROVE  /\ Due'
         /\ \A m \in Miners : pending'[m] < pending[m] => m \in wanted /\ m \in running'
  <1>1. CASE UNCHANGED vars
    BY <1>1 DEF vars, buttons, Due, TypeOK
  <1>2. CASE ChoosePreference
    BY <1>2 DEF ChoosePreference, buttons, Due, TypeOK
  <1>3. CASE Quit
    BY <1>3 DEF Quit, buttons, Due, TypeOK
  <1>4. ASSUME NEW m \in Miners, Press(m)
        PROVE  Due' /\ pending' = pending
    <2>1. pending[m] = 0
      BY <1>4 DEF Press, TypeOK
    <2>2. CASE StopBranch(m, pending)
      <3>1. /\ tagged' = tagged \union ({m} \intersect Restarting)
            /\ pending' = pending
            /\ wanted' = wanted \ {m}
        BY <1>4, <2>2 DEF Press, StopBranch, DidFinish
      <3>2. CASE task[m] = "broken"
        <4>1. running' = running /\ task' = task
          BY <2>2, <3>2 DEF StopBranch
        <4> QED
          BY <2>1, <3>1, <3>2, <4>1 DEF Due, TypeOK
      <3>3. CASE task[m] # "broken"
        <4>1. running' = running \ {m} /\ task' = [task EXCEPT ![m] = "nil"]
          BY <2>2, <3>3 DEF StopBranch, DidFinish
        <4> QED
          BY <2>1, <3>1, <3>3, <4>1 DEF Due, TypeOK
      <3> QED
        BY <3>2, <3>3
    <2>3. CASE StartBranch(m, pending)
      <3>1. /\ tagged' = tagged \ {m}
            /\ pending' = pending
            /\ wanted' = wanted \union {m}
            /\ m \in Restarting => running' = running \union {m}
            /\ running \subseteq running' /\ running' \subseteq running \union {m}
            /\ \A n \in Miners \ {m} : task'[n] = task[n]
        BY <1>4, <2>3 DEF Press, StartBranch, TypeOK
      <3> QED
        BY <2>1, <3>1 DEF Due, TypeOK
    <2> QED
      BY <1>4, <2>2, <2>3 DEF Press, Toggle
  <1>5. ASSUME NEW m \in Miners, CloseWindow(m)
        PROVE  Due' /\ pending' = pending
    <2>1. m \notin Restarting
      BY <1>5, MinersAssumption DEF CloseWindow
    <2>2. /\ running \ {m} \subseteq running' /\ running' \subseteq running
          /\ wanted' = wanted \ {m}
          /\ UNCHANGED tagged
          /\ \A n \in Miners \ {m} : task'[n] = task[n]
      BY <1>5 DEF CloseWindow, DidFinish, TypeOK
    <2>3. pending' = pending
      <3>1. CASE Connected(m)
        BY <1>5, <2>1, <3>1 DEF CloseWindow, DidFinish
      <3>2. CASE ~ Connected(m)
        BY <1>5, <3>2 DEF CloseWindow
      <3> QED
        BY <3>1, <3>2
    <2> QED
      BY <2>1, <2>2, <2>3 DEF Due, TypeOK
  <1>6. ASSUME NEW m \in Miners, FireRestart(m)
        PROVE  /\ Due'
               /\ pending' = [pending EXCEPT ![m] = 0]
               /\ m \in wanted /\ m \in running'
    <2>1. pending[m] = 1 /\ m \in Restarting /\ m \notin running /\ m \in wanted
      BY <1>6 DEF FireRestart, Due, FlagMatchesTask, TypeOK
    <2>2. StartBranch(m, [pending EXCEPT ![m] = @ - 1])
      BY <1>6, <2>1 DEF FireRestart, Toggle, StopBranch
    <2>3. /\ tagged' = tagged \ {m}
          /\ running' = running \union {m}
          /\ pending' = [pending EXCEPT ![m] = 0]
          /\ wanted' = wanted
          /\ \A n \in Miners \ {m} : task'[n] = task[n]
      BY <1>6, <2>1, <2>2 DEF StartBranch, FireRestart, TypeOK
    <2> QED
      BY <2>1, <2>3 DEF Due, TypeOK
  <1>7. ASSUME NEW m \in Miners, Output(m)
        PROVE  Due' /\ pending' = pending
    BY <1>7 DEF Output, buttons, Due
  <1>8. ASSUME NEW m \in Miners, EndOfFile(m)
        PROVE  /\ Due'
               /\ \A n \in Miners : pending'[n] >= pending[n]
    <2>1. m \in running /\ task[m] # "broken"
      BY <1>8 DEF EndOfFile, FlagMatchesTask
    <2>2. pending[m] = 0
      BY <2>1 DEF Due, TypeOK
    <2>3. m \in Restarting => m \notin tagged
      BY <2>1 DEF Due
    <2>4. /\ running' = running \ {m}
          /\ UNCHANGED <<tagged, wanted>>
          /\ \A n \in Miners \ {m} : task'[n] = task[n]
          /\ pending' = IF m \in Restarting THEN [pending EXCEPT ![m] = 1] ELSE pending
      BY <1>8, <2>2, <2>3 DEF EndOfFile, DidFinish, TypeOK
    <2>5. \A n \in Miners : pending'[n] = IF n = m /\ m \in Restarting THEN 1 ELSE pending[n]
      BY <2>4 DEF TypeOK
    <2>6. \A n \in Miners : pending[n] \in Nat
      BY DEF TypeOK
    <2> QED
      BY <2>1, <2>2, <2>3, <2>4, <2>5, <2>6 DEF Due
  <1>9. ASSUME NEW m \in Miners, ProcessEnds(m)
        PROVE  Due' /\ pending' = pending
    BY <1>9 DEF ProcessEnds, buttons, Due, TypeOK
  <1>10. \A n \in Miners : pending[n] \in Nat
    BY DEF TypeOK
  <1>11. ASSUME pending' = pending
         PROVE  \A m \in Miners : ~ (pending'[m] < pending[m])
    BY <1>10, <1>11
  <1>12. ASSUME NEW m \in Miners, FireRestart(m), NEW n \in Miners, pending'[n] < pending[n]
         PROVE  n \in wanted /\ n \in running'
    <2>1. n = m
      BY <1>6, <1>10, <1>12 DEF TypeOK
    <2> QED
      BY <1>6, <1>12, <2>1
  <1>13. ASSUME NEW m \in Miners, EndOfFile(m), NEW n \in Miners
         PROVE  ~ (pending'[n] < pending[n])
    BY <1>8, <1>10, <1>13 DEF EndOfFile, DidFinish, TypeOK
  <1>14. Due'
    BY <1>1, <1>2, <1>3, <1>4, <1>5, <1>6, <1>7, <1>8, <1>9 DEF Next
  <1>15. ASSUME NEW n \in Miners, pending'[n] < pending[n]
         PROVE  n \in wanted /\ n \in running'
    <2>1. ~ (UNCHANGED vars \/ ChoosePreference \/ Quit)
      BY <1>11, <1>15 DEF vars, ChoosePreference, Quit
    <2>2. PICK m \in Miners : \/ Press(m) \/ CloseWindow(m) \/ FireRestart(m)
                            \/ Output(m) \/ EndOfFile(m) \/ ProcessEnds(m)
      BY <2>1 DEF Next
    <2>3. FireRestart(m)
      BY <1>4, <1>5, <1>7, <1>9, <1>11, <1>13, <1>15, <2>2
    <2> QED
      BY <1>12, <1>15, <2>3
  <1> QED
    BY <1>14, <1>15

LEMMA InitDue == Init => Due
  <1> SUFFICES ASSUME Init PROVE Due
    OBVIOUS
  <1>1. \A m \in Miners : pending[m] = 0
    BY DEF Init
  <1>2. tagged = {}
    BY DEF Init
  <1>3. \A m \in Restarting : m \in wanted <=> m \in running
    <2>1. PICK auto \in SUBSET Miners :
             \E unready \in SUBSET (IF "conf" \in Faults THEN auto \intersect {"cpu"} ELSE {}) :
                running = auto \ unready /\ wanted = auto
      BY DEF Init
    <2>2. PICK unready \in SUBSET (IF "conf" \in Faults THEN auto \intersect {"cpu"} ELSE {}) :
             running = auto \ unready /\ wanted = auto
      BY <2>1
    <2>3. unready \subseteq {"cpu"}
      BY <2>2
    <2> QED
      BY <2>2, <2>3
  <1>4. ASSUME NEW m \in Miners
        PROVE  pending[m] <= 1 /\ ~ (pending[m] > 0)
    <2>1. pending[m] = 0
      BY <1>1
    <2> QED
      BY <2>1
  <1> QED
    BY <1>2, <1>3, <1>4 DEF Due

(* As long as the user waits for a restart that is due, what was asked for *)
(* runs or is about to, what was stopped stays stopped.                    *)
THEOREM RestartsAreDue ==
  ASSUME Hasty = {}
  PROVE  SafeSpec => []WantedIsServed
  <1>1. Due => WantedIsServed
    BY DEF Due, WantedIsServed
  <1>2. TypeOK /\ FlagMatchesTask /\ Due /\ [Next]_vars
          => Due'
    BY DueStep
  <1> QED
    BY <1>1, <1>2, InitDue, FlagIsRight, TypeCorrect, PTL DEF SafeSpec

(* And a restart that fires starts a miner that is wanted.                 *)
THEOREM RestartsRestart ==
  ASSUME Hasty = {}
  PROVE  SafeSpec => RestartRestarts
  <1>1. TypeOK /\ FlagMatchesTask /\ Due /\ [Next]_vars
          => /\ Due'
             /\ [\A m \in Miners : pending'[m] < pending[m] => m \in wanted /\ m \in running']_vars
    BY DueStep
  <1> QED
    BY <1>1, InitDue, FlagIsRight, TypeCorrect, PTL DEF SafeSpec, RestartRestarts

(* The bound on waiting restarts cuts off nothing that such a user can do: *)
(* a wrapper whose end is still to be reported never has a restart waiting *)
(* beside it, so that the end of file is not kept back by the bound, which *)
(* the code has not (bfgminerViewController.m:914).                        *)
BoundIsIdle == \A m \in Miners : Connected(m) => pending[m] = 0

THEOREM RestartsDoNotPileUp ==
  ASSUME Hasty = {}
  PROVE  SafeSpec => []BoundIsIdle
  <1>1. TypeOK /\ FlagMatchesTask /\ Due => BoundIsIdle
    <2> SUFFICES ASSUME TypeOK, FlagMatchesTask, Due, NEW m \in Miners, Connected(m)
                 PROVE  pending[m] = 0
      BY DEF BoundIsIdle
    <2>1. m \in running
      BY DEF FlagMatchesTask, Connected
    <2>2. pending[m] \in Nat /\ ~ (pending[m] > 0)
      BY <2>1, MinersAssumption DEF Due, TypeOK
    <2> QED
      BY <2>2
  <1>2. TypeOK /\ FlagMatchesTask /\ Due /\ [Next]_vars => Due'
    BY DueStep
  <1> QED
    BY <1>1, <1>2, InitDue, FlagIsRight, TypeCorrect, PTL DEF SafeSpec

-----------------------------------------------------------------------------
(* The use of the contract.  A wrapper whose end was not reported is the   *)
(* controller's only hold on its process: it is not replaced by another,   *)
(* and when it is gone the controller was told (OneShotTask!Complete or    *)
(* Stop), so that flag, button and dock reading are reset with it.         *)
LetGoKnowingly(m) ==
    Connected(m) /\ task'[m] # task[m] =>
        \/ task[m] = "live" /\ task'[m] = "exited"
        \/ /\ task'[m] \in {"nil", "spent"}
           /\ m \notin running' \union titled' \union reading' \union readBack'

(* No process is orphaned, whatever fails and whoever presses: of the ways *)
(* a controller gives up its wrapper, the start branch, which releases the *)
(* old one without a word, never meets one that is connected.              *)
THEOREM NoMinerIsOrphaned == SafeSpec => [][\A m \in Miners : LetGoKnowingly(m)]_vars
  <1> DEFINE AllKnow == \A m \in Miners : LetGoKnowingly(m)
  <1>1. TypeOK /\ FlagMatchesTask /\ [Next]_vars => [AllKnow]_vars
    <2> SUFFICES ASSUME TypeOK, FlagMatchesTask, Next, NEW m \in Miners, Connected(m),
                        task'[m] # task[m]
                 PROVE  LetGoKnowingly(m)
      BY DEF LetGoKnowingly
    <2> USE DEF LetGoKnowingly, Connected
    <2>1. m \in running
      BY DEF FlagMatchesTask
    <2>2. ASSUME NEW n \in Miners, NEW waiting, Toggle(n, waiting) PROVE LetGoKnowingly(m)
      <3>1. CASE StopBranch(n, waiting)
        BY <3>1 DEF StopBranch, DidFinish, TypeOK
      <3>2. CASE StartBranch(n, waiting)
        BY <2>1, <3>2 DEF StartBranch, TypeOK
      <3> QED
        BY <2>2, <3>1, <3>2 DEF Toggle
    <2>3. ASSUME NEW n \in Miners, CloseWindow(n) PROVE LetGoKnowingly(m)
      BY <2>3 DEF CloseWindow, DidFinish, TypeOK
    <2>4. ASSUME NEW n \in Miners, EndOfFile(n) PROVE LetGoKnowingly(m)
      BY <2>4 DEF EndOfFile, DidFinish, TypeOK
    <2>5. ASSUME NEW n \in Miners, ProcessEnds(n) PROVE LetGoKnowingly(m)
      BY <2>5 DEF ProcessEnds, TypeOK
    <2> QED
      BY <2>2, <2>3, <2>4, <2>5
      DEF Next, ChoosePreference, Quit, Press, FireRestart, Output
  <1> QED
    BY <1>1, FlagIsRight, TypeCorrect, PTL DEF SafeSpec

-----------------------------------------------------------------------------
(* Liveness.  That an end of file which is due can be delivered and a      *)
(* restart which is due can fire is a hypothesis: the prover does not      *)
(* expand ENABLED.  It is true by the shape of the two actions: each is    *)
(* its guard and an assignment of every variable, one that changes some.   *)
CanServe(m) ==
    /\ [](~ quit /\ task[m] = "exited" /\ m \notin deaf /\ pending[m] < MaxPending
            => ENABLED <<EndOfFile(m)>>_vars)
    /\ [](~ quit /\ pending[m] > 0 => ENABLED <<FireRestart(m)>>_vars)

(* The way of a miner that stopped by itself: its end is on its way, then  *)
(* its restart, then it was launched again, unless one of the reasons not  *)
(* to came between.                                                        *)
Restarted(m) == task[m] \in {"live", "broken"} \/ m \notin wanted \/ m \in deaf \/ quit
Stopped(m)   == task[m] = "exited" /\ ~ Restarted(m)
Waiting(m)   == pending[m] > 0 /\ ~ Restarted(m)

LiveInv == TypeOK /\ FlagMatchesTask /\ Due

LEMMA StoppedStep ==
  ASSUME Hasty = {}, MaxPending # 0, LiveInv, [Next]_vars, NEW m \in Restarting
  PROVE  /\ Stopped(m) => ~ quit /\ m \notin deaf /\ pending[m] < MaxPending
         /\ Stopped(m) => (Stopped(m) \/ Waiting(m) \/ Restarted(m))'
         /\ Stopped(m) /\ EndOfFile(m) => Waiting(m)' \/ Restarted(m)'
         /\ Waiting(m) => (Waiting(m) \/ Restarted(m))'
         /\ Waiting(m) /\ FireRestart(m) => Restarted(m)'
  <1> USE DEF Stopped, Waiting, Restarted, LiveInv
  <1>1. /\ m \in Miners /\ m # "cpu" /\ m # "cg" /\ pending[m] \in Nat
        /\ MaxPending \in Nat /\ MaxPending >= 1
    BY MinersAssumption DEF TypeOK
  <1>2. Stopped(m) => m \in running /\ pending[m] = 0 /\ m \notin tagged
    BY <1>1 DEF FlagMatchesTask, Due
  <1>3. Waiting(m) => m \notin running /\ pending[m] = 1 /\ task[m] # "exited"
    BY <1>1 DEF FlagMatchesTask, Due
  <1>4. ASSUME Stopped(m), EndOfFile(m) PROVE Waiting(m)' \/ Restarted(m)'
    <2>1. m \in Restarting \ tagged
      BY <1>2, <1>4
    <2>2. pending' = [pending EXCEPT ![m] = pending[m] + 1]
      BY <1>4, <2>1 DEF EndOfFile, DidFinish
    <2>3. pending'[m] = pending[m] + 1
      BY <1>1, <2>2 DEF TypeOK
    <2>4. pending'[m] > 0
      BY <1>1, <2>3
    <2> QED
      BY <2>4
  <1>5. ASSUME Waiting(m), FireRestart(m) PROVE Restarted(m)'
    BY <1>1, <1>3, <1>5 DEF FireRestart, Toggle, StopBranch, StartBranch, TypeOK
  <1>6. ASSUME task'[m] = task[m], pending'[m] = pending[m]
        PROVE  /\ Stopped(m) => (Stopped(m) \/ Restarted(m))'
               /\ Waiting(m) => (Waiting(m) \/ Restarted(m))'
    BY <1>6
  <1>7. /\ Stopped(m) => (Stopped(m) \/ Waiting(m) \/ Restarted(m))'
        /\ Waiting(m) => (Waiting(m) \/ Restarted(m))'
    <2>1. CASE UNCHANGED <<task, pending>>
      BY <1>6, <2>1
    <2>2. ASSUME NEW n \in Miners, Press(n)
          PROVE  \/ task'[m] = task[m] /\ pending'[m] = pending[m]
                 \/ n = m /\ ~ Waiting(m) /\ (Stopped(m) => m \notin wanted')
      <3>1. CASE n = m
        BY <1>2, <1>3, <2>2, <3>1 DEF Press
      <3>2. CASE n # m
        BY <2>2, <3>2 DEF Press, Toggle, StopBranch, StartBranch, DidFinish, TypeOK
      <3> QED
        BY <3>1, <3>2
    <2>3. ASSUME NEW n \in Miners, CloseWindow(n)
          PROVE  task'[m] = task[m] /\ pending'[m] = pending[m]
      <3>1. n # m
        BY <1>1, <2>3, MinersAssumption DEF CloseWindow
      <3>2. task' = task \/ task' = [task EXCEPT ![n] = "nil"]
        BY <2>3 DEF CloseWindow
      <3>3. pending' = pending \/ pending' = [pending EXCEPT ![n] = @ + 1]
        BY <2>3 DEF CloseWindow, DidFinish
      <3> QED
        BY <3>1, <3>2, <3>3 DEF TypeOK
    <2>4. ASSUME NEW n \in Miners, FireRestart(n)
          PROVE  \/ task'[m] = task[m] /\ pending'[m] = pending[m]
                 \/ n = m /\ ~ Stopped(m)
      <3>1. CASE n = m
        BY <1>2, <2>4, <3>1 DEF FireRestart
      <3>2. CASE n # m
        BY <2>4, <3>2 DEF FireRestart, Toggle, StopBranch, StartBranch, DidFinish, TypeOK
      <3> QED
        BY <3>1, <3>2
    <2>5. ASSUME NEW n \in Miners, EndOfFile(n)
          PROVE  \/ task'[m] = task[m] /\ pending'[m] = pending[m]
                 \/ n = m /\ ~ Waiting(m)
      <3>1. CASE n = m
        BY <1>3, <2>5, <3>1 DEF EndOfFile
      <3>2. CASE n # m
        BY <2>5, <3>2 DEF EndOfFile, DidFinish, TypeOK
      <3> QED
        BY <3>1, <3>2
    <2>6. ASSUME NEW n \in Miners, ProcessEnds(n)
          PROVE  \/ task'[m] = task[m] /\ pending'[m] = pending[m]
                 \/ n = m /\ ~ Waiting(m) /\ ~ Stopped(m)
      <3>1. CASE n = m
        BY <2>6, <3>1 DEF ProcessEnds
      <3>2. CASE n # m
        BY <2>6, <3>2 DEF ProcessEnds, TypeOK
      <3> QED
        BY <3>1, <3>2
    <2>7. CASE \E n \in Miners : Press(n)
      BY <1>6, <2>2, <2>7
    <2>8. CASE \E n \in Miners : CloseWindow(n)
      BY <1>6, <2>3, <2>8
    <2>9. CASE \E n \in Miners : FireRestart(n)
      BY <1>5, <1>6, <2>4, <2>9
    <2>10. CASE \E n \in Miners : EndOfFile(n)
      BY <1>4, <1>6, <2>5, <2>10
    <2>11. CASE \E n \in Miners : ProcessEnds(n)
      BY <1>6, <2>6, <2>11
    <2> QED
      BY <2>1, <2>7, <2>8, <2>9, <2>10, <2>11 DEF Next, vars, ChoosePreference, Quit, Output
  <1>8. Stopped(m) => pending[m] < MaxPending
    BY <1>1, <1>2
  <1>9. Stopped(m) => ~ quit /\ m \notin deaf
    OBVIOUS
  <1> HIDE DEF Stopped, Waiting, Restarted
  <1> QED
    BY <1>4, <1>5, <1>7, <1>8, <1>9

LEMMA SuddenStopMoves ==
  ASSUME Hasty = {}, MaxPending # 0, NEW m \in Restarting
  PROVE  SafeSpec /\ Served(m) /\ CanServe(m) => (task[m] = "exited" ~> Restarted(m))
  <1> DEFINE Over == task[m] = "exited"
  <1>1. LiveInv /\ [Next]_vars =>
         /\ Stopped(m) => ~ quit /\ m \notin deaf /\ pending[m] < MaxPending
         /\ Stopped(m) => (Stopped(m) \/ Waiting(m) \/ Restarted(m))'
         /\ Stopped(m) /\ EndOfFile(m) => Waiting(m)' \/ Restarted(m)'
         /\ Waiting(m) => (Waiting(m) \/ Restarted(m))'
         /\ Waiting(m) /\ FireRestart(m) => Restarted(m)'
    BY StoppedStep
  <1>2. Waiting(m) => ~ quit /\ pending[m] > 0
    BY DEF Waiting, Restarted
  <1>3. Over => Stopped(m) \/ Restarted(m)
    BY DEF Stopped
  <1>4. Stopped(m) => task[m] = "exited"
    BY DEF Stopped
  <1>5. SafeSpec => []LiveInv
    <2>1. TypeOK /\ FlagMatchesTask /\ Due /\ [Next]_vars => Due'
      BY DueStep
    <2>2. TypeOK /\ FlagMatchesTask /\ Due => LiveInv
      BY DEF LiveInv
    <2> QED
      BY <2>1, <2>2, InitDue, FlagIsRight, TypeCorrect, PTL DEF SafeSpec
  <1> HIDE DEF Over
  <1>6. SafeSpec /\ Served(m) /\ CanServe(m) => (Over ~> Restarted(m))
    BY <1>1, <1>2, <1>3, <1>4, <1>5, PTL DEF SafeSpec, Served, CanServe
  <1> QED
    BY <1>6 DEF Over

(* A miner that stops by itself is launched again, as long as the user     *)
(* waits, no handler raised and there is room for a restart at all: its    *)
(* end reaches a controller whose tag says that nobody stopped it, and the *)
(* restart that is then due finds the flag clear.                          *)
THEOREM SuddenStopsRestart ==
  ASSUME Hasty = {}, MaxPending # 0
  PROVE  Spec /\ (\A m \in Miners : CanServe(m)) => SuddenStopRestarts
  <1> SUFFICES ASSUME Spec, \A m \in Miners : CanServe(m), NEW m \in Restarting
               PROVE  task[m] = "exited" ~> Restarted(m)
    BY DEF SuddenStopRestarts, Restarted
  <1>1. SafeSpec /\ Served(m) /\ CanServe(m)
    BY DEF Spec
  <1> QED
    BY <1>1, SuddenStopMoves

=============================================================================
