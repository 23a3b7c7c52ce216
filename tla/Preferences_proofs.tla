-------------------------- MODULE Preferences_proofs --------------------------
(***************************************************************************)
(* Proofs about Preferences, for any boxes, log lengths and answers of the *)
(* update server: the state keeps its type, the menu opens a window that   *)
(* says what the application does, and saving it changes nothing but the   *)
(* boxes, each with the exceptions the properties name.                    *)
(***************************************************************************)
EXTENDS Preferences, TLAPS

(* The actions of Next one by one, the clicks with what they change.       *)
LEMMA Steps ==
    ASSUME Next
    PROVE  \/ \E option \in BOOLEAN, answer \in Answers : Launch(option, answer)
           \/ Quit
           \/ Open
           \/ SaveAndClose
           \/ OpenPool
           \/ CloseByRedButton
           \/ \E m \in Miners : ClickStart(m)
           \/ ClickDock
           \/ ClickScroll
           \/ ClickSpeech
           \/ ClickUpdates
           \/ \E n \in Lengths \union {Unset} : TypeLength(n)
           \/ SavePool
  BY DEF Next

-----------------------------------------------------------------------------
(* Type correctness.                                                       *)

LEMMA InitTypes == Init => TypeOK
  <1> SUFFICES ASSUME Init PROVE TypeOK
    OBVIOUS
  <1>1. NoEntries \in Entries
    BY DEF NoEntries, Entries
  <1>2. NibControls \in Controls
    BY DEF NibControls, Controls
  <1>3. {running, window, tile, loaded, reset, clicked} \subseteq BOOLEAN
    BY DEF Init
  <1>4. window => running
    BY DEF Init
  <1> QED BY <1>1, <1>2, <1>3, <1>4 DEF Init, TypeOK

LEMMA LaunchTypes ==
    ASSUME TypeOK, NEW option \in BOOLEAN, NEW answer \in Answers, Launch(option, answer)
    PROVE  TypeOK'
  <1>1. NoEntries \in Entries
    BY DEF NoEntries, Entries
  <1>2. LoadAtLaunch \in Controls
    BY DEF TypeOK, LoadAtLaunch, NibControls, Controls, Entries
  <1>3. entry.pool \in BOOLEAN
    BY DEF TypeOK, Entries
  <1> QED BY <1>1, <1>2, <1>3 DEF TypeOK, Launch

LEMMA ClickTypes ==
    ASSUME TypeOK, NEW c \in Controls, NEW e \in Entries, Set(c, e)
    PROVE  TypeOK'
  BY DEF TypeOK, Set, Change

LEMMA TypeInductive == TypeOK /\ [Next]_vars => TypeOK'
  <1> SUFFICES ASSUME TypeOK, [Next]_vars PROVE TypeOK'
    OBVIOUS
  <1>1. control \in Controls /\ entry \in Entries
    BY DEF TypeOK
  <1>2. ASSUME NEW option \in BOOLEAN, NEW answer \in Answers, Launch(option, answer)
        PROVE  TypeOK'
    BY <1>2, LaunchTypes
  <1>3. CASE Quit
    BY <1>3 DEF Quit, TypeOK
  <1>4. CASE Open
    <2>1. Load \in Controls
      <3>1. /\ entry.log \in Lengths \union {Unset} /\ control.log \in Lengths \union {Unset}
            /\ entry.start \in SUBSET Miners
            /\ control.dock \in BOOLEAN /\ control.scroll \in BOOLEAN
        BY <1>1 DEF Controls, Entries
      <3>2. (control.scroll /\ entry.scroll = Unset) \in BOOLEAN
              /\ (control.dock /\ entry.dock = Unset) \in BOOLEAN
        OBVIOUS
      <3> QED BY <1>1, <3>1, <3>2 DEF Load, Controls
    <2> QED BY <1>4, <2>1 DEF Open, TypeOK
  <1>5. CASE SaveAndClose
    <2>1. Save \in Entries
      BY <1>1 DEF Save, Controls, Entries
    <2> QED BY <1>5, <2>1 DEF SaveAndClose, TypeOK
  <1>6. CASE OpenPool
    BY <1>6 DEF OpenPool, TypeOK
  <1>7. CASE CloseByRedButton
    BY <1>7 DEF CloseByRedButton, TypeOK
  <1>8. ASSUME NEW m \in Miners, ClickStart(m) PROVE TypeOK'
    <2>1. [control EXCEPT !.start = (@ \ {m}) \union ({m} \ @)] \in Controls
      BY <1>1 DEF Controls
    <2> QED BY <1>1, <1>8, <2>1, ClickTypes DEF ClickStart
  <1>9. CASE ClickDock
    <2>1. /\ [control EXCEPT !.dock = ~ @] \in Controls
          /\ [entry EXCEPT !.dock = IF control.dock THEN "hide" ELSE Unset] \in Entries
      BY <1>1 DEF Controls, Entries
    <2> QED BY <1>9, <2>1, ClickTypes DEF ClickDock
  <1>10. CASE ClickScroll
    <2>1. /\ [control EXCEPT !.scroll = ~ @] \in Controls
          /\ [entry EXCEPT !.scroll = IF control.scroll THEN "hide" ELSE " "] \in Entries
      BY <1>1 DEF Controls, Entries
    <2> QED BY <1>10, <2>1, ClickTypes DEF ClickScroll
  <1>11. CASE ClickSpeech
    <2>1. /\ [control EXCEPT !.speech = ~ @] \in Controls
          /\ [entry EXCEPT !.speech = IF control.speech THEN "silence" ELSE Unset] \in Entries
      BY <1>1 DEF Controls, Entries
    <2> QED BY <1>1, <1>11, <2>1 DEF ClickSpeech, Change, TypeOK
  <1>12. CASE ClickUpdates
    <2>1. /\ [control EXCEPT !.update = ~ @] \in Controls
          /\ [entry EXCEPT !.checkUpdates = IF control.update THEN "nocheck" ELSE Unset]
                 \in Entries
      BY <1>1 DEF Controls, Entries
    <2> QED BY <1>12, <2>1, ClickTypes DEF ClickUpdates
  <1>13. ASSUME NEW n \in Lengths \union {Unset}, TypeLength(n) PROVE TypeOK'
    <2>1. [control EXCEPT !.log = n] \in Controls /\ [entry EXCEPT !.log = n] \in Entries
      BY <1>1 DEF Controls, Entries
    <2> QED BY <1>13, <2>1, ClickTypes DEF TypeLength
  <1>14. CASE SavePool
    <2>1. [entry EXCEPT !.pool = TRUE] \in Entries
      BY <1>1 DEF Entries
    <2> QED BY <1>1, <1>14, <2>1, ClickTypes DEF SavePool
  <1>15. CASE UNCHANGED vars
    BY <1>15 DEF vars, TypeOK
  <1> QED BY <1>2, <1>3, <1>4, <1>5, <1>6, <1>7, <1>8, <1>9, <1>10, <1>11,
             <1>12, <1>13, <1>14, <1>15, Steps

(* For any boxes, lengths and answers the state keeps its type, and the    *)
(* window is only visible while the application runs.                      *)
THEOREM TypeCorrect == Spec => []TypeOK
  <1>1. Init => TypeOK
    BY InitTypes
  <1> QED BY <1>1, TypeInductive, PTL DEF Spec

-----------------------------------------------------------------------------
(* What the menu shows and what Save changes.                              *)

(* A switch that is off has an entry; once the menu has opened the window  *)
(* a switch that is on has none, but for scrolling switched on by a click. *)
SwitchesInv ==
    running =>
        /\ ~ control.dock => entry.dock = "hide"
        /\ ~ control.scroll => entry.scroll # Unset
        /\ ~ reset => control.log = entry.log
        /\ loaded => /\ control.dock => entry.dock = Unset
                     /\ control.scroll => entry.scroll # "hide"

LEMMA SwitchesInductive == TypeOK /\ SwitchesInv /\ [Next]_vars => SwitchesInv'
  <1> SUFFICES ASSUME TypeOK, SwitchesInv, [Next]_vars PROVE SwitchesInv'
    OBVIOUS
  <1>0. /\ Unset # "hide" /\ Unset # " " /\ control \in Controls /\ entry \in Entries
        /\ window => running
    BY PreferencesAssumption DEF TypeOK
  <1>1. ASSUME NEW option \in BOOLEAN, NEW answer \in Answers, Launch(option, answer)
        PROVE  SwitchesInv'
    <2>1. LoadAtLaunch.dock /\ LoadAtLaunch.scroll /\ LoadAtLaunch.log = entry.log
      BY DEF LoadAtLaunch, NibControls
    <2>2. /\ running' /\ control' = LoadAtLaunch /\ ~ loaded'
          /\ ~ reset' => entry' = entry
      BY <1>1 DEF Launch
    <2> QED BY <2>1, <2>2 DEF SwitchesInv
  <1>2. CASE Quit
    BY <1>2 DEF Quit, SwitchesInv
  <1>3. CASE Open
    <2>1. /\ Load.dock = (control.dock /\ entry.dock = Unset)
          /\ Load.scroll = (control.scroll /\ entry.scroll = Unset)
          /\ Load.log = IF entry.log # Unset THEN entry.log ELSE control.log
      BY <1>0 DEF Load, Controls
    <2>2. entry.dock \in {Unset, "hide"}
      BY <1>0 DEF Entries
    <2>3. /\ running' = running /\ running /\ entry' = entry /\ control' = Load
          /\ reset' = reset
      BY <1>3 DEF Open
    <2> QED BY <1>0, <2>1, <2>2, <2>3 DEF SwitchesInv
  <1>4. CASE SaveAndClose
    <2>1. /\ Save.dock = (IF control.dock THEN Unset ELSE "hide")
          /\ Save.scroll = (IF control.scroll THEN Unset ELSE "hide")
          /\ Save.log = control.log
      BY <1>0 DEF Save, Entries
    <2>2. entry' = Save /\ control' = control /\ running' = running
      BY <1>4 DEF SaveAndClose
    <2> QED BY <1>0, <2>1, <2>2 DEF SwitchesInv
  <1>5. CASE OpenPool \/ CloseByRedButton
    BY <1>5 DEF OpenPool, CloseByRedButton, SwitchesInv
  <1>6. ASSUME NEW c, NEW e, Set(c, e), c.dock = control.dock,
               c.scroll = control.scroll, c.log = control.log,
               e.dock = entry.dock, e.scroll = entry.scroll, e.log = entry.log
        PROVE  SwitchesInv'
    BY <1>6 DEF Set, Change, SwitchesInv
  <1>7. \A m \in Miners : ClickStart(m) => SwitchesInv'
    BY <1>0, <1>6 DEF ClickStart, Controls
  <1>8. CASE ClickDock
    <2>1. /\ control'.dock = ~ control.dock /\ control'.scroll = control.scroll
          /\ control'.log = control.log
          /\ entry'.dock = (IF control.dock THEN "hide" ELSE Unset)
          /\ entry'.scroll = entry.scroll /\ entry'.log = entry.log
      BY <1>0, <1>8 DEF ClickDock, Set, Change, Controls, Entries
    <2>2. running /\ running' /\ reset' = reset /\ loaded' = loaded
      BY <1>0, <1>8 DEF ClickDock, Set, Change
    <2> QED BY <1>0, <2>1, <2>2 DEF SwitchesInv
  <1>9. CASE ClickScroll
    <2>1. /\ control'.scroll = ~ control.scroll /\ control'.dock = control.dock
          /\ control'.log = control.log
          /\ entry'.scroll = (IF control.scroll THEN "hide" ELSE " ")
          /\ entry'.dock = entry.dock /\ entry'.log = entry.log
      BY <1>0, <1>9 DEF ClickScroll, Set, Change, Controls, Entries
    <2>2. running /\ running' /\ reset' = reset /\ loaded' = loaded
      BY <1>0, <1>9 DEF ClickScroll, Set, Change
    <2> QED BY <1>0, <2>1, <2>2 DEF SwitchesInv
  <1>10. CASE ClickSpeech
    <2>1. /\ control'.dock = control.dock /\ control'.scroll = control.scroll
          /\ control'.log = control.log /\ entry'.log = entry.log
          /\ entry'.dock = entry.dock /\ entry'.scroll = entry.scroll
      BY <1>0, <1>10 DEF ClickSpeech, Change, Controls, Entries
    <2>2. running' = running /\ reset' = reset /\ loaded' = loaded
      BY <1>10 DEF ClickSpeech, Change
    <2> QED BY <2>1, <2>2 DEF SwitchesInv
  <1>11. CASE ClickUpdates
    BY <1>0, <1>6, <1>11 DEF ClickUpdates, Controls, Entries
  <1>12. ASSUME NEW n \in Lengths \union {Unset}, TypeLength(n) PROVE SwitchesInv'
    <2>1. /\ control'.log = n /\ entry'.log = n
          /\ control'.dock = control.dock /\ control'.scroll = control.scroll
          /\ entry'.dock = entry.dock /\ entry'.scroll = entry.scroll
      BY <1>0, <1>12 DEF TypeLength, Set, Change, Controls, Entries
    <2>2. running /\ running' /\ reset' = reset /\ loaded' = loaded
      BY <1>0, <1>12 DEF TypeLength, Set, Change
    <2> QED BY <2>1, <2>2 DEF SwitchesInv
  <1>13. CASE SavePool
    BY <1>0, <1>6, <1>13 DEF SavePool, Entries
  <1>14. CASE UNCHANGED vars
    BY <1>14 DEF vars, SwitchesInv
  <1> QED BY <1>1, <1>2, <1>3, <1>4, <1>5, <1>7, <1>8, <1>9, <1>10, <1>11,
             <1>12, <1>13, <1>14, Steps

LEMMA SwitchesHold == Spec => [](TypeOK /\ SwitchesInv)
  <1>1. Init => TypeOK
    BY InitTypes
  <1>2. Init => SwitchesInv
    BY DEF Init, SwitchesInv
  <1> QED BY <1>1, <1>2, TypeInductive, SwitchesInductive, PTL DEF Spec

(* The two switches the menu does not load: that of the speech is on until *)
(* it is clicked and follows its entry from then on, that of the updates   *)
(* follows its entry from the launch.                                      *)
NotLoadedInv ==
    running =>
        /\ ~ clicked => control.speech
        /\ clicked => (control.speech <=> entry.speech # "silence")
        /\ ~ reset => (control.update <=> entry.checkUpdates = Unset)

LEMMA NotLoadedInductive == TypeOK /\ NotLoadedInv /\ [Next]_vars => NotLoadedInv'
  <1> SUFFICES ASSUME TypeOK, NotLoadedInv, [Next]_vars PROVE NotLoadedInv'
    OBVIOUS
  <1>0. /\ Unset # "silence" /\ Unset # "nocheck" /\ control \in Controls /\ entry \in Entries
        /\ window => running
    BY PreferencesAssumption DEF TypeOK
  <1>1. ASSUME NEW option \in BOOLEAN, NEW answer \in Answers, Launch(option, answer)
        PROVE  NotLoadedInv'
    <2>1. LoadAtLaunch.speech /\ (LoadAtLaunch.update <=> entry.checkUpdates = Unset)
      BY DEF LoadAtLaunch, NibControls
    <2>2. /\ control' = LoadAtLaunch /\ ~ clicked'
          /\ ~ reset' => entry' = entry
      BY <1>1 DEF Launch
    <2> QED BY <2>1, <2>2 DEF NotLoadedInv
  <1>2. ASSUME control'.speech = control.speech, control'.update = control.update,
               entry'.speech = entry.speech, entry'.checkUpdates = entry.checkUpdates,
               running' => running, reset' = reset, clicked' = clicked
        PROVE  NotLoadedInv'
    BY <1>2 DEF NotLoadedInv
  <1>3. CASE Quit \/ OpenPool \/ CloseByRedButton \/ UNCHANGED vars
    BY <1>2, <1>3 DEF Quit, OpenPool, CloseByRedButton, vars
  <1>4. CASE Open
    BY <1>0, <1>2, <1>4 DEF Open, Load, Controls
  <1>5. CASE SaveAndClose
    BY <1>0, <1>2, <1>5 DEF SaveAndClose, Save, Entries
  <1>6. \A m \in Miners : ClickStart(m) => NotLoadedInv'
    BY <1>0, <1>2 DEF ClickStart, Set, Change, Controls
  <1>7. CASE ClickDock
    BY <1>0, <1>2, <1>7 DEF ClickDock, Set, Change, Controls, Entries
  <1>8. CASE ClickScroll
    BY <1>0, <1>2, <1>8 DEF ClickScroll, Set, Change, Controls, Entries
  <1>9. CASE ClickSpeech
    <2>1. /\ control'.speech = ~ control.speech /\ control'.update = control.update
          /\ entry'.speech = (IF control.speech THEN "silence" ELSE Unset)
          /\ entry'.checkUpdates = entry.checkUpdates
      BY <1>0, <1>9 DEF ClickSpeech, Change, Controls, Entries
    <2>2. running /\ running' /\ reset' = reset /\ clicked'
      BY <1>0, <1>9 DEF ClickSpeech, Change
    <2> QED BY <1>0, <2>1, <2>2 DEF NotLoadedInv
  <1>10. CASE ClickUpdates
    <2>1. /\ control'.update = ~ control.update /\ control'.speech = control.speech
          /\ entry'.checkUpdates = (IF control.update THEN "nocheck" ELSE Unset)
          /\ entry'.speech = entry.speech
      BY <1>0, <1>10 DEF ClickUpdates, Set, Change, Controls, Entries
    <2>2. running /\ running' /\ reset' = reset /\ clicked' = clicked
      BY <1>0, <1>10 DEF ClickUpdates, Set, Change
    <2> QED BY <1>0, <2>1, <2>2 DEF NotLoadedInv
  <1>11. \A n \in Lengths \union {Unset} : TypeLength(n) => NotLoadedInv'
    BY <1>0, <1>2 DEF TypeLength, Set, Change, Controls, Entries
  <1>12. CASE SavePool
    BY <1>0, <1>2, <1>12 DEF SavePool, Set, Change, Entries
  <1> QED BY <1>1, <1>3, <1>4, <1>5, <1>6, <1>7, <1>8, <1>9, <1>10, <1>11, <1>12, Steps

LEMMA NotLoadedHolds == Spec => []NotLoadedInv
  <1>1. Init => NotLoadedInv
    BY DEF Init, NotLoadedInv
  <1> QED BY <1>1, SwitchesHold, NotLoadedInductive, PTL DEF Spec

(* For any boxes, lengths and answers, the window the menu would open says *)
(* what the application does with the entries, but for scrolling switched  *)
(* on by a click, speech silenced in an earlier launch, and the log length *)
(* and look for updates after the defaults were removed                    *)
(* (preferencesViewController.m:62-74, 188-226).                           *)
THEOREM TheWindowIsTrue == Spec => []OpeningTellsTruth
  <1>1. TypeOK /\ SwitchesInv /\ NotLoadedInv => OpeningTellsTruth
    <2> SUFFICES ASSUME TypeOK, SwitchesInv, NotLoadedInv, running PROVE OpeningTellsTruth
      BY DEF OpeningTellsTruth
    <2>1. /\ Load.dock = (control.dock /\ entry.dock = Unset)
          /\ Load.scroll = (control.scroll /\ entry.scroll = Unset)
          /\ Load.log = IF entry.log # Unset THEN entry.log ELSE control.log
          /\ Load.start = entry.start
          /\ Load.speech = control.speech
          /\ Load.update = control.update
      BY DEF TypeOK, Load, Controls
    <2>2. Unset # "hide" /\ Unset # " " /\ entry.scroll \in {Unset, "hide", " "}
      BY PreferencesAssumption DEF TypeOK, Entries
    <2>3. {control.dock, control.scroll, control.speech, control.update} \subseteq BOOLEAN
      BY DEF TypeOK, Controls
    <2>4. Load.dock = Shows
      BY <2>1, <2>2, <2>3 DEF SwitchesInv, Shows
    <2>5. Load.scroll = (Scrolls /\ entry.scroll # " ")
      BY <2>1, <2>2, <2>3 DEF SwitchesInv, Scrolls
    <2>6. Load.speech = (Speaks \/ ~ clicked)
      BY <2>1, <2>3 DEF NotLoadedInv, Speaks
    <2>7. ~ reset => Load.log = entry.log
      BY <2>1 DEF SwitchesInv
    <2>8. ~ reset => Load.update = Looks
      BY <2>1, <2>3 DEF NotLoadedInv, Looks
    <2> QED BY <2>1, <2>4, <2>5, <2>6, <2>7, <2>8 DEF OpeningTellsTruth
  <1> QED BY <1>1, SwitchesHold, NotLoadedHolds, PTL

(* For any boxes, lengths and answers, saving a window of a session in     *)
(* which the menu has opened it changes only the miners to start           *)
(* (preferencesViewController.m:106-186).                                  *)
THEOREM SavingIsHarmless == Spec => SavingChangesOnlyBoxes
  <1> DEFINE Harmless ==
          window /\ ~ window' /\ loaded /\ ~ reset /\ entry.scroll # " " =>
              \E s \in SUBSET Miners : entry' = [entry EXCEPT !.start = s]
  <1>1. TypeOK /\ SwitchesInv /\ [Next]_vars => [Harmless]_vars
    <2> SUFFICES ASSUME TypeOK, SwitchesInv, Next,
                        window, ~ window', loaded, ~ reset, entry.scroll # " "
                 PROVE  \E s \in SUBSET Miners : entry' = [entry EXCEPT !.start = s]
      OBVIOUS
    <2>0. control \in Controls /\ entry \in Entries /\ running
      BY DEF TypeOK
    <2>1. CASE entry' = entry
      <3>1. entry' = [entry EXCEPT !.start = entry.start] /\ entry.start \in SUBSET Miners
        BY <2>0, <2>1 DEF Entries
      <3> QED BY <3>1
    <2>2. CASE SaveAndClose
      <3>1. /\ control.log = entry.log
            /\ (IF control.dock THEN Unset ELSE "hide") = entry.dock
            /\ (IF control.scroll THEN Unset ELSE "hide") = entry.scroll
        BY <2>0 DEF SwitchesInv, Entries
      <3>2. Save = [entry EXCEPT !.start = control.start]
        BY <2>0, <3>1 DEF Save, Entries
      <3>3. control.start \in SUBSET Miners
        BY <2>0 DEF Controls
      <3> QED BY <2>2, <3>2, <3>3 DEF SaveAndClose
    <2>3. \A c, e : ~ Change(c, e) /\ ~ Set(c, e)
      BY DEF Set, Change
    <2>4. CASE Quit \/ CloseByRedButton
      BY <2>1, <2>4 DEF Quit, CloseByRedButton
    <2>5. ~ Open /\ ~ OpenPool /\ \A o \in BOOLEAN, a \in Answers : ~ Launch(o, a)
      BY <2>0 DEF Open, OpenPool, Launch
    <2> QED BY <2>2, <2>3, <2>4, <2>5, Steps
            DEF ClickStart, ClickDock, ClickScroll, ClickSpeech, ClickUpdates,
                TypeLength, SavePool
  <1> QED BY <1>1, SwitchesHold, PTL DEF Spec, SavingChangesOnlyBoxes
=============================================================================
