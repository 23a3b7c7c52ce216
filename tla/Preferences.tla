----------------------------- MODULE Preferences -----------------------------
(***************************************************************************)
(* The preferences window (preferencesViewController.m) and the launch of  *)
(* the application (AppDelegate.m), over the user defaults they share.     *)
(*                                                                         *)
(* A setting is an entry of the defaults and a control in the window.  The *)
(* entries outlive the application; the controls start as the nib has them *)
(* and are loaded from the entries in two places: some at launch, and most *)
(* when the menu opens the window.  The menu and the Save button send the  *)
(* same message, which opens the window if it is hidden and otherwise      *)
(* saves and closes it.  Three more ways open it without loading, and its  *)
(* red button closes it without saving.                                    *)
(*                                                                         *)
(* Left out: the two MobileMiner fields, which nothing reads, and the old  *)
(* pool fields, which are in PoolStore.                                    *)
(***************************************************************************)
EXTENDS Integers

CONSTANTS
    Miners,     \* the miners with a box "start when MacMiner opens"
    Lengths,    \* the log lengths the user types
    Answers,    \* what a look for updates may come to
    Unset       \* an entry that is not there, a field that is empty

(* No answer, this version, or another one, told in the notification       *)
(* centre or, where there is none, in an alert.                            *)
AllAnswers == {"none", "current", "notified", "alerted"}

ASSUME PreferencesAssumption ==
    /\ Answers \subseteq AllAnswers
    /\ Unset \notin Lengths
    /\ Unset \notin {"hide", " ", "silence", "nocheck"}

VARIABLES
    running,    \* the application
    entry,      \* the user defaults
    control,    \* the controls of the window
    window,     \* the window is visible
    tile,       \* the dock tile has the view with the readings
    loaded,     \* history: the menu has opened the window since launch
    reset,      \* history: the defaults were removed at this launch
    clicked     \* history: the switch of the speech was clicked since launch

vars == <<running, entry, control, window, tile, loaded, reset, clicked>>

Entries ==
    [log : Lengths \union {Unset}, start : SUBSET Miners, dock : {Unset, "hide"},
     scroll : {Unset, "hide", " "}, speech : {Unset, "silence"},
     checkUpdates : {Unset, "nocheck"}, pool : BOOLEAN]

Controls ==
    [log : Lengths \union {Unset}, start : SUBSET Miners, dock : BOOLEAN,
     scroll : BOOLEAN, speech : BOOLEAN, update : BOOLEAN]

TypeOK ==
    /\ entry \in Entries
    /\ control \in Controls
    /\ {running, window, tile, loaded, reset, clicked} \subseteq BOOLEAN
    /\ window => running

NoEntries ==
    [log |-> Unset, start |-> {}, dock |-> Unset, scroll |-> Unset,
     speech |-> Unset, checkUpdates |-> Unset, pool |-> FALSE]

(* A slip: the nib has the switch of the dock readings off.                *)
NibControlsOff ==
    [log |-> Unset, start |-> {}, dock |-> FALSE, scroll |-> TRUE,
     speech |-> TRUE, update |-> TRUE]

(* The controls as the nib has them.                                       *)
NibControls ==
    [log |-> Unset, start |-> {}, dock |-> TRUE, scroll |-> TRUE,
     speech |-> TRUE, update |-> TRUE]

Init ==
    /\ entry = NoEntries
    /\ control = NibControls
    /\ running = FALSE /\ window = FALSE /\ tile = FALSE
    /\ loaded = FALSE /\ reset = FALSE /\ clicked = FALSE

-----------------------------------------------------------------------------
(* The launch.                                                             *)

(* The controls that are loaded at launch.                                 *)
LoadAtLaunch ==
    [NibControls EXCEPT
        !.update = entry.checkUpdates = Unset,
        !.log    = entry.log]

(* The nib's objects awake first; then the option key, held down, removes  *)
(* the defaults, and updates are looked for if there is no entry against   *)
(* it.  Only then is the tile's view set, unless the alert was answered.   *)
Launch(option, answer) ==
    LET kept == IF option THEN NoEntries ELSE entry
    IN  /\ ~ running
        /\ running' = TRUE
        /\ control' = LoadAtLaunch
        /\ window' = ~ entry.pool
        /\ entry' = kept
        /\ tile' = (kept.checkUpdates = Unset /\ answer # "alerted")
        /\ loaded' = FALSE
        /\ reset' = option
        /\ clicked' = FALSE

(* A slip: the window stays.                                               *)
QuitKeepsWindow ==
    /\ running
    /\ running' = FALSE /\ tile' = FALSE
    /\ UNCHANGED <<entry, control, window, loaded, reset, clicked>>

Quit ==
    /\ running
    /\ running' = FALSE /\ window' = FALSE /\ tile' = FALSE
    /\ UNCHANGED <<entry, control, loaded, reset, clicked>>

-----------------------------------------------------------------------------
(* The window.                                                             *)

(* What the menu loads when it opens the window.  Two controls are only    *)
(* ever switched off here.                                                 *)
Load ==
    [control EXCEPT
        !.log    = IF entry.log # Unset THEN entry.log ELSE @,
        !.scroll = @ /\ entry.scroll = Unset,
        !.dock   = @ /\ entry.dock = Unset,
        !.start  = entry.start]

(* A slip: scrolling is saved as its click saves it.                       *)
SaveLikeClick ==
    [entry EXCEPT
        !.log    = control.log,
        !.start  = control.start,
        !.dock   = IF control.dock THEN Unset ELSE "hide",
        !.scroll = IF control.scroll THEN " " ELSE "hide"]

(* What Save makes of the controls.                                        *)
Save ==
    [entry EXCEPT
        !.log    = control.log,
        !.start  = control.start,
        !.dock   = IF control.dock THEN Unset ELSE "hide",
        !.scroll = IF control.scroll THEN Unset ELSE "hide"]

Open ==
    /\ running /\ ~ window
    /\ window' = TRUE
    /\ control' = Load
    /\ loaded' = TRUE
    /\ UNCHANGED <<running, entry, tile, reset, clicked>>

SaveAndClose ==
    /\ window
    /\ window' = FALSE
    /\ entry' = Save
    /\ UNCHANGED <<running, control, tile, loaded, reset, clicked>>

(* The pool buttons of the options panels show the window as it is.        *)
OpenPool ==
    /\ running
    /\ window' = TRUE
    /\ UNCHANGED <<running, entry, control, tile, loaded, reset, clicked>>

CloseByRedButton ==
    /\ window
    /\ window' = FALSE
    /\ UNCHANGED <<running, entry, control, tile, loaded, reset, clicked>>

(* Clicks and entries in the window: all but the start boxes are saved at  *)
(* once.  Only the switch of the speech is recorded in clicked.            *)
Change(c, e) ==
    /\ window
    /\ control' = c /\ entry' = e
    /\ UNCHANGED <<running, window, tile, loaded, reset>>

Set(c, e) == Change(c, e) /\ UNCHANGED clicked

ClickStart(m) ==
    Set([control EXCEPT !.start = (@ \ {m}) \union ({m} \ @)], entry)

ClickDock ==
    Set([control EXCEPT !.dock = ~ @],
        [entry EXCEPT !.dock = IF control.dock THEN "hide" ELSE Unset])

(* Switched on, scrolling gets an entry that is not "hide" but is one.     *)
ClickScroll ==
    Set([control EXCEPT !.scroll = ~ @],
        [entry EXCEPT !.scroll = IF control.scroll THEN "hide" ELSE " "])

ClickSpeech ==
    /\ Change([control EXCEPT !.speech = ~ @],
              [entry EXCEPT !.speech = IF control.speech THEN "silence" ELSE Unset])
    /\ clicked' = TRUE

ClickUpdates ==
    Set([control EXCEPT !.update = ~ @],
        [entry EXCEPT !.checkUpdates = IF control.update THEN "nocheck" ELSE Unset])

TypeLength(n) == Set([control EXCEPT !.log = n], [entry EXCEPT !.log = n])

(* The pool part of the window saves a pool.                               *)
SavePool == Set(control, [entry EXCEPT !.pool = TRUE])

Next ==
    \/ \E option \in BOOLEAN, answer \in Answers : Launch(option, answer)
    \/ Quit
    \/ Open \/ SaveAndClose \/ OpenPool \/ CloseByRedButton
    \/ \E m \in Miners : ClickStart(m)
    \/ ClickDock \/ ClickScroll \/ ClickSpeech \/ ClickUpdates
    \/ \E n \in Lengths \union {Unset} : TypeLength(n)
    \/ SavePool

Spec == Init /\ [][Next]_vars

-----------------------------------------------------------------------------
(* Properties.                                                             *)

(* What the application takes the entries for.  The views of bfgminer and  *)
(* cpuminer scroll unless the entry is "hide"; that of asicMiner does so   *)
(* whatever is set, and cgminer's not without an entry                     *)
(* (cgminerViewController.m:391).                                          *)
Shows   == entry.dock = Unset
Scrolls == entry.scroll # "hide"
Speaks  == entry.speech # "silence"
Looks   == entry.checkUpdates = Unset

(* Whenever the menu opens the window, its controls say what the           *)
(* application does, after any clicks, saves, closed windows and launches, *)
(* though two of the switches are loaded without an else, two are not      *)
(* loaded and some entries were read at launch                             *)
(* (preferencesViewController.m:62-74, 187-226).  Where the window is      *)
(* wrong is named:                                                         *)
(*  - scrolling switched on by a click has the entry " ", which the window *)
(*    takes for off (287, 195); what it shows as on is on;                 *)
(*  - speech is loaded nowhere: silenced in an earlier launch it shows as  *)
(*    on until it is clicked; what shows as silenced is silent;            *)
(*  - when the defaults were removed at launch, the log length and the     *)
(*    look for updates show what they were before.                         *)
OpeningTellsTruth ==
    running =>
        /\ Load.start = entry.start
        /\ Load.dock = Shows
        /\ Load.scroll = (Scrolls /\ entry.scroll # " ")
        /\ Load.speech = (Speaks \/ ~ clicked)
        /\ ~ reset => Load.log = entry.log /\ Load.update = Looks

(* Save changes nothing but the boxes of the miners to start, if the menu  *)
(* has opened the window since launch: everything else was saved when it   *)
(* was clicked.  Three exceptions: a window only opened by the pool        *)
(* buttons, or by a launch without a pool, does change the rest            *)
(* (preferencesViewController.m:2956); scrolling switched on, with the     *)
(* entry " ", is shown and saved as off (293); and after a launch that     *)
(* removed the defaults the log length of before is saved again (66, 110). *)
SavingChangesOnlyBoxes ==
    [][window /\ ~ window' /\ loaded /\ ~ reset /\ entry.scroll # " " =>
         \E s \in SUBSET Miners : entry' = [entry EXCEPT !.start = s]]_vars

(* "Show hash rates on the dock icon" (MainMenu.xib:784): while that is    *)
(* on, the dock tile has the view with the readings.                       *)
DockShowsRates == running /\ entry.dock = Unset => tile
=============================================================================
