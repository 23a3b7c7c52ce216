# MacMiner in TLA+

MacMiner is a Cocoa application that runs coin miners: it starts mining
programs as child processes, reads their output, polls their APIs and those of
miners elsewhere on the network, and keeps the pools to mine at. This directory
holds TLA+ modules of its parts, the TLC runs that check them on small
instances, and theorems about them that TLAPS checks for every instance.

Contents: 1 the system, 2 the modules, 3 the runs, 4 what is proved, 5 where
the code disagrees with what it says, 6 what is only model-checked and what is
not modelled, 7 the plan, 8 how to run it.

Source references are to files under `src/MacMiner/`.

## 1. The system

One process. The main thread runs the windows, the timers and every delegate
call, one handler at a time, each from its first line to its last. Beside it run

* the child processes, which write, exit and crash when they like;
* the background thread of each `NSFileHandle`, which finishes the read that is
  armed and posts a notification;
* a thread per API poll (`performSelectorInBackground:`, asicMiner.m:928), which
  shares its data with the main thread without a lock.

An exception raised in a handler of the main thread is caught by NSApplication,
which logs it and goes on: what the handler did before stays, the rest is
skipped. An exception on a poll's thread has nobody to catch it and ends the
application. Both matter: most of the code's failure behaviour is "the second
half did not happen".

| Part | State | Operations | What is hard |
|---|---|---|---|
| **TaskWrapper** (TaskWrapper.m) | task, pipe, delegate, observer registration | `startTask`, `stopTask`, `dealloc`, `_taskDidProduceOutput:` | late notifications after a stop; the loop re-armed by its own handler; stop called twice; refused launch |
| **Mining controllers** (bfgminerViewController, asicMiner, cgminerViewController, cpuminerViewController) | running flag, button title and tag, wrapper, dock reading, scheduled restart | `start:` (a toggle), `didProduceOutput`, `didFinishTask`, `windowShouldClose:`, `awakeFromNib` | `didFinishTask` runs inside `start:`; restart ten seconds later meets a changed state; flag, title and reading are three copies of one fact |
| **Quitting** (AppDelegate.m:377-456) | visibility of four readings | `applicationShouldTerminate:` | decides from labels that other handlers show and hide |
| **API monitor** (asicMiner.m:378-931, 1239-1265, 1632-1785) | list of addresses, text of answers, table, sockets | two timers, the poll, add and clear miners | a thread without locks; answers told apart by position; sockets that are not closed |
| **Pool settings** (preferencesViewController, autoConfigViewViewController, bfgConfigFileViewController) | preferences and one file per coin; three windows | choose coin, save, setup, edit, relaunch | the same data twice, three writers, ~35 copies of the same code with differences |
| **Options** (the option panels and launch arguments of the four controllers) | controls, user defaults, arguments of the running miner | `optionsToggle:`, `optionsApply:`, `setRecommendedBFGValues:`, `start:`, `awakeFromNib` | each setting exists three times; showing a panel restores some of it; the launch is written out twice |
| **ASIC device table** (asicMiner.m:378-562, 1127-1150) | the text of a poll, three loops, rows | `toggleLoopTimerFired:` | loops without a bound that end because the text shrinks; names found inside longer names; texts torn by another thread |
| **General preferences and the launch** (preferencesViewController.m:37-325, 2955-2977, AppDelegate.m:27-152) | user defaults, controls of the window, dock tile | open, save, click, launch, quit, look for updates | one message that opens or saves; controls loaded in two places, some without an else; a launch whose second half hangs on an update |
| **Output views** (`didProduceOutput` of the four controllers) | log, rate, tag, what is spoken | an output, start, stop, settings | a limit enforced after the fact; a warning through a tag that five handlers write; outputs that raise |
| Overview, directories, taskTwoWrapper | none of interest | | taskTwoWrapper is dead: `apiTask` is never given one |
| Vendored miners and libraries | | | other projects; a mining process is environment here |

How they interact: a controller makes a `TaskWrapper` and is its delegate. The
wrapper calls back synchronously, so `[task stopTask]` inside `start:` runs the
controller's `didFinishTask` before it returns. The controllers share the dock
readings through `AppDelegate`; quitting reads them, and so does the API monitor
to learn which local miners to ask. The controllers read the configuration files
the pool windows write, and the entries of the defaults the preferences write (log
limit, speech, dock readings, automatic start). The API monitor leaves its text to
the loops of the device table. A handler of an output view that raises ends the
reading of its wrapper, which is `"handler"` in TaskWrapper and Miners and the state
`"deaf"` in OutputView.

What makes each part correct:

* TaskWrapper: an end reported without being asked for is true and complete;
  nothing is heard after it; every end is reported; a full pipe is emptied.
* Controllers: the flag is true, the title says what the button will do, what
  was asked for runs or will again, what was stopped stays stopped.
* Quitting: no miner is left behind.
* API monitor: the table follows the list; a poll does not run off the list.
* Options: applying changes what the user changed and nothing else; what a launch
  reads from a panel is what was saved; the button and the start with the application
  launch the same.
* Device table: its loops end, no device has two rows, none of a sound answer is lost.
* Preferences: the menu opens a window that says what the application does, and saving it
  changes nothing else; what is switched on happens.
* Output views: the log keeps to its limit, and a miner that stops mining is told of.
* Pool settings: what was saved is what the miner is started with, and what is
  shown again; one coin's account is never stored for another.

## 2. The modules

| Module | Models | Place |
|---|---|---|
| `OneShotTask` | what TaskWrapper.h and TaskWrapperDelegate.h promise: the contract | abstract specification |
| `TaskWrapper` | TaskWrapper.m with its process, pipe and background read; implements `OneShotTask` | detailed specification |
| `Miners` | the four controllers, the dock, the delayed restart, quitting | uses a wrapper by its contract |
| `ApiMonitor` | the poll, its timers, the list, the table, the sockets | |
| `PoolStore` | preferences, files and the three windows | |
| `Options` | controls, defaults and arguments of the four controllers | |
| `DeviceTable` | the loops that cut a poll's text into rows | takes over where `ApiMonitor` stops |
| `Preferences` | the preferences window, the launch, the defaults they share | |
| `OutputView` | log, rate and warnings of a controller | looks inside the output `Miners` hears |
| `*_proofs`, one for each but `OneShotTask` | theorems | |
| `MC*`, one for each but `OneShotTask` | instances for TLC | |

Definitions whose comment calls them a *slip* are mistakes such code could
have: each is what the run in whose module it lies must notice.

### TaskWrapper

`held` is the set of wrappers alive, `delegate` and `observing` their
`_taskDelegate` and their registration with the notification center, `reading`
whether `readInBackgroundAndNotify` is armed, `notice` the posted notification
(-1 none, 0 end of file, n pieces of data), `proc` and `pipe` the process and its
pipe, `made` what the process wrote, `calls` what the delegate heard, `asked` whom
the owner stopped. `Launch` is init and `startTask` together, as all four owners
call them; `Stop` and `Release` are `stopTask` and `dealloc`, which share
`StopEffect`; `Data` and `EndOfFile` are the two branches of
`_taskDidProduceOutput:`; `Drop` is the notification center with nobody to
deliver to. `Write` and `Exit` are the child, `ReadCompletes` the background
thread. Faults: `"launch"`, `[_task launch]` raises because the binary is missing;
`"handler"`, the delegate raises in `didProduceOutput`, as it does for a
statistics line that was cut between two reads, and with a log limit below 1000;
`OutputView` says when. (Bytes that are no text do not raise: they decode to nil, in
which every search succeeds at 0.)

### OneShotTask

The delegate's view: `Begin`, `Hear`, `Complete`, `Stop`, and the process's own
`Produce` and `End`. No pipe, notice or observer. Its fairness says that what is
left to report is reported. `TaskWrapper!Contract` maps `ended` to the exited
processes; all else has the same name. Dropping a late notification, arming a
read and deallocating are stutters there.

### Miners

Per controller: `running` (`searchTaskIsRunning`, `findRunning`,
`cgsearchTaskIsRunning`), `titled`, `tagged`, `task`, `deaf`, `reading`,
`readBack`, `pending`; for all: `hidden`, `quit`; and as history `wanted`, what the
user last asked for, and `concealed`, whose reading the preference has hidden since
it was shown. `task` is what the owner holds of the contract: nothing, a wrapper whose
launch was refused (`broken`), one with a live process, with one that is over but
not yet reported (`exited`), or one that reported (`spent`). `StopBranch` and
`StartBranch` are the two branches of `start:`; `StopBranch` contains `DidFinish`
because the wrapper calls it synchronously. `Press` is the button, `FireRestart`
the same action sent by `performSelector:withObject:afterDelay:`, `EndOfFile` the
wrapper's report, `CloseWindow` the two windows that stop their miner, `Quit`
`applicationShouldTerminate:`. The controllers' differences are sets:
`Restarting` (bfg, asic restart), `ShownAtStart` (asic does not show its reading
when started), `StoppedByClosing` (cg, cpu). The three faults (`launch`, `handler`,
`conf`) and both preferences are in one run, so the properties say themselves what the
faults do break: a refused launch cannot be stopped, a CPU miner without configuration
keeps its reading, a hidden reading does not hold up quitting. The alert sheets are left
out, speech and log are in `OutputView`.

### ApiMonitor

`at` is the step each poll is at: 0 clears the text, 1 to 3 ask the local miners in
the order asic, cg, bfg, 4 counts the addresses, 4+i asks address i. `text` is
`outputMathString`, one element per answer, `view` what the last tick took over,
`table` the miners with rows. An answer is read and stored in two steps (`Answer`,
`Store`), as the code appends to a copy (many times per answer, which only overlapping
polls could tell apart). There is a poll per member of `Pollers`; `sole` and `viewSole`
are history: the text, and the text the view was taken from, were written by one poll
alone since it was cleared. Two polls that keep outlasting each other put back each
other's answers without end, which `MaxText` cuts off. `Refused` leaves its socket open
(asicMiner.m:1735), `NoSocket` is the end of that, `NameLost` the dereferenced
NULL, `RangeError` the list shortened under the poll. `ReadingsChange` and
`MinersChange` are the rest of the world: any reading, any miner, one at a time.

### PoolStore

`prefs` and `file` are the two copies of each coin's pool, user and password;
`form` and `coin` the pool window; `owner` the coin the form's account belongs to;
`editor` the editor; `maker`, history, what wrote each file last: a form, the template
that the setup takes for a short Scrypt address, or the editor. `Select` is
`popUpButtonChanged:`, `Save` `savePool:` with its file, `Setup` `writeFile`,
`SaveText` the editor's save, `Relaunch` the start of the application. `savePool:` takes the
spaces out of what it writes to the file (preferencesViewController.m:1299-1302) and not out of
what it keeps in the preferences (1277-1279); the setup does so in neither. A text is a name, and
`Stripped` gives, for those with spaces, what is left: `WithoutSpaces` in `Filled`. `savePool:`
and `popUpButtonChanged:` are one block per coin; the blocks agree but for the
coins in `Suggesting` and in `Misread`, which are what the model keeps of them.

### Options

`control`, `saved` and `launch` are the three copies of a setting: the control on the
panel, the entry of the defaults, the argument of the running miner. A behaviour
follows one controller (they share no entry) and some of its settings. `ShowPanel`
and `HidePanel` are the two branches of `optionsToggle:`, `Apply` is `optionsApply:`,
`Press` and `Stop` are `start:`, `StartUp` is `awakeFromNib`, with `AtStart` the
second copy of what `ByButton` says. `Shown`, `Loaded` and `Written` say what is
copied; `Meaning` what a missing entry stands for; `InForce` which values reach the
command line. `touched` and `seen` are history: what the user changed since the last Apply or
start-up, and whether the panel was shown since the start-up. `FromPanel` are the settings a launch
reads from the controls, shown or not: the algorithm and the devices. `SavedIsLaunched` is about
these alone: all others go from the defaults to the command line in one step, and which of them
reach it is `InForce`, not a property (cgminer's launch has only the manual flags of all
that its panel saves, cgminerViewController.m:169-197).
Four places the code does not treat like the rest are named and excepted where they
matter: `Forgotten` (the CPU panel loads only its algorithm, cpuminerViewController.m:1179;
nothing sets "Dynamic Intensity", bfgminerViewController.m:1016), `Devices` (read
before they are loaded at a start-up, asicMiner.m:1340), `Dead` (settings no launch
passes on) and `CopiesDiffer` (Yescrypt and X11).

### DeviceTable

A text is a sequence of pieces, a piece a sequence of devices, each with its kind, number,
the rest of its data, the name its rate goes by and whether the text breaks off in it.
`left` is what is still in `currentOutputString`, `i`, `loop` and `piece` where the three
loops are; `Round` is one turn that finds a name, `LoopEnds` one that finds none. `StartsWith`
is the search that finds GPU1 in GPU10 and in GPU100, `Twins` the replacement that takes out every copy of
the data, `Raises` the label that is missing and ends the handler with the table emptied.
The numbers in a row are left out.

### Preferences

`entry` are the user defaults, `control` the controls, `window`, `tile` and `running` the
application; `loaded`, `reset` and `clicked` are history (the menu opened the window since launch; the
option key removed the defaults at this launch; the speech switch was clicked since). `Shows`,
`Scrolls`, `Speaks` and `Looks` are what the rest of the application takes the entries for, against
which the controls are held. `Launch` is `awakeFromNib` and
`applicationDidFinishLaunching:` with the answer of the update server; `Open` and `SaveAndClose`
are the two branches of `preferenceToggle:`, `OpenPool` and `CloseByRedButton` the ways past them;
a click changes its control and its entry. `Load` and `Save` say what is copied each way, with
the switches that `Load` only ever turns off.

### OutputView

One controller at a time. `log` is a length, `limit` and `silent` are entries of the defaults,
`label` and `tag` the rate and the memory of one, `said` what the last step made the application
speak. An output is a line with a rate, one without, a refused login, an unknown message, a line
torn between two reads (`TornLine`) or bytes that are no text (`Undecodable`); the controllers
differ in which they log, show and speak. `AddToLog` has the deletion and its exception. Lengths
are in units, `Trim` is the code's 1000 and `Default` its 5000.

## 3. The runs

| Run | Instance | Question |
|---|---|---|
| `wrapper_faults` | 2 wrappers, pipe 2, 3 pieces, both faults; symmetric | are reports true, complete and last, whatever fails? |
| `wrapper_live` | 2 wrappers, pipe 1, 2 pieces, no faults | does the loop go on, is the end reported, is the contract implemented, fairness included? |
| `miners_flags` | 4 controllers, all faults, readings shown or hidden, a user who waits | do flag and reading agree with the wrapper; is what was asked for served; are restarts restarts, and does each sudden stop lead to one; is no miner left behind? |
| `miners_hasty` | bfg, a hasty user | *violation*: does the restart restart? |
| `api_polls` | asic and bfg, 1 networked miner, list of 1, 2 sockets, names may be lost, one poll at a time | does the table follow the list; is only a cleared list fatal? |
| `api_overlap` | bfg, 1 networked miner, two polls that overlap, texts of 3; symmetric | is what one poll gathers alone in order, whatever late polls left? |
| `pools_windows` | 3 coins (one misread), a pool and a name with spaces, addresses of both lengths | do files, forms and preferences agree? |
| `options_panels` | 4 controllers, two settings and the algorithm, 3 algorithms per menu | is what was applied kept, does a launch read it from the panel, do both launches agree? |
| `device_rows` | texts of one to three pieces, torn, repeated, with gaps, GPU1 beside GPU10 | do the loops end, is no row doubled, none lost? |
| `prefs_window` | 2 boxes, 2 lengths, every answer to the look for updates | does the window say what the application does, does saving change nothing else? |
| `prefs_tile` | same, with a notification centre | *violation*: does the dock show the rates? |
| `output_view` | 4 controllers, trim 3, default 9, limits 0 (none), 2, 4, 7, outputs of 1 to 4 | is the log bounded, does it come down, is a stop told? |

Bounds and why they suffice:

* Two wrappers, because an owner holds one and may still have the notification of
  the one before; wrappers share nothing (which the refinement and the proofs
  confirm). A pipe of 2 and 3 pieces of output give a full pipe, a notification that
  carries several pieces and one that carries part of what the pipe holds.
* Four controllers, because they differ in three ways; they meet only in the
  dock. `MaxPending`, the restarts of one miner waiting at once, is 1 for the user
  who waits (the proofs show there is never a second) and 2 for the hasty one; the cap
  only delays `EndOfFile`. The hasty user is the subject of `miners_hasty`; that flag,
  title, quitting and Stop do not depend on waiting is proved.
* With every fault on at once a property can only hold if it says what each breaks;
  that the exceptions are needed shows in the traces TLC gives without them.
* Two local miners and one networked one on the list give the empty list, one that is
  passed to its end, a list cleared during the loop, and the table with two readings for its one
  local place. A second address, or the third local miner, is the next turn of the same loop: the
  theorems cover any list and any local miners. Two sockets are enough to run out of them. Two polls are every overlap that matters to a
  third step: the order theorem covers any number. A text of 3 holds both answers of a poll and
  one too many.
* Settings act on each other only through the algorithm and through the threads field
  of asicMiner, which may abort Apply: two of them and the algorithm show that. Each
  has a blank and a set value (the manual flags one more, for the single flag). Of the
  algorithms the run has one of each kind (scrypt, an exception, the last); the theorem
  covers all 32 and 15.
* Texts of up to three pieces have a piece before, at and after the last place; the
  theorems cover texts of any length.
* Two boxes and two log lengths tell a change of one from a change of all. Trim, default
  and limits are in the proportions that matter: a limit below Trim, above it, and none;
  outputs below, at and above Trim.
* One pool and one name are enough to tell "this coin's", "empty" and
  "template's" apart, both with spaces, so that file and preferences differ; passwords are none or
  the wallet's; three coins are both coins of the editor and one misread.

`CHECK_DEADLOCK FALSE` in the runs of the wrapper, the miners, the monitor and the pools:
processes end, the application quits or dies, and nobody has to press anything. In the
others there is always something to do.

### Fairness

* TaskWrapper: weak fairness of the background read and of the delivery of the
  posted notification: the kernel and the run loop do that. None for the child
  process or the owner.
* Miners: weak fairness of the delayed message and of the wrapper's report, which
  is what `TaskEndIsReported` provides. None for users or processes.
* ApiMonitor: weak fairness of both repeating timers and of a poll's next step:
  connect and recv return in the end.
* DeviceTable: weak fairness of the loops: the handler runs on the main thread and nothing
  takes its place there. That it ends is then a property of the loops alone.
* OutputView assumes no fairness: `LogComesDown` is about a log that goes on being written
  to with the limit left alone.
* PoolStore, Options and Preferences have only users, and no liveness.

Liveness properties of the first two are conditioned by what ends them (a user who
stops, an application that quits); those of the monitor are about a world that
stays as it is from some moment on.

## 4. What is proved

For every value of the constants that meets the modules' assumptions.

Of the liveness properties the prover is given what it cannot find out: that a fair action *can*
happen where the proof says it must. ENABLED is a symbol to it that nothing expands, so the theorems
have `CanCarry`, `CanServe`, `CanGoOn`, `CanPoll` and `CanShow` as hypotheses, each of the form
"always, where (guard) holds, the action is enabled", and `ReportsWhatItOwes`, that the contract's
report is enabled only where something is owed. They are read off the actions, which are a guard and
primed variables set to values that exist. TLC finds them true when it is given them as invariants of
the runs' instances, and the last as one of `OneShotTask` by itself. Of the actions nothing else is assumed: which
action gets the system on, that nothing undoes it, and which invariants that takes is proved.

The second thing is induction: that a natural number (what is in a pipe, the length of a log, the way
a poll has before it, the rank of a handler) cannot become smaller for ever. That the numbers, or the
ranks, have no descending sequence is a theorem of theirs (`NoRankDescendsForever` for the ranks), and
used as: each set of them that is not empty has a least. What the prover has not is the set of those
that a *behaviour* goes through, because it forms no set by a temporal formula. So there are two kinds of
theorem. Those whose names end in `OrDescends`, `WatchedMinersShow` and `DelistedMinersGo` have "or it
descends for ever" as an alternative and assume no set. `EndIsReported`, `ListedMinersAreShown`,
`DelistedMinersAreForgotten`, `HandlerAlwaysEnds` and `LowerLimitIsReached` state the runs' properties
themselves, from the hypothesis (`ContentsAreASet`, `WaysAreASet`, `RanksAreASet`, `LengthsAreASet`)

    there is a set S such that  always, while it descends, the rank is in S,
                           and  each rank in S is reached while it descends,

and prove that nothing descends: S would have a least member, that one is reached, and the next step
goes below it, in S again. The hypothesis is no restriction: for every behaviour the S of just the
ranks reached while it descends is such a set, the empty one if it never does. It is
assumed only because the prover's language cannot form S.

**TaskWrapper_proofs.** The inductive invariant `IInv` is the type with, for each
wrapper, `Untouched` (a wrapper never started has nothing), `Connected` (who has a
process and has not reported still has its delegate), `Observed` (who observes is
held and connected), `Accounted` (output written = heard + in the pipe + in the
notification), `TrueEnd` (an end of file is announced only by an empty pipe of an
exited process), `OneRead` and `TrueReport`. The last alone is not inductive: that
the end of file is true is decided when the read completes, and has to survive until
the notification is delivered. From it: `TypeCorrect`, `EndReportsAreTrue`,
`OutputIsComplete`, `ObserversAreHeld`, and the action property `EndIsLast`.
`LoopIsKept` needs handlers that do not raise, `WrapperImplementsContract`
launches that are not refused; a delegate that raises does not break the
contract's safety, only its fairness.

Liveness, with handlers that do not raise, adds `Listens` (`LiveInv`): whoever was started and
neither stopped nor let go observes, unless its end was reported. `StuckMoves` says that a pipe
with something to read is read: either the read is armed and completes, or a notice is there and
its delivery arms it. `NoPipeStaysFull` is that with a full pipe. `EndIsReportedOrDescends` is that for a
process that is over: its pipe only becomes emptier, and when it does not any more, the end of file
is noticed and delivered; `EndIsReported` leaves the alternative out: the least a pipe holds while it is
emptied for ever would be emptied further. `WrapperKeepsContract` is the fairness half of the refinement
and needs no induction: whatever the contract owes, the next delivery is one of its reports. With
`WrapperImplementsContract` it makes `WrapperMeetsItsContract`, all of `OneShotTask!Spec`.

**Miners_proofs.** `TypeCorrect`, `FlagIsRight`, `ReadingsAreOfMiners` and `QuitIsSafe` without
assumptions: any controllers, faults, users and preference. `FlagMatchesTask` is inductive with
`Unbroken`, that nothing is broken where launches are not refused. `QuitIsSafe` is strengthened to
"whoever is connected has a visible reading, or one the preference hid". `RestartsAreDue` and
`RestartsRestart` for a user who waits, whatever fails: `Due` says a restart waits only for a
wanted miner that does not run, at most one of them, and that a running miner that was launched is
not tagged; without the last two parts neither property is inductive. `ButtonsAreHonest` (the title)
needs that no launch is refused and no configuration missing, `StoppingStops` that no launch is
refused: a refused one cannot be stopped. `NoMinerIsOrphaned` needs nothing: the start branch
releases whatever wrapper it finds (bfgminerViewController.m:118), and the flag sees to it that it never finds
one that is connected. `SuddenStopsRestart`, for a user who waits, goes through two *leads to*: the end
that is owed reaches a tagged controller, and the restart it makes due finds the flag clear
(`Due` again); in between only the reasons the property names can come. `RestartsDoNotPileUp` says, also
from `Due`, that the bound of the model on waiting restarts takes nothing from such a user: beside a
wrapper whose end is still to come no restart waits.

**ApiMonitor_proofs.** For any number of polls that overlap, `TypeCorrect` and
`OnlyClearingIsFatal`, from an `IInv` of three parts per poll: it is at an address it
counted (`InList`), it counted no more than there are unless the list was cleared since
(`Covered`), and an answer waits to be stored only between two calls (`Holding`).
`AnswersKeepOrder`, also for any number: while `sole` holds only one poll is past its first step
(`SoleWriter`), and with `Gathered` the text then holds, while the local miners are asked, only
those already passed (`Upto`); order alone does not survive an append.

`PollsGoOn` gives each poll a way before it that every step of it makes shorter, for any number of
polls; a poll that went on for ever would have a shortest way and then a shorter one
(`PollsAreNotEndless`). For polls that do not overlap and any local miners, `WatchedMinersShow` and
`DelistedMinersGo` follow what the monitor does with one networked miner. `Sparse` bounds the answers
by the miners asked, so that (`Coming`) the answer of the i-th miner on the list is among the first i,
or i + 1 with a local one, which is what the table looks at; the list may grow meanwhile, and the
poll has counted at least i. `Coming` holds from the next time the text is cleared, `Seen`, the same of
the view, from the next tick, and then the table follows. `Leaving` and `Unseen` are the counterparts
for a miner that has left: the text is without it and not empty once the local miner was asked, since
an empty one would leave the table as it was. `Monitored` asks that at most one local reading is
visible (`AtMostOne`): with two it is false, as the table has one place for both (asicMiner.m:425).

**PoolStore_proofs.** `FormBelongsToCoin`: `FormIsOwn` is inductive by itself.
`SavedComesBack` follows from a single step. `FilesServe`: `FileServesPrefs` is inductive
with the type, since every action that changes a file or the preferences says in `maker` what it
made; that the pool of the template is left by nothing but a short Scrypt setup is part of it.

**Options_proofs.** `Faithful` says that a setting nobody touched agrees with what is
saved from the first time the panel is shown, hidden again or not, and may be blank before
that, because showing the panel then overwrites it; that the algorithm agrees at all times,
because every start-up looks it up. `ApplyingKeeps` and `LaunchesUseDefaults`
follow, for any number of settings and both tables of algorithms. `CopiesStartAlike` goes
through every entry of the tables. `TypeCorrect` rests on `UnsetAssumption`, nil being no
value of a control.

**DeviceTable_proofs.** For any texts. `NoDeviceHasTwoRows`: a row is made only of what is `left`,
and what has a row is not left again (`RowsAreGone`). `NoDeviceIsLost`: `ShownInv` says that what is
left of a piece is what the loops have yet to come to, and the rest of it has its row; the loops come to a device
by the place of its number in the list it is part of (`OnList`), so that lists one after the other
are covered. That the handler ends comes in three theorems: every turn lowers its rank, the number of
pieces to come, then of loops, then of devices left, compared in that order (`HandlerGoesOn`);
this order of ranks is well founded (`NoRankDescendsForever`); and the handler ends or its rank
descends for ever (`HandlerEndsOrDescends`). `HandlerAlwaysEnds` puts them together.

Two more invariants say what rows there are. `OrderInv` is that every row is of a device of the text in an
answer with a place (`OnlyPlacesAreShown`, the converse of `NoDeviceIsLost`) and that the rows come miner by
miner, kind by kind (`RowsKeepOrder`); they are inductive only with `RowsSoFar`, how far the rows
there are have come and that the piece looked at has a place. The order matters because the table tells
nothing else of whose a row is: the column for the location is a blank in each (asicMiner.m:479, 600, 615).
`SoundTextIsShown` composes all of these: a text of which no answer was torn raises nothing, is not
replaced while the handler is at work, and when it ends the rows are exactly the devices that have a
place, each once.

**Preferences_proofs.** `TheWindowIsTrue` and `SavingIsHarmless` rest on `SwitchesInv`: a switch
that is off has an entry that says so, also across launches, and once the menu has loaded the
controls the converse holds, but for scrolling switched on by a click, which has an entry too. For the
two switches the menu does not load it is `NotLoadedInv`: the look for updates follows its entry from
the launch, unless that removed the defaults, and the speech from its first click.

**OutputView_proofs.** `LogKeepsItsLimit` adds to the bound that the limit in force is part of it
while a task runs; `StoppedMiningIsTold` that a rate once shown is still shown or has left the tag.
`LogComesDownOrDescends`: with a limit that is left alone each output that is logged while the log
is above it makes the log shorter by the difference between what is deleted and what is added, and
nothing makes it longer; so it comes down, or becomes shorter for ever, and that it does not is
`LowerLimitIsReached`.

The assumptions that are left are needed: without them a run or a short trace of TLC violates the
property (`miners_hasty` is one).

## 5. Where the code disagrees with what it says

* `miners_hasty` (bfgminerViewController.m:914): a user who presses Start in the ten
  seconds before the delayed restart has the miner stopped by it. The message the user
  gets says it was restarted (927).
* `prefs_tile` (AppDelegate.m:150): the view of the dock tile is set inside the branch that looks
  for updates, so whoever opts out of that has no dock readings after the next launch, although
  "Show hash rates on the dock icon" is on (MainMenu.xib:784).

Found while modelling and in the models, but not the subject of a run of their own: as an exception a
property names, as a guard, or in the hazard list of PROJECT.json.

* Wrapper and miners: a delegate that raises once leaves no read armed, so that the end of the task,
  which TaskWrapperDelegate.h:19-22 says is reported, never is (`TaskEndIsReported` is checked
  without that fault); a refused launch cannot be stopped and leaves the flag set; the CPU miner
  without a configuration shows a reading for nothing; hidden readings, and those of an ASIC miner
  that has not yet said anything (asicMiner.m:1073), let the application quit over a miner; the
  ASIC miner's handler hides the GPU miner's reading.
* Monitor and table: the table has one place for this machine (asicMiner.m:425), so that with two
  visible readings the last networked one gets none; sockets leak; a name that cannot be resolved is
  fatal; an address without a port is asked on port 0; a torn answer empties the table.
* Pools: the pool window takes spaces out of what goes into the file and leaves them in the
  preferences (preferencesViewController.m:1277-1302), so that form and file differ, and the setup
  leaves them in both; for a short Scrypt address the chosen pool is saved among the preferences but not in the
  file (autoConfigViewViewController.m:405); saving without a user empties the file; three coins are
  read back under other names; the editor writes one coin's text over another's when a
  segment has no file.
* Options: the ASIC miner is started with the application on devices that were disabled; applying
  the CPU panel for one setting erases the others; a saved dynamic intensity is lost at the next
  Apply after a start-up; a single manual flag is dropped; cgminer is launched with none of its saved
  settings but the flags; an else without braces guards only part
  of a branch (bfgminerViewController.m:1208); Yescrypt is started by another program with the
  application than by the button.
* Preferences and launch: a window opened by a pool button and saved overwrites settings it never
  loaded; scrolling switched on is shown as off and saved so; speech that was silenced is shown
  as on after the next launch, as its switch is loaded nowhere; after a launch that removed the
  defaults the old log length and look for updates are still shown; cgminer's view does not scroll
  without an entry, though the switch is on (cgminerViewController.m:391); the daily look for updates is a timer
  on a thread that ends, and never fires (AppDelegate.m:184); the menu's look raises when there is
  no answer (547).
* Output: a limit below 1000 raises, leaves the log editable and the view deaf; an output longer
  than 1000 characters adds more than is deleted, so that the log has no limit; bytes that are no
  text are spoken of as a refused login and shown as the rate "string too short"; the CPU miner
  speaks whatever the preference says.

## 6. What is only model-checked, and what is not modelled

Only model-checked: that the actions of section 4's hypotheses are enabled. Neither checked nor proved,
because every behaviour has it by the way sets are formed: that the ranks of a behaviour are a set. The
runs check the five properties it is used for without it, on small instances.

Abstracted: output is counted in pieces (TaskWrapper) or units of length (OutputView); an answer of
the API is the miner it came from (ApiMonitor) or its devices (DeviceTable); pools, users and
passwords are names; time is order only (ten seconds and six seconds are "later"). The string a poll's
threads write and the main thread reads is taken to be whole at each read and write; what a race on
it could leave is among the torn texts of DeviceTable.

Left out: the name of the log file and the alerts at a start (Options), the two MobileMiner fields of
the preferences, which nothing reads, scrolling of the log, shares and units, the Core Data stack of
the template, the look for updates from the menu, which changes nothing but an alert, and the daily
one, which never runs.

Not modelled, because there is nothing to check: vendored programs and libraries (a mining process is
environment), the overview window, whose one method that would fill it is empty, the dead
taskTwoWrapper, the directories.

Not composed: Miners with four instances of TaskWrapper, and OutputView with Preferences. The first
multiplies 180,000 states by what each pipe and notification can be, four times over, and the contract
`OneShotTask`, which TaskWrapper is shown to implement, is what Miners assumes of a wrapper; the second
shares only two entries, which OutputView lets change at any time, as the window can.

## 7. The plan

Done: the wrapper with its contract and refinement, the controllers, the monitor with overlapping
polls, the table, the pools, the options, preferences and launch, the output views; their theorems.

Left, should the code change there:

1. `Miners` stated over one instance of `OneShotTask` per controller. `NoMinerIsOrphaned` has the part of
   it that can go wrong: every way of letting go of a wrapper is a report of its contract. For the whole of
   it `Miners` would have to keep the wrappers a controller had before, since it only knows whether it
   holds one.
2. `PoolStore` with `Options`: the file started with is the one the coin's pool was saved to; the
   tables of both have to agree on the names, and `PoolStore` has coins where the tables have algorithms.

## 8. Running

    tlc -workers 2 -config wrapper_faults.cfg MCTaskWrapper
    tlapm TaskWrapper_proofs.tla

and so on; `PROJECT.json` names the module, configuration and properties of each run,
the source lines behind each definition, the hazards and which property is aimed at
them. The longest runs, `pools_windows` and `options_panels`, take one to two minutes.
