------------------------------ MODULE Options ------------------------------
(***************************************************************************)
(* The options panels of the four miner controllers, the entries of the    *)
(* user's defaults behind them, and what a miner is launched with.  A      *)
(* setting exists up to three times: as a control of the panel, as an      *)
(* entry of the defaults, and as an argument of the running miner.  Apply  *)
(* copies from the first to the second, showing the panel copies back, and *)
(* a launch reads the second, of some settings the first.                  *)
(*                                                                         *)
(* The controllers share no entry and no control, so a behaviour follows   *)
(* one of them, and MaxWatched of its settings beside the algorithm.       *)
(***************************************************************************)
EXTENDS Naturals, FiniteSets

CONSTANTS
    Miners,         \* the controllers in play
    GpuAlgorithms,  \* entries in play of the menu chooseGPUAlgo
    CpuAlgorithms,  \* entries in play of the menu chooseAlgo
    MaxWatched,     \* how many settings a behaviour follows
    Unset           \* nil

ASSUME OptionsAssumption ==
    /\ Miners \subseteq {"asic", "bfg", "cg", "cpu"}
    /\ GpuAlgorithms \subseteq 0 .. 31 /\ 0 \in GpuAlgorithms
    /\ CpuAlgorithms \subseteq 0 .. 14 /\ 0 \in CpuAlgorithms
    /\ MaxWatched \in Nat

VARIABLES
    miner,     \* the controller
    saved,     \* per setting, its entry in the defaults
    control,   \* per setting, the state of its control
    open,      \* the options panel is on screen
    launch,    \* what the running miner was launched with
    touched,   \* settings changed since Apply or the last start-up: history
    seen       \* the panel was on screen since the last start-up: history

vars == <<miner, saved, control, open, launch, touched, seen>>

Watched == DOMAIN control

Tuning  == {"threadConc", "shaders", "lookupGap"}
Devices == {"bfl", "bigpic", "bitfury", "erupter", "antminer"}
General == {"debug", "quiet", "flags"}
Graphic == General \union Tuning \union {"intensity", "worksize", "vector"}

(* The settings of each panel.                                             *)
Settings(m) ==
    CASE m = "asic" -> General \union Devices \union {"gpu", "log", "threads"}
      [] m = "bfg"  -> Graphic \union {"algo"}
      [] m = "cg"   -> Graphic \union {"gpu", "scrypt"}
      [] m = "cpu"  -> General \union {"threads", "algo"}

(* What a control of m can say; "-x" is one manual flag and "-x 1" are two.     *)
Values(m, s) ==
    CASE s = "algo"                         -> IF m = "bfg" THEN GpuAlgorithms ELSE CpuAlgorithms
      [] s = "intensity"                    -> {"dynamic", "2", "4"}
      [] s \in {"worksize", "vector"}       -> {"default", "128"}
      [] s \in Tuning \union {"threads"}    -> {"", "4"}
      [] s = "flags"                        -> {"", "-x", "-x 1"}
      [] OTHER                              -> {"off", "on"}

ASSUME UnsetAssumption == \A m \in Miners : \A s \in Settings(m) : Unset \notin Values(m, s)

(* What a setting is when nothing is saved for it, and what the panel says *)
(* when it comes out of the nib: of the intensity, not the same.           *)
Blank(s) ==
    CASE s = "algo"                                   -> 0
      [] s = "intensity"                              -> "dynamic"
      [] s \in {"worksize", "vector"}                 -> "default"
      [] s \in Tuning \union {"threads", "flags"}     -> ""
      [] s \in Devices                                -> "on"
      [] OTHER                                        -> "off"

Fresh(s) == IF s = "intensity" THEN "2" ELSE Blank(s)

Meaning(s, v) == IF v = Unset THEN Blank(s) ELSE v

-----------------------------------------------------------------------------
(* From control to defaults and back.                                      *)

(* The settings whose text is saved even when it is blank.                 *)
Verbatim == {"flags", "algo"} \union (IF miner = "cpu" THEN {"threads"} ELSE {})

(* What Apply saves.  asicMiner tries to save the threads field itself and *)
(* not its text, which the defaults do not take.                           *)
Written(s) ==
    IF miner = "asic" /\ s = "threads" THEN saved[s]
    ELSE IF control[s] = Blank(s) /\ s \notin Verbatim THEN Unset
    ELSE control[s]

(* cpuminerViewController shows its panel as it is.                        *)
ShowsDefaults == miner # "cpu"

(* Slips: the mark that is saved for a device is shown as it is, and one   *)
(* entry is not looked at.                                                 *)
ShownRaw(s) ==
    IF ~ ShowsDefaults \/ saved[s] = Unset THEN control[s]
    ELSE IF s \in Devices THEN "disable"
    ELSE saved[s]

ShownButQuiet(s) ==
    IF ~ ShowsDefaults \/ saved[s] = Unset \/ s = "quiet" THEN control[s] ELSE saved[s]

(* What a control says once the panel is shown: an entry that is there is  *)
(* taken over, one that is not leaves the control alone, but for one box   *)
(* of asicMiner.                                                           *)
Shown(s) ==
    IF ~ ShowsDefaults THEN control[s]
    ELSE IF saved[s] # Unset THEN saved[s]
    ELSE IF miner = "asic" /\ s = "debug" THEN "off"
    ELSE control[s]

(* Slip: the menu stays as it comes out of the nib.                        *)
LoadedButMenu(s) == IF saved[s] # Unset /\ <<miner, s>> = <<"asic", "flags">> THEN saved[s] ELSE Fresh(s)

(* What a control says after start-up: the algorithm is looked up, and the *)
(* manual flags of asicMiner.                                              *)
Loaded(s) ==
    IF saved[s] # Unset /\ (s = "algo" \/ <<miner, s>> = <<"asic", "flags">>)
    THEN saved[s]
    ELSE Fresh(s)

-----------------------------------------------------------------------------
(* Launching.  The arguments are put together in start:, and once more in  *)
(* awakeFromNib for the start with the application.  The files are named   *)
(* without "urls.conf".                                                    *)

(* bfgminerViewController, start: and awakeFromNib.                        *)
GpuFile(a) ==
    <<"ltc", "vtc", "bfg", "max", "credits", "pascal", "x11", "x13", "x14", "x15", "keccak", "qrk",
      "twe", "fugue", "nist", "fresh", "whirl", "neoscrypt", "whirlx", "lyra2re", "lyra2rev2",
      "pluck", "yescrypt", "yescryptmulti", "blakecoin", "blake", "sia", "decred", "vanilla",
      "lbry", "sib", "none">>[a + 1]

GpuFileAtStart(a) ==
    <<"ltc", "vtc", "bfg", "max", "credits", "pascal", "x11", "x13", "x14", "x15", "keccak", "qrk",
      "twe", "fugue", "nist", "fresh", "whirl", "neoscrypt", "whirlx", "lyra2re", "lyra2rev2",
      "pluck", "yescrypt", "yescryptmulti", "blakecoin", "blake", "sia", "decred", "vanilla",
      "lbry", "sib", "none">>[a + 1]

GpuBinary(a) ==
    CASE a \in {0, 2} -> "bfgminer"
      [] a = 1        -> "sgminergm"
      [] a = 3        -> "maxminer"
      [] a = 31       -> "ethminer"
      [] OTHER        -> "sgminer"

GpuBinaryAtStart(a) ==
    CASE a \in {0, 2}  -> "bfgminer"
      [] a \in {1, 22} -> "sgminergm"
      [] a = 3         -> "maxminer"
      [] a = 31        -> "ethminer"
      [] OTHER         -> "sgminer"

(* cpuminerViewController, start: and awakeFromNib.  A binary is named by  *)
(* its directory, and what it mines as the command line spells it.         *)
CpuFile(a) ==
    <<"ltc", "vtc", "qrk", "bfg", "max", "ltc", "x11", "xmr", "xmrlight", "decred", "lyra2rev2",
      "neoscrypt", "yescrypt", "x17", "glc">>[a + 1]

(* Slip: an algorithm is added to one of the copies only.                  *)
CpuFileOfOld(a) ==
    <<"ltc", "vtc", "qrk", "bfg", "max", "ltc", "x11", "xmr", "xmrlight", "decred", "lyra2rev2",
      "neoscrypt", "yescrypt", "x17", "">>[a + 1]

CpuFileAtStart(a) ==
    <<"ltc", "vtc", "qrk", "bfg", "max", "ltc", "x11", "xmr", "xmrlight", "decred", "lyra2rev2",
      "neoscrypt", "yescrypt", "x17", "glc">>[a + 1]

CpuMines(a) ==
    <<"scrypt", "", "quark", "sha256d", "keccak", "scrypt", "X11", "cryptonight", "cryptolight",
      "decred", "lyra2rev2", "neoscrypt", "yescrypt", "x17", "allium">>[a + 1]

CpuMinesAtStart(a) ==
    <<"scrypt", "", "quark", "sha256d", "keccak", "scrypt", "x11", "cryptonight", "cryptolight",
      "decred", "lyra2rev2", "neoscrypt", "yescrypt", "x17", "allium">>[a + 1]

CpuBinary(a) ==
    CASE a = 1        -> "vtccpu"
      [] a = 4        -> "maxcoincpu"
      [] a = 5        -> "gridseedcpu4"
      [] a = 6        -> "x11cpuminer"
      [] a \in 7 .. 13 -> "cpuminermulti"
      [] a = 14       -> "cpuminermultiallium"
      [] OTHER        -> "poolercpu"

CpuBinaryAtStart(a) ==
    CASE a = 1        -> "vtccpu"
      [] a = 4        -> "maxcoincpu"
      [] a = 5        -> "gridseedcpu4"
      [] a = 6        -> "x11cpuminer"
      [] a \in 7 .. 13 -> "cpuminermulti"
      [] a = 14       -> "cpuminermultiallium"
      [] OTHER        -> "poolercpu"

Program(binary, file, mines) == [binary |-> binary, file |-> file, mines |-> mines]

(* What is launched for algorithm a by the button and at the start-up.  A  *)
(* kernel of sgminer is named with its file.                               *)
ByButton(a) ==
    CASE miner = "bfg"  -> Program(GpuBinary(a), GpuFile(a), "")
      [] miner = "cpu"  -> Program(CpuBinary(a), CpuFile(a), CpuMines(a))
      [] miner = "asic" -> Program("bfgminer", "bfg", "")
      [] miner = "cg"   -> Program("cgminer", "bfg", "")

AtStart(a) ==
    CASE miner = "bfg"  -> Program(GpuBinaryAtStart(a), GpuFileAtStart(a), "")
      [] miner = "cpu"  -> Program(CpuBinaryAtStart(a), CpuFileAtStart(a), CpuMinesAtStart(a))
      [] miner = "asic" -> Program("bfgminer", "bfg", "")
      [] miner = "cg"   -> Program("cgminer", "bfg", "")

(* The settings that no launch passes on.                                  *)
Dead(s) == \/ miner = "cg" /\ s # "flags"
           \/ miner = "asic" /\ s = "threads"

(* The value of a setting the miner runs with when it is launched with v.  *)
(* All but asicMiner drop a single manual flag; the tuning is for Scrypt   *)
(* and SHA-256; ethminer gets only the manual flags.                       *)
InForce(s, v, a) ==
    IF \/ Dead(s)
       \/ s = "flags" /\ v = "-x" /\ miner # "asic"
       \/ s \in Tuning /\ miner = "bfg" /\ a \notin {0, 2}
       \/ s \notin {"flags", "algo"} /\ miner = "bfg" /\ a = 31
    THEN Blank(s)
    ELSE v

(* The boxes of the devices and the menu of algorithms are read from the   *)
(* panel, shown or not; all else from the defaults.                        *)
FromPanel == Devices \union {"algo"}

Given(s, panel) == IF s \in FromPanel THEN panel[s] ELSE Meaning(s, saved[s])

Algorithm(panel) == IF "algo" \in DOMAIN panel THEN panel["algo"] ELSE 0

Arguments(panel) == [s \in DOMAIN panel |-> InForce(s, Given(s, panel), Algorithm(panel))]

Started(program, panel) == [program |-> program, with |-> Arguments(panel)]

Nothing == [program |-> Program("", "none", ""), with |-> << >>]

-----------------------------------------------------------------------------
(* The system.                                                             *)

TypeOK ==
    /\ miner \in Miners
    /\ Watched \subseteq Settings(miner)
    /\ DOMAIN saved = Watched
    /\ \A s \in Watched : control[s] \in Values(miner, s) /\ saved[s] \in Values(miner, s) \union {Unset}
    /\ open \in BOOLEAN
    /\ touched \subseteq Watched
    /\ seen \in BOOLEAN

Init ==
    /\ miner \in Miners
    /\ \E W \in SUBSET Settings(miner) :
          /\ Cardinality(W \ {"algo"}) <= MaxWatched
          /\ "algo" \in Settings(miner) => "algo" \in W
          /\ saved = [s \in W |-> Unset]
          /\ control = [s \in W |-> Fresh(s)]
    /\ open = FALSE
    /\ launch = Nothing
    /\ touched = {}
    /\ seen = FALSE

(* The user changes a control of the panel.                                *)
Edit(s, v) ==
    /\ open
    /\ v # control[s]
    /\ control' = [control EXCEPT ![s] = v]
    /\ touched' = touched \union {s}
    /\ UNCHANGED <<miner, saved, open, launch, seen>>

(* The button "Set recommended values" of bfgminerViewController.  The     *)
(* work size of some models is set and, the branch after it having no      *)
(* braces, taken back.                                                     *)
Advised(s) ==
    CASE s = "intensity"                      -> "4"
      [] s \in {"worksize", "vector"}         -> "default"
      [] s = "quiet"                          -> "on"
      [] s = "debug"                          -> "off"
      [] OTHER                                -> control[s]

Recommend ==
    /\ miner = "bfg"
    /\ open
    /\ control' = [s \in Watched |-> Advised(s)]
    /\ touched' = touched \union {s \in Watched : Advised(s) # control[s]}
    /\ UNCHANGED <<miner, saved, open, launch, seen>>

ShowPanel ==
    /\ ~ open
    /\ open' = TRUE
    /\ control' = [s \in Watched |-> Shown(s)]
    /\ seen' = TRUE
    /\ UNCHANGED <<miner, saved, launch, touched>>

(* The button "Cancel", and the one that showed the panel: the controls    *)
(* stay as they are.                                                       *)
HidePanel ==
    /\ open
    /\ open' = FALSE
    /\ UNCHANGED <<miner, saved, control, launch, touched, seen>>

(* asicMiner hands the defaults a text field.  That may raise, after the   *)
(* entries are written and before the panel is hidden.                     *)
Raises == miner = "asic" /\ "threads" \in Watched /\ control["threads"] # ""

Apply ==
    /\ open
    /\ saved' = [s \in Watched |-> Written(s)]
    /\ open' \in {FALSE, Raises}
    /\ touched' = {}
    /\ UNCHANGED <<miner, control, launch, seen>>

Press ==
    /\ launch = Nothing
    /\ launch' = Started(ByButton(Algorithm(control)), control)
    /\ UNCHANGED <<miner, saved, control, open, touched, seen>>

Stop ==
    /\ launch # Nothing
    /\ launch' = Nothing
    /\ UNCHANGED <<miner, saved, control, open, touched, seen>>

(* The application ends and is started again; its panels come out of the   *)
(* nib, and the miner is started if the preference says so.                *)
StartUp(automatic) ==
    /\ control' = [s \in Watched |-> Loaded(s)]
    /\ open' = FALSE
    /\ launch' = IF automatic THEN Started(AtStart(Algorithm(control')), control') ELSE Nothing
    /\ touched' = {}
    /\ seen' = FALSE
    /\ UNCHANGED <<miner, saved>>

Next ==
    \/ \E s \in Watched : \E v \in Values(miner, s) : Edit(s, v)
    \/ Recommend
    \/ ShowPanel
    \/ HidePanel
    \/ Apply
    \/ Press
    \/ Stop
    \/ \E automatic \in BOOLEAN : StartUp(automatic)

Spec == Init /\ [][Next]_vars

-----------------------------------------------------------------------------
(* The settings a panel does not show as they were saved: cpuminer's loads *)
(* the algorithm only, and no panel sets the box "Dynamic Intensity".      *)
Forgotten == IF miner = "cpu" THEN Settings("cpu") \ {"algo"} ELSE {"intensity"}

(* Applying a panel changes nothing the user did not change: after         *)
(* start-ups, cancelled edits and earlier applications the panel has every *)
(* other setting as it was saved.  bfgminerViewController.m:1249: "Click   *)
(* apply to save these settings."                                          *)
AppliedIsKept ==
    [][open /\ Apply => \A s \in Watched \ (touched \union Forgotten) :
           Meaning(s, saved'[s]) = Meaning(s, saved[s])]_vars

(* What a launch reads from the panel, on screen or not, is what was       *)
(* saved: no launch, by the button or with the application, takes the      *)
(* algorithm or a device from a control that a cancelled panel, an         *)
(* application or a start-up left behind.  Two exceptions: a setting the   *)
(* user has changed and not applied is launched as the panel has it; and   *)
(* the device boxes count from the panel's first showing, for until then   *)
(* they are as the nib has them, whatever was saved (asicMiner.m:1340).    *)
(* It says nothing of the settings that are read straight from the         *)
(* defaults, nor that they reach the miner: cgminer's launch has only the  *)
(* flags of all that is saved (cgminerViewController.m:169-197).           *)
SavedIsLaunched ==
    [][Press \/ StartUp(TRUE) =>
         \A s \in (Watched \cap FromPanel) \ touched' :
             s = "algo" \/ seen' => launch'.with[s] = Meaning(s, saved[s])]_vars

(* The miner that starts with the application is the one the button would  *)
(* start: both copies of the launch agree, but for Yescrypt's program and  *)
(* the spelling of X11.                                                    *)
CopiesDiffer == {<<"bfg", 22>>, <<"cpu", 6>>}

StartsAlike ==
    [][StartUp(TRUE) /\ <<miner, Algorithm(control')>> \notin CopiesDiffer =>
           launch' = Started(ByButton(Algorithm(control')), control')]_vars
=============================================================================
