----------------------------- MODULE OutputView -----------------------------
(***************************************************************************)
(* What a mining controller does with the output of its miner              *)
(* (taskWrapper:didProduceOutput: of the four controllers): the log in the *)
(* window and its limit, the rate it reads out of the output, the spoken   *)
(* warnings, and the outputs that make the handler raise.                  *)
(*                                                                         *)
(* An exception out of the handler ends the reading of the pipe (module    *)
(* TaskWrapper), so that the view gets no further output of that task.     *)
(*                                                                         *)
(* Lengths are counted in units of many characters.  What bfgminer's view  *)
(* says at the start is less than a unit and left out, as are dock         *)
(* readings, which are in Miners, and scrolling.                           *)
(***************************************************************************)
EXTENDS Integers

CONSTANTS
    Miners,      \* the miners looked at
    Trim,        \* how much of a full log is deleted (1000)
    Default,     \* the limit if none, 0 or 1 is set (5000)
    Limits,      \* the numbers in the entry logLength, 0 if it is not set
    Sizes,       \* the lengths of an output
    MaxLog       \* bound: outputs that would make the log longer are left out

AllMiners == {"bfg", "asic", "cg", "cpu"}

ASSUME OutputViewAssumption ==
    /\ Miners \subseteq AllMiners
    /\ Trim \in Nat \ {0} /\ Default \in Nat \ {0}
    /\ Limits \subseteq Nat /\ Sizes \subseteq Nat \ {0}
    /\ MaxLog \in Nat

VARIABLES
    miner,      \* whose window this is
    state,      \* the task: "off", "on", or "deaf" when its output is not read
    limit,      \* the entry logLength
    silent,     \* the entry enableSpeech
    log,        \* the length of the log
    editable,   \* the log was left editable
    label,      \* the rate shown: "0" or another
    tag,        \* the label's tag: a rate other than 0 was seen
    said,       \* what the last output or timer made the application say
    top,        \* history: the highest limit in force since the start
    steady,     \* history: no output since the start was longer than Trim
    last,       \* history: the length of the last output that was logged
    mined       \* history: a rate other than 0 was shown since the start

history  == <<top, steady, last, mined>>
settings == <<miner, limit, silent>>
vars     == <<settings, state, log, editable, label, tag, said, history>>

Rates   == {"0", "other"}
Phrases == {"Mining Stopped", "Authorisation Failed"}

TypeOK ==
    /\ miner \in Miners
    /\ state \in {"off", "on", "deaf"}
    /\ limit \in Limits
    /\ log \in Nat
    /\ label \in Rates
    /\ said \subseteq Phrases
    /\ top \in Nat \ {0} /\ last \in Nat
    /\ {silent, editable, tag, steady, mined} \subseteq BOOLEAN

(* A limit of 0 or 1, or none, is the default.                             *)
InForce(l) == IF l <= 1 THEN Default ELSE l

Higher(a, b) == IF a >= b THEN a ELSE b

Init ==
    /\ miner \in Miners
    /\ state = "off"
    /\ limit \in Limits /\ silent \in BOOLEAN
    /\ log = 0 /\ editable = FALSE
    /\ label = "0" /\ tag = FALSE /\ said = {}
    /\ top = InForce(limit) /\ steady = TRUE /\ last = 0 /\ mined = FALSE

-----------------------------------------------------------------------------
(* The task and the settings.                                              *)

(* A start clears the log, not the label.                                  *)
Start ==
    /\ state = "off"
    /\ state' = "on"
    /\ log' = 0
    /\ top' = InForce(limit) /\ steady' = TRUE /\ last' = 0 /\ mined' = FALSE
    /\ said' = {}
    /\ UNCHANGED <<settings, editable, label, tag>>

(* The user stops the task, which may be deaf.                             *)
Stop ==
    /\ state # "off"
    /\ state' = "off"
    /\ label' = IF miner \in {"asic", "cpu"} THEN "0" ELSE label
    /\ tag' = (miner = "cg" /\ tag)
    /\ said' = {}
    /\ UNCHANGED <<settings, log, editable, history>>

(* The task ends; that a deaf one has is never noticed.                    *)
TaskEnds ==
    /\ state = "on"
    /\ state' = "off"
    /\ tag' = (miner \in {"cg", "asic"} /\ tag)
    /\ said' = {}
    /\ UNCHANGED <<settings, log, editable, label, history>>

SetLimit ==
    /\ limit' \in Limits
    /\ top' = Higher(top, InForce(limit'))
    /\ said' = {}
    /\ UNCHANGED <<miner, silent, state, log, editable, label, tag, steady, last, mined>>

SetSpeech ==
    /\ silent' = ~ silent
    /\ said' = {}
    /\ UNCHANGED <<miner, limit, state, log, editable, label, tag, history>>

-----------------------------------------------------------------------------
(* An output.                                                              *)

(* Spoken before the output is looked at, by the rate of an earlier one;   *)
(* the CPU miner's controller does not ask whether it may.                 *)
Warns ==
    /\ miner # "asic" /\ label = "0" /\ tag
    /\ miner = "cpu" \/ ~ silent

MaySay(phrase) == IF miner # "cpu" /\ ~ silent THEN {phrase} ELSE {}

(* A slip: the tag is only up while the rate is.                           *)
SeenNow == miner # "asic" /\ label # "0"

Seen == tag \/ (miner # "asic" /\ label # "0")

Listen(more) ==
    /\ state = "on"
    /\ tag' = Seen
    /\ said' = (IF Warns THEN {"Mining Stopped"} ELSE {}) \union more

(* A slip: the log may be as long as the limit.                            *)
FullOnlyAbove(n) == log + n > InForce(limit)

Full(n) == log + n >= InForce(limit)

(* A slip: the selection is thought to fit any log.                        *)
NeverTooShort(n) == FALSE

TooShort(n) == log + n < Trim

(* The output is added to the log, and when that makes it full its first   *)
(* Trim characters are deleted; to select them raises if there are fewer,  *)
(* while the view is editable.                                             *)
AddToLog(n) ==
    /\ log + n <= MaxLog
    /\ last' = n /\ steady' = (steady /\ n <= Trim)
    /\ \/ /\ ~ Full(n)
          /\ log' = log + n
          /\ UNCHANGED <<state, editable>>
       \/ /\ Full(n) /\ ~ TooShort(n)
          /\ log' = log + n - Trim
          /\ editable' = FALSE
          /\ UNCHANGED state
       \/ /\ Full(n) /\ TooShort(n)
          /\ log' = log + n
          /\ editable' = TRUE
          /\ state' = "deaf"

KeepLog == UNCHANGED <<log, editable, last, steady>>

Show(rate) == label' = rate /\ mined' = (mined \/ rate # "0")

(* An output without a rate, and one about a refused login.                *)
Plain(n) ==
    /\ Listen({})
    /\ AddToLog(n)
    /\ UNCHANGED <<settings, label, mined, top>>

AuthFailed(n) ==
    /\ Listen(MaySay("Authorisation Failed"))
    /\ AddToLog(n)
    /\ UNCHANGED <<settings, label, mined, top>>

(* A message of the stratum protocol that the miner does not know is not   *)
(* logged; the CPU miner's view does not look for it.                      *)
Unknown ==
    /\ miner # "cpu"
    /\ Listen({})
    /\ KeepLog
    /\ UNCHANGED <<settings, state, label, mined, top>>

(* A line with a rate; the CPU miner's is not logged.                      *)
RateLine(rate, n) ==
    /\ Listen({})
    /\ Show(rate)
    /\ IF miner = "cpu" THEN KeepLog /\ UNCHANGED state ELSE AddToLog(n)
    /\ UNCHANGED <<settings, top>>

(* A line that was cut between two reads: a label is found and what should *)
(* follow it is not, which raises, before or after a rate is shown.        *)
TornLine ==
    /\ Listen({})
    /\ UNCHANGED <<label, mined>> \/ \E rate \in Rates : Show(rate)
    /\ state' = "deaf"
    /\ KeepLog
    /\ UNCHANGED <<settings, top>>

(* Bytes that are no text make a nil string, in which everything is found: *)
(* "Authorisation Failed" is said, "string too short" becomes the rate,    *)
(* nothing is logged, but bfgminer's view gets a note about the intensity, *)
(* which no limit is applied to.                                           *)
Undecodable ==
    /\ Listen(MaySay("Authorisation Failed"))
    /\ Show("other")
    /\ IF miner = "bfg"
         THEN /\ log + 1 <= MaxLog
              /\ log' = log + 1
              /\ last' = Trim /\ steady' = FALSE
              /\ UNCHANGED editable
         ELSE KeepLog
    /\ UNCHANGED <<settings, state, top>>

(* The ASIC miner's warning comes from a timer.                            *)
WarningTimer ==
    /\ miner = "asic"
    /\ said' = IF label = "0" /\ tag THEN MaySay("Mining Stopped") ELSE {}
    /\ tag' = (tag \/ label # "0")
    /\ UNCHANGED <<settings, state, log, editable, label, history>>

Output ==
    \/ \E n \in Sizes : Plain(n) \/ AuthFailed(n)
    \/ Unknown
    \/ \E rate \in Rates, n \in Sizes : RateLine(rate, n)
    \/ TornLine \/ Undecodable

Next ==
    \/ Start \/ Stop \/ TaskEnds
    \/ SetLimit \/ SetSpeech
    \/ Output
    \/ WarningTimer

Spec == Init /\ [][Next]_vars

-----------------------------------------------------------------------------
(* Properties.                                                             *)

(* The log stays below the highest limit in force since the task started,  *)
(* if no output was longer than what is deleted at a time and all were     *)
(* text: whatever limits were set while it ran                             *)
(* (bfgminerViewController.m:797-803).                                     *)
LogBounded == steady => log < Higher(top, Trim)

(* After a lower limit is set the log comes down to it while it goes on    *)
(* being written to, though each output deletes no more than Trim          *)
(* (bfgminerViewController.m:797).                                         *)
LogComesDown ==
    \A l \in Limits :
        /\ <>[](limit = l /\ state = "on" /\ last < Trim)
        /\ []<><<log' # log>>_vars
        => <>[](log < InForce(l))

(* The warning that mining stopped is given with the output after the one  *)
(* that showed 0, if a rate was shown since the start, though the tag it   *)
(* depends on is set by one output, read by another and reset by the       *)
(* handlers that stop the task (bfgminerViewController.m:625-640).         *)
WarnsWhenStopped ==
    [][Output /\ miner # "asic" /\ mined /\ label = "0" /\ ~ silent
         => "Mining Stopped" \in said']_vars
=============================================================================
