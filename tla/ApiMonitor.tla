----------------------------- MODULE ApiMonitor -----------------------------
(***************************************************************************)
(* The API monitor of asicMiner.m: every six seconds the text the last     *)
(* poll gathered is taken over and a new poll is started on a thread of    *)
(* its own; a second timer turns the text into the table of devices.  A    *)
(* poll asks the local miners whose dock reading is visible and then the   *)
(* networked miners the user added, one connection after the other.        *)
(*                                                                         *)
(* The main thread runs the timers and the user's commands.  The poll      *)
(* shares with it, without any lock, the dock readings, the list of        *)
(* addresses and the text.  A poll that lasts longer than six seconds runs *)
(* beside the next one, and shares these with it too.                      *)
(***************************************************************************)
EXTENDS Integers, Sequences

CONSTANTS
    Locals,         \* the local miners that may be asked
    Nets,           \* the networked miners the user knows
    Pollers,        \* bound: polls under way at once
    MaxFiles,       \* sockets the process may have open
    MaxAddresses,   \* bound: addresses on the list
    MaxText,        \* bound: answers in the text
    LosesNames      \* whether the resolver may fail for a networked miner

LocalOrder == <<"asic", "cg", "bfg">>

ASSUME ApiMonitorAssumption ==
    /\ Locals \subseteq {"asic", "cg", "bfg"}
    /\ Nets \intersect (Locals \union {"none"}) = {}
    /\ MaxFiles \in Nat
    /\ MaxAddresses \in Nat
    /\ MaxText \in Nat
    /\ LosesNames \in BOOLEAN

VARIABLES
    visible,     \* local miners whose dock reading's background is visible
    addresses,   \* minerAddressesArray
    up,          \* miners whose API answers
    at,          \* per poll, the step it is at
    last,        \* per poll, the number of addresses it counted
    copy,        \* per poll, the text it is about to store
    cleared,     \* polls under way when the list was cleared: history
    text,        \* outputMathString, one element per answer
    sole,        \* one poll alone wrote the text since it was cleared: history
    view,        \* asicAPIOutput
    viewSole,    \* the same of the text the view was taken from: history
    table,       \* the miners with devices in the table
    leaked,      \* sockets left open by calls that failed
    crash        \* why the application died

poll   == <<at, last, copy, cleared>>
output == <<text, sole, view, viewSole>>
world  == <<visible, up>>
vars   == <<world, addresses, poll, output, table, leaked, crash>>

Hosts == Locals \union Nets

(* The steps of apiAbstraction: it clears the text, asks up to three local *)
(* miners, counts the addresses, and asks the addresses in turn.           *)
Idle       == -1
Clearing   == 0
Counting   == 4
Address(p) == at[p] - Counting

NoCopy == <<"none">>
Texts  == Seq(Hosts)

TypeOK ==
    /\ visible \subseteq Locals
    /\ addresses \in Seq(Nets) /\ Len(addresses) <= MaxAddresses
    /\ up \subseteq Hosts
    /\ at \in [Pollers -> Idle .. Counting + MaxAddresses]
    /\ last \in [Pollers -> 0 .. MaxAddresses]
    /\ copy \in [Pollers -> Texts \union {NoCopy}]
    /\ cleared \subseteq Pollers
    /\ text \in Texts /\ view \in Texts
    /\ sole \in BOOLEAN /\ viewSole \in BOOLEAN
    /\ table \subseteq Hosts
    /\ leaked \in 0 .. MaxFiles
    /\ crash \in {"no", "range", "resolver"}

Init ==
    /\ visible \in SUBSET Locals
    /\ addresses = <<>>
    /\ up \in SUBSET Hosts
    /\ at = [p \in Pollers |-> Idle]
    /\ last = [p \in Pollers |-> 0]
    /\ copy = [p \in Pollers |-> NoCopy]
    /\ cleared = {}
    /\ text = <<>> /\ sole = TRUE
    /\ view = <<>> /\ viewSole = TRUE
    /\ table = {}
    /\ leaked = 0
    /\ crash = "no"

Alive == crash = "no"

-----------------------------------------------------------------------------
(* The poll, on its own thread.                                            *)

OthersWait(p) == \A q \in Pollers \ {p} : at[q] <= Clearing

(* A slip: the text of the last poll is kept.                              *)
ClearTextKeeps(p) ==
    /\ Alive /\ at[p] = Clearing
    /\ sole' = OthersWait(p)
    /\ at' = [at EXCEPT ![p] = 1]
    /\ UNCHANGED <<world, addresses, last, copy, cleared, text, view, viewSole, table, leaked, crash>>

(* setString:@"".  Polls that are past this step still write their answers. *)
ClearText(p) ==
    /\ Alive /\ at[p] = Clearing
    /\ text' = <<>>
    /\ sole' = OthersWait(p)
    /\ at' = [at EXCEPT ![p] = 1]
    /\ UNCHANGED <<world, addresses, last, copy, cleared, view, viewSole, table, leaked, crash>>

(* A local miner without a visible reading is not asked.                   *)
Skip(p) ==
    /\ Alive /\ at[p] \in 1 .. 3
    /\ copy[p] = NoCopy
    /\ LocalOrder[at[p]] \notin visible
    /\ at' = [at EXCEPT ![p] = @ + 1]
    /\ UNCHANGED <<world, addresses, last, copy, cleared, output, table, leaked, crash>>

(* A slip: the loop runs one address too far.                              *)
CountOneMore(p) ==
    /\ Alive /\ at[p] = Counting
    /\ last' = [last EXCEPT ![p] = Len(addresses) + 1]
    /\ at' = [at EXCEPT ![p] = @ + 1]
    /\ cleared' = cleared \ {p}
    /\ UNCHANGED <<world, addresses, copy, output, table, leaked, crash>>

(* The list is counted once, before the loop.                              *)
Count(p) ==
    /\ Alive /\ at[p] = Counting
    /\ last' = [last EXCEPT ![p] = Len(addresses)]
    /\ at' = [at EXCEPT ![p] = IF addresses = <<>> THEN Idle ELSE @ + 1]
    /\ cleared' = cleared \ {p}
    /\ UNCHANGED <<world, addresses, copy, output, table, leaked, crash>>

(* The miner the poll is about to ask.                                     *)
Asks(p, h) ==
    /\ Alive
    /\ copy[p] = NoCopy
    /\ \/ at[p] \in 1 .. 3 /\ h = LocalOrder[at[p]] /\ h \in visible
       \/ at[p] > Counting /\ Address(p) <= Len(addresses) /\ h = addresses[Address(p)]

(* What follows a call: the next miner, or the end of the poll.            *)
Advance(p) ==
    at' = [at EXCEPT ![p] = IF @ > Counting /\ Address(p) >= last[p] THEN Idle ELSE @ + 1]

(* callapi, the miner answers: the text is read, to be stored with the     *)
(* answer appended: many times in the code, which matters only to polls    *)
(* that overlap.  The cap on the text only bounds the model: a poll that   *)
(* outlasts the next puts back what that one cleared, again and again.     *)
Answer(p, h) ==
    /\ Asks(p, h)
    /\ leaked < MaxFiles
    /\ h \in up
    /\ Len(text) < MaxText
    /\ copy' = [copy EXCEPT ![p] = Append(text, h)]
    /\ UNCHANGED <<world, addresses, at, last, cleared, output, table, leaked, crash>>

Store(p) ==
    /\ Alive /\ copy[p] # NoCopy
    /\ text' = copy[p]
    /\ copy' = [copy EXCEPT ![p] = NoCopy]
    /\ Advance(p)
    /\ UNCHANGED <<world, addresses, last, cleared, sole, view, viewSole, table, leaked, crash>>

(* callapi, the connection is refused: it returns without closing the      *)
(* socket.                                                                 *)
Refused(p, h) ==
    /\ Asks(p, h)
    /\ leaked < MaxFiles
    /\ h \notin up
    /\ leaked' = leaked + 1
    /\ Advance(p)
    /\ UNCHANGED <<world, addresses, last, copy, cleared, output, table, crash>>

(* callapi, there is no socket to be had: nobody is asked any more.        *)
NoSocket(p, h) ==
    /\ Asks(p, h)
    /\ leaked = MaxFiles
    /\ Advance(p)
    /\ UNCHANGED <<world, addresses, last, copy, cleared, output, table, leaked, crash>>

(* callapi, gethostbyname returned NULL, which is then dereferenced.       *)
NameLost(p, h) ==
    /\ Asks(p, h)
    /\ leaked < MaxFiles
    /\ h \in Nets /\ LosesNames
    /\ crash' = "resolver"
    /\ UNCHANGED <<world, addresses, poll, output, table, leaked>>

(* objectAtIndex: beyond the end: the list was shortened since it was      *)
(* counted.  On this thread nobody catches the exception.                  *)
RangeError(p) ==
    /\ Alive
    /\ copy[p] = NoCopy
    /\ Address(p) > Len(addresses)
    /\ at[p] > Counting
    /\ crash' = "range"
    /\ UNCHANGED <<world, addresses, poll, output, table, leaked>>

Call(p, h) == Answer(p, h) \/ Refused(p, h) \/ NoSocket(p, h) \/ NameLost(p, h)

PollStep(p) ==
    \/ ClearText(p)
    \/ Skip(p)
    \/ Count(p)
    \/ Store(p)
    \/ RangeError(p)
    \/ \E h \in Hosts : Call(p, h)

-----------------------------------------------------------------------------
(* The timers, on the main thread.                                         *)

(* toggleTimerFired: takes over the text and starts a poll, whether or not *)
(* the last one is over; only the bound on Pollers makes it wait.          *)
Tick(p) ==
    /\ Alive /\ at[p] = Idle
    /\ view' = text /\ viewSole' = sole
    /\ at' = [at EXCEPT ![p] = Clearing]
    /\ UNCHANGED <<world, addresses, last, copy, cleared, text, sole, table, leaked, crash>>

(* Slips: the old rows stay, or this machine has no place of its own.      *)
ShowTableNoPlace ==
    /\ Alive /\ view # <<>>
    /\ table' = {view[i] : i \in {j \in DOMAIN view : j <= Len(addresses)}}
    /\ UNCHANGED <<world, addresses, poll, output, leaked, crash>>

ShowTableAdds ==
    LET places == Len(addresses) + (IF visible = {} THEN 0 ELSE 1)
        listed == {view[i] : i \in {j \in DOMAIN view : j <= places}}
    IN  /\ Alive /\ view # <<>>
        /\ table' = table \union listed
        /\ UNCHANGED <<world, addresses, poll, output, leaked, crash>>

(* toggleLoopTimerFired: rebuilds the table from the text, unless the text *)
(* is empty.  It looks at no more answers than there are places: one for   *)
(* this machine, however many of its miners answered, and one per address. *)
ShowTable ==
    LET places == Len(addresses) + (IF visible = {} THEN 0 ELSE 1)
    IN  /\ Alive /\ view # <<>>
        /\ table' = {view[i] : i \in {j \in DOMAIN view : j <= places}}
        /\ UNCHANGED <<world, addresses, poll, output, leaked, crash>>

-----------------------------------------------------------------------------
(* The user and the miners.                                                *)

AddMiner(n) ==
    /\ Alive
    /\ Len(addresses) < MaxAddresses
    /\ addresses' = Append(addresses, n)
    /\ UNCHANGED <<world, poll, output, table, leaked, crash>>

ClearMiners ==
    /\ Alive
    /\ addresses' = <<>>
    /\ cleared' = {p \in Pollers : at[p] > Counting}
    /\ UNCHANGED <<world, at, last, copy, output, table, leaked, crash>>

(* Local miners start and stop, and show and hide their readings.          *)
ReadingsChange ==
    /\ Alive
    /\ \E l \in Locals : visible' \in {visible \union {l}, visible \ {l}}
    /\ UNCHANGED <<up, addresses, poll, output, table, leaked, crash>>

(* Miners come up and go away.                                             *)
MinersChange ==
    /\ Alive
    /\ \E h \in Hosts : up' \in {up \union {h}, up \ {h}}
    /\ UNCHANGED <<visible, addresses, poll, output, table, leaked, crash>>

Next ==
    \/ \E p \in Pollers : PollStep(p) \/ Tick(p)
    \/ ShowTable
    \/ \E n \in Nets : AddMiner(n)
    \/ ClearMiners
    \/ ReadingsChange
    \/ MinersChange

SafeSpec == Init /\ [][Next]_vars

(* The timers repeat, and a poll, whose calls answer or fail in the end,   *)
(* gets on.                                                                *)
Refreshed == WF_vars(ShowTable)
Polled(p) == WF_vars(PollStep(p)) /\ WF_vars(Tick(p))

Spec == SafeSpec /\ Refreshed /\ \A p \in Pollers : Polled(p)

-----------------------------------------------------------------------------
(* Properties.                                                             *)

Listed(n) == \E i \in DOMAIN addresses : addresses[i] = n

(* From some moment on, the local miners stay as they are, the application *)
(* lives and there are sockets left.                                       *)
Calm(V) == visible = V /\ Alive /\ leaked < MaxFiles

(* A networked miner that answers and stays on the list is in the table    *)
(* again and again, as long as at most one local reading is visible.  For  *)
(* two the table has one place (asicMiner.m:401-425): the answers of both  *)
(* come first, and the last networked miner is never looked at.            *)
(* README.md:8: "monitoring networked miners".                             *)
AtMostOne(V) == \A l, m \in V : l = m

Monitored ==
    \A n \in Nets, V \in {W \in SUBSET Locals : AtMostOne(W)} :
        <>[](Calm(V) /\ Listed(n) /\ n \in up) => []<>(n \in table)

(* A networked miner that left the list leaves the table for good, as long *)
(* as a visible local miner answers (asicMiner.m:389-395: no answers, no   *)
(* update).                                                                *)
ForgottenInTheEnd ==
    \A n \in Nets, V \in SUBSET Locals : \A l \in V :
        <>[](Calm(V) /\ ~ Listed(n) /\ l \in up) => <>[](n \notin table)

(* The answers one poll alone gathered since it cleared the text are in    *)
(* the order in which it asks, each local miner's at most once, whatever   *)
(* late polls put there before: the table takes them by their position     *)
(* (asicMiner.m:427).                                                      *)
AnswersInOrder ==
    viewSole => \A i, j \in DOMAIN view :
        i < j /\ view[j] \in Locals =>
            /\ view[i] \in Locals
            /\ \E a, b \in 1 .. 3 : a < b /\ view[i] = LocalOrder[a] /\ view[j] = LocalOrder[b]

(* The poll runs off the end of the list only when the list was cleared    *)
(* while it went through it (asicMiner.m:823-832).                         *)
RangeErrorNeedsClear == crash = "range" => cleared # {}
=============================================================================
