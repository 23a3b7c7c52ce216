----------------------------- MODULE DeviceTable -----------------------------
(***************************************************************************)
(* How asicMiner.m turns the text of a poll into the rows of the table     *)
(* (toggleLoopTimerFired:).  The text is split into pieces, one per answer *)
(* (and one before the first).  In each piece three loops, one per kind of *)
(* device, look for the names GPU0, GPU1, ... by counting up, cut out what *)
(* follows the name, make a row of it, and take it out of the text.  A     *)
(* name that is not there sets the counter back to 0, and only a missing   *)
(* name 0 ends a loop.                                                     *)
(*                                                                         *)
(* A piece is a sequence of devices.  What is left of it is a set of       *)
(* positions.  One step is one round of a loop.                            *)
(***************************************************************************)
EXTENDS Integers, Sequences

CONSTANTS
    Texts,       \* the texts a poll may leave: sequences of pieces
    MaxPlaces    \* bound: networked miners on the list, plus this machine

(* A device of the text: its kind and number, what else is in its data, the  *)
(* name its hash rate goes by, and whether the text breaks off inside of it. *)
Kinds   == <<"GPU", "PGA", "ASC">>
Devices == [kind : {"GPU", "PGA", "ASC"}, n : Nat, data : STRING,
            span : {"5s", "20s"}, cut : BOOLEAN]

ASSUME DeviceTableAssumption ==
    /\ Texts \subseteq Seq(Seq(Devices)) \ {<<>>}
    /\ MaxPlaces \in Nat

VARIABLES
    text,      \* the pieces of asicAPIOutput
    places,    \* the length of locationMapArray
    piece,     \* j, the piece looked at
    loop,      \* which of the three loops is running
    i,         \* its counter
    left,      \* the positions still in currentOutputString
    rows,      \* the rows of the table: the piece and position they are from
    status     \* "idle", "busy", or "raised": the handler was abandoned

vars == <<text, places, piece, loop, i, left, rows, status>>

Positions == (Nat \ {0}) \X (Nat \ {0})

TypeOK ==
    /\ text \in Texts \union {<<>>}
    /\ places \in 0 .. MaxPlaces
    /\ piece \in Nat \ {0}
    /\ loop \in 1 .. 3
    /\ i \in Nat
    /\ left \subseteq (Nat \ {0})
    /\ rows \in Seq(Positions)
    /\ status \in {"idle", "busy", "raised"}
    /\ status = "busy" => piece <= Len(text) /\ left \subseteq DOMAIN text[piece]

Init ==
    /\ text = <<>> /\ places = 0
    /\ piece = 1 /\ loop = 1 /\ i = 0
    /\ left = {}
    /\ rows = <<>>
    /\ status = "idle"

-----------------------------------------------------------------------------
(* The name with number k is found in the name with number n, however many *)
(* digits more that has: GPU1 in GPU1, in GPU10 to GPU19, in GPU100 to     *)
(* GPU199.  An int has ten digits at most.                                 *)
Shifts == {10, 100, 1000, 10000, 100000, 1000000, 10000000, 100000000, 1000000000}

StartsWith(n, k) == n = k \/ (k > 0 /\ \E t \in Shifts : n \div t = k)

Device(p) == text[piece][p]

(* Where the name the loop looks for occurs.                               *)
Named(k) ==
    {p \in left : Device(p).kind = Kinds[loop] /\ StartsWith(Device(p).n, k)}

First(S) == CHOOSE p \in S : \A q \in S : p <= q

(* A slip: the data stay in the text.                                      *)
TwinsStay(p) == {}

(* What taking out the data of p removes: every occurrence of it.          *)
Twins(p) == {q \in left : Device(q) = Device(p)}

(* getDataBetweenFromString: raises where a label is missing: the text     *)
(* breaks off before it, or what is left of the text has rates by another  *)
(* name than this device.                                                  *)
Raises(p) ==
    \/ Device(p).cut
    \/ Device(p).span = "5s" /\ \E q \in left : Device(q).span = "20s"

HasDevices(t) == \E a \in DOMAIN t : \E p \in DOMAIN t[a] : t[a][p].n = 0

-----------------------------------------------------------------------------
(* The timer fires with a text of some length: the rows are cleared, and   *)
(* the pieces are gone through if there is a device 0 in any of them.  A   *)
(* text of less than ten characters leaves everything as it is.            *)
Fire ==
    /\ status # "busy"
    /\ \E t \in Texts, k \in 0 .. MaxPlaces :
        /\ text' = t /\ places' = k
        /\ piece' = 1 /\ loop' = 1 /\ i' = 0
        /\ left' = DOMAIN t[1]
        /\ status' = IF HasDevices(t) THEN "busy" ELSE "idle"
    /\ rows' = <<>>

(* A slip: the counter is not set back, and a missing name ends the loop.  *)
NumberGoesOn == i

(* The name this round cuts at: the next one, or else the first again.     *)
Number == IF Named(i) # {} THEN i ELSE 0

(* A round of a loop that finds a name.                                    *)
Round ==
    /\ status = "busy"
    /\ Named(Number) # {}
    /\ LET p == First(Named(Number))
       IN  IF Raises(p)
             THEN /\ status' = "raised"
                  /\ UNCHANGED <<i, left, rows>>
             ELSE /\ rows' = Append(rows, <<piece, p>>)
                  /\ left' = left \ Twins(p)
                  /\ i' = Number + 1
                  /\ UNCHANGED status
    /\ UNCHANGED <<text, places, piece, loop>>

(* A slip: the piece before the first answer is counted as an answer.      *)
LastPieceTooSoon == piece >= Len(text) \/ piece >= places

(* No piece is left, or none has a place: the first piece is what precedes *)
(* the first answer and needs none.                                        *)
LastPiece == piece >= Len(text) \/ piece > places

(* A slip: one loop too many.                                              *)
MoreLoopsYet == loop <= Len(Kinds)

MoreLoops == loop < Len(Kinds)

(* A slip: the loop is only started over.                                  *)
LoopStartsOver ==
    /\ status = "busy"
    /\ Named(Number) = {}
    /\ i' = 0
    /\ UNCHANGED <<text, places, piece, loop, left, rows, status>>

(* A round that finds no name ends the loop; the last loop ends the piece, *)
(* and the last piece the handler.                                         *)
LoopEnds ==
    /\ status = "busy"
    /\ Named(Number) = {}
    /\ i' = 0
    /\ IF MoreLoops
         THEN /\ loop' = loop + 1
              /\ UNCHANGED <<piece, left, status>>
         ELSE /\ loop' = 1
              /\ IF LastPiece
                   THEN /\ status' = "idle"
                        /\ UNCHANGED <<piece, left>>
                   ELSE /\ piece' = piece + 1
                        /\ left' = DOMAIN text[piece + 1]
                        /\ UNCHANGED status
    /\ UNCHANGED <<text, places, rows>>

Next == Fire \/ Round \/ LoopEnds

(* The handler runs on the main thread, and nothing takes its place there. *)
Spec == Init /\ [][Next]_vars /\ WF_vars(Round) /\ WF_vars(LoopEnds)

-----------------------------------------------------------------------------
(* Properties.                                                             *)

(* The timer's handler ends, whatever the text: its loops have no bound    *)
(* (asicMiner.m:436) and end only because the text gets shorter.           *)
HandlerEnds == status = "busy" ~> status # "busy"

(* No device has two rows, whatever was torn or repeated in the text.      *)
NoDeviceTwice == \A a, b \in DOMAIN rows : rows[a] = rows[b] => a = b

(* A device goes on a list if it is the first or follows, among those of   *)
(* its kind, the device with the number before.                            *)
OnList(s, p) ==
    \/ s[p].n = 0
    \/ \E q \in DOMAIN s :
          /\ q < p /\ s[q].kind = s[p].kind /\ s[q].n = s[p].n - 1
          /\ \A r \in DOMAIN s : q < r /\ r < p => s[r].kind # s[p].kind

(* A piece that was not torn: lists of devices one after the other, of one *)
(* miner, no two of them alike.                                            *)
Sound(s) ==
    /\ \A p \in DOMAIN s : ~ s[p].cut /\ OnList(s, p)
    /\ \A p, q \in DOMAIN s : s[p].span = s[q].span /\ (s[p] = s[q] => p = q)

(* Every device of an answer that has a place gets its row, if no piece    *)
(* was torn or overlapped: the counter that starts over and the pieces     *)
(* that are counted from one before the first answer lose none             *)
(* (asicMiner.m:421-452).                                                  *)
AllDevicesShown ==
    status = "idle" /\ (\A a \in DOMAIN text : Sound(text[a])) =>
        \A a \in DOMAIN text : \A p \in DOMAIN text[a] :
            a <= places + 1 => \E b \in DOMAIN rows : rows[b] = <<a, p>>
=============================================================================
