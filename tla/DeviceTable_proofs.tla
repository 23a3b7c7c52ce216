------------------------- MODULE DeviceTable_proofs -------------------------
(***************************************************************************)
(* Proofs about DeviceTable, for any texts and any number of places: the   *)
(* state keeps its type, no device has two rows, none is lost when the     *)
(* answers were not torn, the rows keep their order, and the handler ends. *)
(***************************************************************************)
EXTENDS DeviceTable, TLAPS, SequenceTheorems, FiniteSetTheorems, WellFoundedInduction

(* There are three loops, one per kind of device.                          *)
LEMMA ThreeKinds ==
    /\ Len(Kinds) = 3
    /\ Kinds[1] = "GPU" /\ Kinds[2] = "PGA" /\ Kinds[3] = "ASC"
  BY DEF Kinds

(* A text has a first piece, and its pieces are sequences of devices.      *)
LEMMA Pieces ==
    ASSUME NEW t \in Texts
    PROVE  /\ Len(t) \in Nat \ {0}
           /\ 1 \in DOMAIN t
           /\ DOMAIN t = 1 .. Len(t)
           /\ \A a \in DOMAIN t : /\ t[a] \in Seq(Devices)
                                  /\ DOMAIN t[a] \subseteq Nat \ {0}
  <1>1. t \in Seq(Seq(Devices)) /\ t # <<>>
    BY DeviceTableAssumption
  <1>2. Len(t) \in Nat /\ Len(t) # 0 /\ DOMAIN t = 1 .. Len(t)
    BY <1>1, EmptySeq, LenProperties
  <1>3. \A a \in DOMAIN t : t[a] \in Seq(Devices)
    BY <1>1, <1>2
  <1>4. \A s \in Seq(Devices) : DOMAIN s \subseteq Nat \ {0}
    BY LenProperties
  <1> QED BY <1>2, <1>3, <1>4

(* The first of some positions is one of them and not after any other.     *)
LEMMA FirstIsOne ==
    ASSUME NEW S, S \subseteq Nat, S # {}
    PROVE  First(S) \in S /\ \A q \in S : First(S) <= q
  <1> DEFINE Less == {ss \in Nat \X Nat : ss[1] < ss[2]}
  <1>1. IsWellFoundedOn(Less, Nat)
    BY NatLessThanWellFounded DEF OpToRel
  <1>2. PICK p \in S : \A q \in S : ~ (<<q, p>> \in Less)
    <2> HIDE DEF Less
    <2> QED BY <1>1, WFMin
  <1>3. ASSUME NEW q \in S PROVE p <= q
    <2>1. p \in Nat /\ q \in Nat /\ <<q, p>> \in Nat \X Nat
      OBVIOUS
    <2>2. ~ (q < p)
      BY <1>2, <2>1
    <2> QED BY <2>1, <2>2
  <1> QED BY <1>3 DEF First

(* While the handler runs, the piece it looks at is one of a text.         *)
LEMMA BusyWithAPiece ==
    ASSUME TypeOK, status = "busy"
    PROVE  /\ text \in Texts
           /\ piece \in DOMAIN text
           /\ text[piece] \in Seq(Devices)
           /\ left \subseteq DOMAIN text[piece]
           /\ DOMAIN text[piece] \subseteq Nat \ {0}
           /\ \A p \in DOMAIN text[piece] : text[piece][p] \in Devices
  <1>1. text \in Texts
    BY EmptySeq DEF TypeOK
  <1>2. piece \in DOMAIN text
    BY <1>1, Pieces DEF TypeOK
  <1> QED BY <1>1, <1>2, Pieces, ElementOfSeq, LenProperties DEF TypeOK

(* A round looks for a number, and cuts at a device that is left.          *)
LEMMA RoundTakesOneLeft ==
    ASSUME TypeOK, status = "busy", Named(Number) # {}
    PROVE  /\ Number \in Nat
           /\ First(Named(Number)) \in Named(Number)
           /\ First(Named(Number)) \in left
           /\ First(Named(Number)) \in Nat \ {0}
           /\ <<piece, First(Named(Number))>> \in Positions
  <1>1. Named(Number) \subseteq left /\ left \subseteq Nat \ {0}
    BY DEF Named, TypeOK
  <1>2. First(Named(Number)) \in Named(Number)
    BY <1>1, FirstIsOne
  <1> QED BY <1>1, <1>2 DEF Number, TypeOK, Positions

(* The three ways in which a loop ends: the next loop, the end of the      *)
(* handler, the next piece.                                                *)
LEMMA LoopEndsCases ==
    ASSUME TypeOK, LoopEnds
    PROVE  /\ i' = 0 /\ text' = text /\ places' = places /\ rows' = rows
           /\ status = "busy" /\ Named(Number) = {}
           /\ \/ /\ loop < 3 /\ loop' = loop + 1
                 /\ piece' = piece /\ left' = left /\ status' = "busy"
              \/ /\ loop = 3 /\ loop' = 1
                 /\ piece = Len(text) \/ piece > places
                 /\ piece' = piece /\ left' = left /\ status' = "idle"
              \/ /\ loop = 3 /\ loop' = 1
                 /\ piece' = piece + 1 /\ piece' \in DOMAIN text
                 /\ left' = DOMAIN text[piece + 1] /\ status' = "busy"
  <1>1. text \in Texts /\ piece \in DOMAIN text /\ status = "busy"
    BY BusyWithAPiece DEF LoopEnds
  <1>2. /\ Len(text) \in Nat /\ DOMAIN text = 1 .. Len(text)
        /\ loop \in 1 .. 3 /\ piece \in Nat
    BY <1>1, Pieces DEF TypeOK
  <1>3. i' = 0 /\ text' = text /\ places' = places /\ rows' = rows
    BY DEF LoopEnds
  <1>4. CASE MoreLoops
    <2>1. loop < 3
      BY <1>4, ThreeKinds DEF MoreLoops
    <2>2. loop' = loop + 1 /\ piece' = piece /\ left' = left /\ status' = status
      BY <1>4 DEF LoopEnds
    <2> QED BY <1>1, <1>3, <2>1, <2>2 DEF LoopEnds
  <1>5. CASE ~ MoreLoops
    <2>1. loop = 3
      BY <1>2, <1>5, ThreeKinds DEF MoreLoops
    <2>2. CASE LastPiece
      <3>1. piece = Len(text) \/ piece > places
        BY <1>1, <1>2, <2>2 DEF LastPiece
      <3>2. loop' = 1 /\ piece' = piece /\ left' = left /\ status' = "idle"
        BY <1>5, <2>2 DEF LoopEnds
      <3> QED BY <1>1, <1>3, <2>1, <3>1, <3>2 DEF LoopEnds
    <2>3. CASE ~ LastPiece
      <3>1. piece + 1 \in DOMAIN text
        BY <1>1, <1>2, <2>3 DEF LastPiece
      <3>2. /\ loop' = 1 /\ piece' = piece + 1 /\ status' = status
            /\ left' = DOMAIN text[piece + 1]
        BY <1>5, <2>3 DEF LoopEnds
      <3> QED BY <1>1, <1>3, <2>1, <3>1, <3>2 DEF LoopEnds
    <2> QED BY <2>2, <2>3
  <1> QED BY <1>4, <1>5

(* The two ways in which a round ends: with a row or with an exception.    *)
LEMMA RoundCases ==
    ASSUME TypeOK, Round, NEW p, p = First(Named(Number))
    PROVE  /\ text' = text /\ places' = places
           /\ piece' = piece /\ loop' = loop
           /\ status = "busy"
           /\ \/ /\ Raises(p) /\ status' = "raised"
                 /\ i' = i /\ left' = left /\ rows' = rows
              \/ /\ ~ Raises(p) /\ status' = "busy"
                 /\ rows' = Append(rows, <<piece, p>>)
                 /\ left' = left \ Twins(p)
                 /\ i' = Number + 1
  BY DEF Round

-----------------------------------------------------------------------------
(* Type correctness.                                                       *)

LEMMA TypeInductive == TypeOK /\ [Next]_vars => TypeOK'
  <1> SUFFICES ASSUME TypeOK, [Next]_vars PROVE TypeOK'
    OBVIOUS
  <1>1. CASE Fire
    BY <1>1, Pieces DEF Fire, TypeOK, HasDevices
  <1>2. CASE Round
    <2> DEFINE p == First(Named(Number))
    <2>1. Number + 1 \in Nat /\ <<piece, p>> \in Positions
      BY <1>2, RoundTakesOneLeft DEF Round
    <2>2. Append(rows, <<piece, p>>) \in Seq(Positions)
      BY <2>1, AppendProperties DEF TypeOK
    <2> HIDE DEF p
    <2>3. CASE status' = "raised"
      BY <1>2, <2>3, RoundCases DEF TypeOK, p
    <2>4. CASE status' = "busy"
      <3>1. /\ left' \subseteq left /\ i' = Number + 1 /\ rows' = Append(rows, <<piece, p>>)
            /\ text' = text /\ places' = places /\ piece' = piece /\ loop' = loop
            /\ status = "busy"
        BY <1>2, <2>4, RoundCases DEF p
      <3> QED BY <2>1, <2>2, <2>4, <3>1 DEF TypeOK
    <2> QED BY <1>2, <2>3, <2>4, RoundCases
  <1>3. CASE LoopEnds
    <2>1. text \in Texts /\ Len(text) \in Nat /\ DOMAIN text = 1 .. Len(text)
      BY <1>3, BusyWithAPiece, Pieces DEF LoopEnds
    <2>2. CASE piece' = piece
      <3>1. /\ left' = left /\ i' = 0 /\ text' = text
            /\ places' = places /\ rows' = rows /\ status = "busy"
        BY <1>3, <2>2, LoopEndsCases DEF TypeOK
      <3>2. loop' \in 1 .. 3 /\ status' \in {"idle", "busy"}
        BY <1>3, <2>2, LoopEndsCases DEF TypeOK
      <3> QED BY <2>2, <3>1, <3>2 DEF TypeOK
    <2>3. CASE piece' # piece
      <3>1. /\ piece' \in DOMAIN text /\ left' = DOMAIN text[piece']
            /\ loop' = 1 /\ i' = 0 /\ status' = "busy"
            /\ text' = text /\ places' = places /\ rows' = rows
        BY <1>3, <2>3, LoopEndsCases
      <3>2. left' \subseteq Nat \ {0}
        BY <2>1, <3>1, Pieces
      <3> QED BY <2>1, <2>3, <3>1, <3>2 DEF TypeOK
    <2> QED BY <2>2, <2>3
  <1>4. CASE UNCHANGED vars
    BY <1>4 DEF vars, TypeOK
  <1> QED BY <1>1, <1>2, <1>3, <1>4 DEF Next

(* For any texts and any number of places the state keeps its type: the    *)
(* piece looked at is always one of the text (asicMiner.m:419).            *)
THEOREM TypeCorrect == Spec => []TypeOK
  <1>1. Init => TypeOK
    BY EmptySeq, DeviceTableAssumption DEF Init, TypeOK
  <1> QED BY <1>1, TypeInductive, PTL DEF Spec

-----------------------------------------------------------------------------
(* No device has two rows.                                                 *)

(* The devices of the piece looked at that have a row are no longer left,  *)
(* and no later piece has rows.                                            *)
RowsAreGone ==
    status = "busy" =>
        \A b \in DOMAIN rows :
            /\ rows[b][1] <= piece
            /\ rows[b][1] = piece => rows[b][2] \notin left

TwiceInv == NoDeviceTwice /\ RowsAreGone

LEMMA TwiceInductive == TypeOK /\ TwiceInv /\ [Next]_vars => TwiceInv'
  <1> SUFFICES ASSUME TypeOK, TwiceInv, [Next]_vars PROVE TwiceInv'
    OBVIOUS
  <1>1. CASE Fire
    BY <1>1 DEF Fire, TwiceInv, NoDeviceTwice, RowsAreGone
  <1>2. CASE Round
    <2> DEFINE p == First(Named(Number))
    <2>1. p \in left /\ <<piece, p>> \in Positions /\ piece \in Nat
      BY <1>2, RoundTakesOneLeft DEF Round, TypeOK
    <2>2. p \in Twins(p)
      BY <2>1 DEF Twins
    <2> HIDE DEF p
    <2>3. CASE status' = "raised"
      BY <1>2, <2>3, RoundCases DEF TwiceInv, NoDeviceTwice, RowsAreGone, p
    <2>4. CASE status' = "busy"
      <3>1. /\ left' = left \ Twins(p) /\ rows' = Append(rows, <<piece, p>>)
            /\ piece' = piece /\ status = "busy"
        BY <1>2, <2>4, RoundCases DEF p
      <3>2. /\ Len(rows) \in Nat /\ DOMAIN rows = 1 .. Len(rows)
            /\ DOMAIN rows' = 1 .. Len(rows) + 1
            /\ \A b \in 1 .. Len(rows) : rows'[b] = rows[b] /\ rows[b] \in Positions
            /\ rows'[Len(rows) + 1] = <<piece, p>>
        BY <2>1, <3>1, AppendProperties, LenProperties, ElementOfSeq DEF TypeOK
      <3>3. \A b \in 1 .. Len(rows) : rows[b] # <<piece, p>>
        BY <2>1, <3>1, <3>2 DEF TwiceInv, RowsAreGone
      <3>4. NoDeviceTwice'
        BY <3>2, <3>3 DEF TwiceInv, NoDeviceTwice
      <3>5. RowsAreGone'
        <4> SUFFICES ASSUME NEW b \in DOMAIN rows'
                     PROVE  /\ rows'[b][1] <= piece
                            /\ rows'[b][1] = piece => rows'[b][2] \notin left'
          BY <3>1 DEF RowsAreGone
        <4>1. CASE b \in 1 .. Len(rows)
          BY <3>1, <3>2, <4>1 DEF TwiceInv, RowsAreGone
        <4>2. CASE b = Len(rows) + 1
          BY <2>1, <2>2, <3>1, <3>2, <4>2
        <4> QED BY <3>2, <4>1, <4>2
      <3> QED BY <3>4, <3>5 DEF TwiceInv
    <2> QED BY <1>2, <2>3, <2>4, RoundCases
  <1>3. CASE LoopEnds
    <2>1. rows' = rows /\ status = "busy"
      BY <1>3, LoopEndsCases
    <2>2. CASE piece' = piece
      BY <1>3, <2>1, <2>2, LoopEndsCases DEF TwiceInv, NoDeviceTwice, RowsAreGone, TypeOK
    <2>3. CASE piece' # piece
      <3>1. piece' = piece + 1
        BY <1>3, <2>3, LoopEndsCases
      <3>2. \A b \in DOMAIN rows : rows[b][1] \in Nat
        BY LenProperties, ElementOfSeq DEF TypeOK, Positions
      <3> QED BY <2>1, <3>1, <3>2 DEF TwiceInv, NoDeviceTwice, RowsAreGone, TypeOK
    <2> QED BY <2>2, <2>3
  <1>4. CASE UNCHANGED vars
    BY <1>4 DEF vars, TwiceInv, NoDeviceTwice, RowsAreGone
  <1> QED BY <1>1, <1>2, <1>3, <1>4 DEF Next

(* For any texts, however torn or repeated, no device of them gets two     *)
(* rows (asicMiner.m:533).                                                 *)
THEOREM NoDeviceHasTwoRows == Spec => []NoDeviceTwice
  <1>1. Init => TypeOK
    BY EmptySeq, DeviceTableAssumption DEF Init, TypeOK
  <1>2. Init => TwiceInv
    BY DEF Init, TwiceInv, NoDeviceTwice, RowsAreGone
  <1>3. TwiceInv => NoDeviceTwice
    BY DEF TwiceInv
  <1> QED BY <1>1, <1>2, <1>3, TypeInductive, TwiceInductive, PTL DEF Spec

-----------------------------------------------------------------------------
(* No device is lost.                                                      *)

SoundText == \A a \in DOMAIN text : Sound(text[a])

(* The device after which p goes on its list.                              *)
Precedes(s, q, p) ==
    /\ q < p /\ s[q].kind = s[p].kind /\ s[q].n = s[p].n - 1
    /\ \A r \in DOMAIN s : q < r /\ r < p => s[r].kind # s[p].kind

Shown(a, p) == \E b \in DOMAIN rows : rows[b] = <<a, p>>

OfLoop(p) == Device(p).kind = Kinds[loop]

(* A device that is left although the one before it on its list is not.    *)
IsNext(p) ==
    /\ p \in left /\ OfLoop(p)
    /\ \E q \in DOMAIN text[piece] : Precedes(text[piece], q, p) /\ q \notin left

(* The loops leave all of the kinds to come and nothing of those that had  *)
(* their loop.                                                             *)
KindByKind ==
    \A p \in DOMAIN text[piece], j \in 1 .. 3 :
        Device(p).kind = Kinds[j] => /\ j > loop => p \in left
                                     /\ j < loop => p \notin left

(* Of the devices with one number the first is taken first.                *)
InOrder ==
    \A p, q \in DOMAIN text[piece] :
        /\ OfLoop(p) /\ OfLoop(q) /\ Device(p).n = Device(q).n
        /\ q < p /\ q \in left
        => p \in left

(* Only one list has been begun and not finished, and the counter is where *)
(* it goes on.                                                             *)
OneListOpen ==
    \A p, r \in left : IsNext(p) => Device(p).n = i /\ (IsNext(r) => p = r)

Rest == KindByKind /\ InOrder /\ OneListOpen

(* What is not left has its row, and so has all of the pieces before.      *)
ShownInv ==
    SoundText =>
        /\ status = "busy" =>
              /\ Rest
              /\ \A p \in DOMAIN text[piece] : p \notin left => Shown(piece, p)
              /\ \A a \in 1 .. piece - 1 : \A p \in DOMAIN text[a] : Shown(a, p)
        /\ status = "idle" =>
              \A a \in DOMAIN text : \A p \in DOMAIN text[a] :
                  a <= places + 1 => Shown(a, p)

(* The loops have different kinds, and every device is of one of them.     *)
LEMMA OneLoopPerKind ==
    /\ \A j, k \in 1 .. 3 : Kinds[j] = Kinds[k] => j = k
    /\ \A d \in Devices : \E j \in 1 .. 3 : d.kind = Kinds[j]
  <1>1. \A j \in 1 .. 3 : j = 1 \/ j = 2 \/ j = 3
    OBVIOUS
  <1>2. \A j, k \in 1 .. 3 : Kinds[j] = Kinds[k] => j = k
    BY <1>1, ThreeKinds
  <1>3. \A d \in Devices : d.kind = Kinds[1] \/ d.kind = Kinds[2] \/ d.kind = Kinds[3]
    BY ThreeKinds DEF Devices
  <1> QED BY <1>2, <1>3

(* A device of a sound piece that is not the first of its list follows     *)
(* another, and only one device follows a device.                          *)
LEMMA Lists ==
    ASSUME NEW s \in Seq(Devices), Sound(s)
    PROVE  /\ \A p \in DOMAIN s :
                 s[p].n # 0 => \E q \in DOMAIN s : Precedes(s, q, p)
           /\ \A q, p, r \in DOMAIN s : Precedes(s, q, p) /\ Precedes(s, q, r) => p = r
  <1>1. DOMAIN s \subseteq Nat
    BY LenProperties
  <1>2. \A p \in DOMAIN s : s[p].n # 0 => \E q \in DOMAIN s : Precedes(s, q, p)
    BY DEF Sound, OnList, Precedes
  <1>3. ASSUME NEW q \in DOMAIN s, NEW p \in DOMAIN s, NEW r \in DOMAIN s,
               Precedes(s, q, p), Precedes(s, q, r)
        PROVE  p = r
    <2>1. ~ (p < r) /\ ~ (r < p)
      BY <1>1, <1>3 DEF Precedes
    <2> QED BY <1>1, <2>1
  <1> QED BY <1>2, <1>3

(* The piece looked at is one of a sound text.                             *)
LEMMA BusyWithASoundPiece ==
    ASSUME TypeOK, SoundText, status = "busy"
    PROVE  /\ text \in Texts /\ piece \in DOMAIN text
           /\ text[piece] \in Seq(Devices) /\ Sound(text[piece])
           /\ left \subseteq DOMAIN text[piece]
           /\ DOMAIN text[piece] \subseteq Nat \ {0}
           /\ \A p \in DOMAIN text[piece] : Device(p) \in Devices /\ Device(p).n \in Nat
           /\ loop \in 1 .. 3 /\ i \in Nat
  <1>1. /\ text \in Texts /\ piece \in DOMAIN text /\ text[piece] \in Seq(Devices)
        /\ left \subseteq DOMAIN text[piece] /\ DOMAIN text[piece] \subseteq Nat \ {0}
        /\ \A p \in DOMAIN text[piece] : Device(p) \in Devices
    BY BusyWithAPiece DEF Device
  <1>2. \A d \in Devices : d.n \in Nat
    BY DEF Devices
  <1> QED BY <1>1, <1>2 DEF SoundText, TypeOK

(* A name is found in itself, and a name it is found in has the greater    *)
(* number; number 0 is found in no other name.                             *)
LEMMA LongerName ==
    ASSUME NEW n \in Nat, NEW k \in Nat
    PROVE  /\ StartsWith(k, k)
           /\ StartsWith(n, k) /\ n # k => k > 0 /\ n > k
  <1>1. ASSUME NEW t \in Shifts, n \div t = k, k > 0 PROVE n > k
    <2>1. \A q \in Nat : n \div q = k /\ q >= 10 => n >= 10 * k
      OBVIOUS
    <2> QED BY <1>1, <2>1 DEF Shifts
  <1> QED BY <1>1 DEF StartsWith

(* A round takes a device with the number it looks for, though the search  *)
(* also finds longer numbers; the first of those left, and the only one    *)
(* that may have been next.                                                *)
LEMMA RoundTakesTheNext ==
    ASSUME TypeOK, SoundText, status = "busy", Rest, Named(Number) # {},
           NEW p, p = First(Named(Number))
    PROVE  /\ p \in left /\ OfLoop(p) /\ Device(p).n = Number
           /\ Twins(p) = {p} /\ ~ Raises(p)
           /\ \A q \in left : OfLoop(q) /\ Device(q).n = Number => p <= q
           /\ \A r \in left : IsNext(r) => r = p
  <1> DEFINE s == text[piece]
  <1>1. /\ s \in Seq(Devices) /\ Sound(s)
        /\ left \subseteq DOMAIN s /\ DOMAIN s \subseteq Nat
        /\ \A q \in DOMAIN s : Device(q) = s[q] /\ Device(q).n \in Nat
        /\ i \in Nat
    BY BusyWithASoundPiece DEF Device
  <1> HIDE DEF s
  <1>2. p \in Named(Number) /\ \A q \in Named(Number) : p <= q
    BY <1>1, FirstIsOne DEF Named
  <1>3. p \in left /\ OfLoop(p) /\ StartsWith(Device(p).n, Number)
    BY <1>2 DEF Named, OfLoop
  <1>4. Device(p).n = Number
    <2> SUFFICES ASSUME Device(p).n # Number PROVE FALSE
      OBVIOUS
    <2>1. Number = i
      BY <1>1, <1>3, LongerName DEF Number
    <2>2. Device(p).n > i
      BY <1>1, <1>3, <2>1, LongerName
    <2> DEFINE Later == {r \in left : OfLoop(r) /\ Device(r).n > i}
    <2>3. Later \subseteq Nat /\ p \in Later
      BY <1>1, <1>3, <2>2
    <2> HIDE DEF Later
    <2>4. PICK r \in Later : \A q \in Later : r <= q
      BY <2>3, FirstIsOne
    <2>5. r \in left /\ r \in DOMAIN s /\ OfLoop(r) /\ s[r].n > i /\ r <= p
      BY <1>1, <2>3, <2>4 DEF Later
    <2>6. PICK q \in DOMAIN s : Precedes(s, q, r)
      BY <1>1, <2>5, Lists
    <2>7. /\ q < r /\ OfLoop(q) /\ Device(q).n >= i
          /\ Device(q).n = Device(r).n - 1
      BY <1>1, <2>5, <2>6 DEF Precedes, OfLoop
    <2>8. q \in left
      <3> SUFFICES ASSUME q \notin left PROVE FALSE
        OBVIOUS
      <3>1. IsNext(r)
        BY <2>5, <2>6 DEF IsNext, s
      <3> QED BY <1>1, <2>5, <3>1 DEF Rest, OneListOpen
    <2>9. CASE Device(q).n = i
      <3>1. q \in Named(i)
        BY <2>7, <2>8, <2>9 DEF Named, OfLoop, StartsWith
      <3>2. p <= q
        BY <1>2, <2>1, <3>1
      <3> QED BY <1>1, <1>3, <2>5, <2>7, <3>2
    <2>10. CASE Device(q).n # i
      <3>1. q \in Later
        BY <1>1, <2>7, <2>8, <2>10 DEF Later
      <3>2. r <= q
        BY <2>4, <3>1
      <3> QED BY <1>1, <2>5, <2>7, <3>2
    <2> QED BY <2>9, <2>10
  <1>5. \A q \in left : OfLoop(q) /\ Device(q).n = Number => p <= q
    BY <1>2 DEF Named, OfLoop, StartsWith
  <1>6. Twins(p) = {p}
    BY <1>1, <1>3 DEF Twins, Sound
  <1>7. ~ Raises(p)
    BY <1>1, <1>3 DEF Raises, Sound
  <1>8. ASSUME NEW r \in left, IsNext(r) PROVE r = p
    <2>1. PICK q \in DOMAIN s : Precedes(s, q, r) /\ q \notin left
      BY <1>8 DEF IsNext, s
    <2>2. /\ r \in DOMAIN s /\ OfLoop(r) /\ Device(r).n = i
          /\ q < r /\ OfLoop(q) /\ Device(q).n = i - 1
      BY <1>1, <1>8, <2>1 DEF Rest, OneListOpen, IsNext, Precedes, OfLoop
    <2>3. Number = i
      BY <2>2 DEF Number, Named, OfLoop, StartsWith
    <2>4. i # 0 /\ p <= r
      BY <1>1, <1>5, <1>8, <2>2, <2>3
    <2>5. CASE p < r
      <3>1. PICK o \in DOMAIN s : Precedes(s, o, p)
        BY <1>1, <1>3, <1>4, <2>3, <2>4, Lists
      <3>2. o < p /\ OfLoop(o) /\ Device(o).n = i - 1
        BY <1>1, <1>3, <1>4, <2>3, <3>1 DEF Precedes, OfLoop
      <3>3. ~ (q < p)
        BY <1>1, <1>3, <2>1, <2>2, <2>5 DEF Precedes, OfLoop
      <3>4. o < q
        BY <1>1, <1>3, <3>2, <3>3
      <3>5. o \notin left
        BY <1>1, <2>1, <2>2, <3>2, <3>4 DEF Rest, InOrder, s
      <3>6. IsNext(p)
        BY <1>3, <3>1, <3>5 DEF IsNext, s
      <3> QED BY <1>3, <1>8, <3>6 DEF Rest, OneListOpen
    <2> QED BY <1>1, <1>3, <2>2, <2>4, <2>5
  <1> QED BY <1>3, <1>4, <1>5, <1>6, <1>7, <1>8

(* When a loop finds no name, no device of its kind is left.               *)
LEMMA LoopLeavesNone ==
    ASSUME TypeOK, SoundText, status = "busy", Rest, Named(Number) = {}, NEW p \in left
    PROVE  ~ OfLoop(p)
  <1> SUFFICES ASSUME OfLoop(p) PROVE FALSE
    OBVIOUS
  <1> DEFINE s == text[piece]
             Ours == {q \in left : OfLoop(q)}
  <1>1. /\ s \in Seq(Devices) /\ Sound(s)
        /\ left \subseteq DOMAIN s /\ DOMAIN s \subseteq Nat
        /\ \A q \in DOMAIN s : Device(q) = s[q] /\ Device(q).n \in Nat
    BY BusyWithASoundPiece DEF Device
  <1>2. Ours \subseteq Nat /\ p \in Ours
    BY <1>1
  <1>3. PICK r \in Ours : \A q \in Ours : r <= q
    <2> HIDE DEF Ours
    <2> QED BY <1>2, FirstIsOne
  <1> HIDE DEF s
  <1>4. Number = 0 /\ Named(i) = {} /\ Named(0) = {}
    BY DEF Number
  <1>5. Device(r).n # 0
    BY <1>3, <1>4 DEF Named, OfLoop, StartsWith
  <1>6. PICK q \in DOMAIN s : Precedes(s, q, r)
    BY <1>1, <1>3, <1>5, Lists
  <1>7. q < r /\ OfLoop(q)
    BY <1>1, <1>3, <1>6 DEF Precedes, OfLoop
  <1>8. q \notin left
    BY <1>1, <1>3, <1>7
  <1>9. IsNext(r)
    BY <1>3, <1>6, <1>8 DEF IsNext, s
  <1>10. Device(r).n = i
    BY <1>3, <1>9 DEF Rest, OneListOpen
  <1> QED BY <1>3, <1>4, <1>10 DEF Named, OfLoop, StartsWith

(* A piece nothing of which was taken yet.                                 *)
LEMMA UntouchedRest ==
    ASSUME left' = DOMAIN text'[piece'], loop' = 1
    PROVE  Rest'
  <1>1. KindByKind'
    BY DEF KindByKind
  <1>2. InOrder'
    BY DEF InOrder
  <1>3. OneListOpen'
    BY DEF OneListOpen, IsNext
  <1> QED BY <1>1, <1>2, <1>3 DEF Rest

(* A new text: nothing has been taken, or there is nothing in it.          *)
LEMMA FireShows == ASSUME TypeOK, Fire PROVE ShownInv'
  <1> SUFFICES ASSUME SoundText'
               PROVE  /\ status' = "busy" =>
                            /\ Rest'
                            /\ \A p \in DOMAIN text'[piece'] : p \notin left' => Shown(piece, p)'
                            /\ \A a \in 1 .. piece' - 1 : \A p \in DOMAIN text'[a] : Shown(a, p)'
                      /\ status' = "idle" =>
                            \A a \in DOMAIN text' : \A p \in DOMAIN text'[a] :
                                a <= places' + 1 => Shown(a, p)'
    BY DEF ShownInv, Shown
  <1>1. PICK t \in Texts, k \in 0 .. MaxPlaces :
          /\ text' = t /\ places' = k
          /\ piece' = 1 /\ loop' = 1 /\ i' = 0
          /\ left' = DOMAIN t[1]
          /\ status' = IF HasDevices(t) THEN "busy" ELSE "idle"
    BY DEF Fire
  <1>2. \A a \in DOMAIN t : Sound(t[a]) /\ t[a] \in Seq(Devices)
    BY <1>1, Pieces DEF SoundText
  <1>3. CASE HasDevices(t)
    BY <1>1, <1>3, UntouchedRest
  <1>4. CASE ~ HasDevices(t)
    <2> SUFFICES ASSUME NEW a \in DOMAIN t, NEW p \in DOMAIN t[a] PROVE FALSE
      BY <1>1, <1>4
    <2>1. DOMAIN t[a] \subseteq Nat
      BY <1>2, LenProperties
    <2>2. PICK r \in DOMAIN t[a] : \A q \in DOMAIN t[a] : r <= q
      BY <2>1, FirstIsOne
    <2>3. PICK q \in DOMAIN t[a] : Precedes(t[a], q, r)
      BY <1>2, <1>4, <2>2, Lists DEF HasDevices
    <2> QED BY <2>1, <2>2, <2>3 DEF Precedes
  <1> QED BY <1>3, <1>4

(* A row is added: what had one still has.                                 *)
LEMMA RowAdded ==
    ASSUME TypeOK, NEW p, <<piece, p>> \in Positions,
           rows' = Append(rows, <<piece, p>>), piece' = piece
    PROVE  /\ \A a, q : Shown(a, q) => \E b \in DOMAIN rows' : rows'[b] = <<a, q>>
           /\ \E b \in DOMAIN rows' : rows'[b] = <<piece, p>>
  <1>1. /\ Len(rows) \in Nat /\ DOMAIN rows = 1 .. Len(rows)
        /\ DOMAIN rows' = 1 .. Len(rows) + 1
        /\ \A b \in 1 .. Len(rows) : rows'[b] = rows[b]
        /\ rows'[Len(rows) + 1] = <<piece, p>>
    BY AppendProperties, LenProperties DEF TypeOK
  <1>2. ASSUME NEW a, NEW q, Shown(a, q) PROVE \E b \in DOMAIN rows' : rows'[b] = <<a, q>>
    <2>1. PICK b \in DOMAIN rows : rows[b] = <<a, q>>
      BY <1>2 DEF Shown
    <2> QED BY <1>1, <2>1
  <1>3. \E b \in DOMAIN rows' : rows'[b] = <<piece, p>>
    BY <1>1
  <1> QED BY <1>2, <1>3

(* A round: the device taken has a row, and the list goes on after it.     *)
LEMMA RoundShows == ASSUME TypeOK, ShownInv, Round PROVE ShownInv'
  <1>0. PICK p : p = First(Named(Number))
    OBVIOUS
  <1>1. status = "busy" /\ Named(Number) # {} /\ text' = text /\ piece' = piece /\ loop' = loop
    BY DEF Round
  <1> SUFFICES ASSUME SoundText PROVE ShownInv'
    BY <1>1 DEF ShownInv, SoundText
  <1>2. Rest
    BY <1>1 DEF ShownInv
  <1>3. /\ p \in left /\ OfLoop(p) /\ Device(p).n = Number
        /\ Twins(p) = {p} /\ ~ Raises(p)
        /\ \A q \in left : OfLoop(q) /\ Device(q).n = Number => p <= q
        /\ \A r \in left : IsNext(r) => r = p
    BY <1>0, <1>1, <1>2, RoundTakesTheNext
  <1>4. <<piece, p>> \in Positions
    BY <1>0, <1>1, RoundTakesOneLeft
  <1>5. /\ i' = Number + 1 /\ status' = "busy"
        /\ left' = left \ {p} /\ rows' = Append(rows, <<piece, p>>)
    BY <1>0, <1>3, RoundCases
  <1>6. /\ text[piece] \in Seq(Devices) /\ Sound(text[piece])
        /\ left \subseteq DOMAIN text[piece] /\ DOMAIN text[piece] \subseteq Nat
        /\ \A q \in DOMAIN text[piece] : Device(q) = text[piece][q] /\ Device(q).n \in Nat
        /\ loop \in 1 .. 3
    BY <1>1, BusyWithASoundPiece DEF Device
  <1>7. \A q : Device(q)' = Device(q) /\ (OfLoop(q)' <=> OfLoop(q))
    BY <1>1 DEF Device, OfLoop
  <1>8. KindByKind'
    <2> SUFFICES ASSUME NEW q \in DOMAIN text[piece], NEW j \in 1 .. 3, Device(q).kind = Kinds[j]
                 PROVE  /\ j > loop => q \in left'
                        /\ j < loop => q \notin left'
      BY <1>1, <1>7 DEF KindByKind
    <2>1. j > loop => q # p
      BY <1>3, <1>6, OneLoopPerKind DEF OfLoop
    <2> QED BY <1>2, <1>5, <2>1 DEF Rest, KindByKind
  <1>9. InOrder'
    <2> SUFFICES ASSUME NEW q \in DOMAIN text[piece], NEW r \in DOMAIN text[piece],
                        OfLoop(q), OfLoop(r), Device(q).n = Device(r).n, r < q, r \in left'
                 PROVE  q \in left'
      BY <1>1, <1>7 DEF InOrder
    <2>1. q \in left /\ r \in left
      BY <1>2, <1>5 DEF Rest, InOrder
    <2>2. q # p
      BY <1>3, <1>6, <2>1
    <2> QED BY <1>5, <2>1, <2>2
  <1>10. ASSUME NEW r \in left', IsNext(r)' PROVE Precedes(text[piece], p, r)
    <2>1. PICK q \in DOMAIN text[piece] : Precedes(text[piece], q, r) /\ q \notin left'
      BY <1>1, <1>10 DEF IsNext, Precedes
    <2>2. r \in left /\ r # p /\ OfLoop(r)
      BY <1>5, <1>7, <1>10 DEF IsNext
    <2>3. q \in left
      <3> SUFFICES ASSUME q \notin left PROVE FALSE
        OBVIOUS
      <3>1. IsNext(r)
        BY <2>1, <2>2 DEF IsNext
      <3> QED BY <1>3, <2>2, <3>1
    <2> QED BY <1>5, <2>1, <2>3
  <1>11. OneListOpen'
    <2> SUFFICES ASSUME NEW q \in left', NEW r \in left', IsNext(q)'
                 PROVE  Device(q)'.n = i' /\ (IsNext(r)' => q = r)
      BY DEF OneListOpen
    <2>1. Device(q).n = Number + 1
      <3>1. Precedes(text[piece], p, q)
        BY <1>10
      <3>2. p \in DOMAIN text[piece] /\ q \in DOMAIN text[piece]
        BY <1>3, <1>5, <1>6
      <3>3. Device(p).n = Device(q).n - 1
        BY <1>6, <3>1, <3>2 DEF Precedes
      <3>4. Device(q).n \in Nat /\ Device(p).n = Number
        BY <1>3, <1>6, <3>2
      <3> QED BY <3>3, <3>4
    <2>2. IsNext(r)' => q = r
      BY <1>3, <1>5, <1>6, <1>10, Lists
    <2> QED BY <1>5, <1>7, <2>1, <2>2
  <1>12. /\ \A q \in DOMAIN text[piece] : q \notin left' => Shown(piece, q)'
         /\ \A a \in 1 .. piece - 1 : \A q \in DOMAIN text[a] : Shown(a, q)'
    <2>1. /\ \A a, q : Shown(a, q) => \E b \in DOMAIN rows' : rows'[b] = <<a, q>>
          /\ \E b \in DOMAIN rows' : rows'[b] = <<piece, p>>
      BY <1>1, <1>4, <1>5, RowAdded
    <2>2. /\ \A q \in DOMAIN text[piece] : q \notin left => Shown(piece, q)
          /\ \A a \in 1 .. piece - 1 : \A q \in DOMAIN text[a] : Shown(a, q)
      BY <1>1 DEF ShownInv
    <2> QED BY <1>1, <1>5, <2>1, <2>2 DEF Shown
  <1> QED BY <1>1, <1>5, <1>8, <1>9, <1>11, <1>12 DEF ShownInv, Rest, Shown

(* The end of a loop: no device of its kind is left, and after the last    *)
(* loop none of the piece.                                                 *)
LEMMA LoopEndsShows == ASSUME TypeOK, ShownInv, LoopEnds PROVE ShownInv'
  <1>1. /\ status = "busy" /\ Named(Number) = {}
        /\ i' = 0 /\ text' = text /\ places' = places /\ rows' = rows
    BY LoopEndsCases
  <1> SUFFICES ASSUME SoundText PROVE ShownInv'
    BY <1>1 DEF ShownInv, SoundText
  <1>2. /\ Rest
        /\ \A p \in DOMAIN text[piece] : p \notin left => Shown(piece, p)
        /\ \A a \in 1 .. piece - 1 : \A p \in DOMAIN text[a] : Shown(a, p)
    BY <1>1 DEF ShownInv
  <1>3. \A p \in left : ~ OfLoop(p)
    BY <1>1, <1>2, LoopLeavesNone
  <1>4. /\ left \subseteq DOMAIN text[piece]
        /\ \A p \in DOMAIN text[piece] : Device(p) \in Devices
        /\ loop \in 1 .. 3 /\ piece \in Nat /\ places \in Nat
        /\ Len(text) \in Nat /\ DOMAIN text = 1 .. Len(text)
    BY <1>1, BusyWithASoundPiece, Pieces, DeviceTableAssumption DEF TypeOK
  <1>5. \A a, p : Shown(a, p)' <=> Shown(a, p)
    BY <1>1 DEF Shown
  <1>6. CASE /\ loop < 3 /\ loop' = loop + 1
             /\ piece' = piece /\ left' = left /\ status' = "busy"
    <2>1. \A p : Device(p)' = Device(p)
      BY <1>1, <1>6 DEF Device
    <2>2. KindByKind'
      <3> SUFFICES ASSUME NEW p \in DOMAIN text[piece], NEW j \in 1 .. 3, Device(p).kind = Kinds[j]
                   PROVE  /\ j > loop + 1 => p \in left
                          /\ j < loop + 1 => p \notin left
        BY <1>1, <1>6, <2>1 DEF KindByKind
      <3>1. j > loop + 1 => p \in left
        BY <1>2, <1>4 DEF Rest, KindByKind
      <3>2. CASE j = loop
        BY <1>3, <1>4, <3>2 DEF OfLoop
      <3>3. CASE j < loop
        BY <1>2, <1>4, <3>3 DEF Rest, KindByKind
      <3> QED BY <1>4, <3>1, <3>2, <3>3
    <2>3. \A p \in DOMAIN text[piece] : OfLoop(p)' => p \in left
      BY <1>2, <1>4, <1>6, <2>1 DEF Rest, KindByKind, OfLoop
    <2>4. InOrder'
      BY <1>1, <1>6, <2>3 DEF InOrder
    <2>5. \A p : ~ IsNext(p)'
      <3> SUFFICES ASSUME NEW p, IsNext(p)' PROVE FALSE
        OBVIOUS
      <3>1. PICK q \in DOMAIN text[piece] : Precedes(text[piece], q, p) /\ q \notin left
        BY <1>1, <1>6 DEF IsNext, Precedes
      <3>2. OfLoop(q)'
        BY <2>1, <3>1 DEF IsNext, Precedes, OfLoop, Device
      <3> QED BY <2>3, <3>1, <3>2
    <2>6. OneListOpen'
      BY <2>5 DEF OneListOpen
    <2> QED BY <1>1, <1>2, <1>5, <1>6, <2>2, <2>4, <2>6 DEF ShownInv, Rest
  <1>7. CASE loop = 3
    <2>1. left = {}
      <3> SUFFICES ASSUME NEW p \in left PROVE FALSE
        OBVIOUS
      <3>1. PICK j \in 1 .. 3 : Device(p).kind = Kinds[j]
        BY <1>4, OneLoopPerKind
      <3>2. j = 3 \/ j < 3
        OBVIOUS
      <3> QED BY <1>2, <1>3, <1>4, <1>7, <3>1, <3>2 DEF Rest, KindByKind, OfLoop
    <2>2. \A a \in 1 .. piece : \A p \in DOMAIN text[a] : Shown(a, p)
      <3> SUFFICES ASSUME NEW a \in 1 .. piece, NEW p \in DOMAIN text[a] PROVE Shown(a, p)
        OBVIOUS
      <3>1. a = piece \/ a \in 1 .. piece - 1
        BY <1>4
      <3> QED BY <1>2, <2>1, <3>1
    <2>3. CASE /\ piece = Len(text) \/ piece > places
               /\ status' = "idle"
      <3>1. \A a \in DOMAIN text : a <= places + 1 => a \in 1 .. piece
        <4> SUFFICES ASSUME NEW a \in 1 .. Len(text), a <= places + 1 PROVE a \in 1 .. piece
          BY <1>4
        <4>1. CASE piece = Len(text)
          BY <4>1
        <4>2. CASE piece > places
          BY <1>4, <4>2
        <4> QED BY <2>3, <4>1, <4>2
      <3> QED BY <1>1, <1>5, <2>2, <2>3, <3>1 DEF ShownInv
    <2>4. CASE /\ loop' = 1 /\ piece' = piece + 1 /\ piece' \in DOMAIN text
               /\ left' = DOMAIN text[piece + 1] /\ status' = "busy"
      <3>1. Rest'
        BY <1>1, <2>4, UntouchedRest
      <3>2. 1 .. piece' - 1 = 1 .. piece
        BY <1>4, <2>4
      <3> QED BY <1>1, <1>5, <2>2, <2>4, <3>1, <3>2 DEF ShownInv
    <2> QED BY <1>7, <2>3, <2>4, LoopEndsCases
  <1> QED BY <1>6, <1>7, LoopEndsCases

(* Every device of a sound text that has a place has its row when the      *)
(* handler is through, for any number of answers, lists and devices        *)
(* (asicMiner.m:421-452).                                                  *)
THEOREM NoDeviceIsLost == Spec => []AllDevicesShown
  <1>1. Init => TypeOK
    BY EmptySeq, DeviceTableAssumption DEF Init, TypeOK
  <1>2. Init => ShownInv
    BY DEF Init, ShownInv
  <1>3. TypeOK /\ ShownInv /\ [Next]_vars => ShownInv'
    <2>1. UNCHANGED vars /\ ShownInv => ShownInv'
      BY DEF vars, ShownInv, SoundText, Shown, Rest, KindByKind, InOrder, OneListOpen, IsNext,
             OfLoop, Device
    <2> QED BY <2>1, FireShows, RoundShows, LoopEndsShows DEF Next
  <1>4. ShownInv => AllDevicesShown
    BY DEF ShownInv, SoundText, AllDevicesShown, Shown
  <1> QED BY <1>1, <1>2, <1>3, <1>4, TypeInductive, PTL DEF Spec

-----------------------------------------------------------------------------
(* The order of the rows.                                                  *)

(* A row is of a device of the text, in an answer that has a place.        *)
RowHasPlace(r) ==
    /\ r[1] \in DOMAIN text /\ r[1] <= places + 1
    /\ r[2] \in DOMAIN text[r[1]]

RowsHavePlaces == \A b \in DOMAIN rows : RowHasPlace(rows[b])

(* The rows come miner by miner, and for each miner kind by kind.          *)
RowOfLoop(r, j) == text[r[1]][r[2]].kind = Kinds[j]

NotBefore(r, s) ==
    \/ r[1] < s[1]
    \/ /\ r[1] = s[1]
       /\ \E j, k \in 1 .. 3 : j <= k /\ RowOfLoop(r, j) /\ RowOfLoop(s, k)

RowsInOrder == \A b, c \in DOMAIN rows : b < c => NotBefore(rows[b], rows[c])

(* Neither is inductive without how far the rows there are have come.      *)
ComeTo(r) ==
    \/ r[1] < piece
    \/ r[1] = piece /\ \E j \in 1 .. loop : RowOfLoop(r, j)

RowsSoFar ==
    status = "busy" =>
        /\ piece <= places + 1
        /\ \A b \in DOMAIN rows : ComeTo(rows[b])

OrderInv == RowsHavePlaces /\ RowsInOrder /\ RowsSoFar

(* A piece after the first is gone on to only if its answer has a place.   *)
LEMMA LaterPieceHasPlace ==
    ASSUME TypeOK, LoopEnds, piece' # piece
    PROVE  piece' = piece + 1 /\ piece <= places /\ piece \in Nat /\ places \in Nat
  <1>1. ~ MoreLoops /\ ~ LastPiece /\ piece' = piece + 1
    BY DEF LoopEnds
  <1>2. piece \in Nat /\ places \in Nat
    BY DeviceTableAssumption DEF TypeOK
  <1> QED BY <1>1, <1>2 DEF LastPiece

(* What a row says of the text depends on the text and the places only.    *)
LEMMA RowsStay ==
    ASSUME text' = text, places' = places
    PROVE  /\ \A r \in Positions : RowHasPlace(r)' <=> RowHasPlace(r)
           /\ \A r, s \in Positions : NotBefore(r, s)' <=> NotBefore(r, s)
           /\ \A r \in Positions : \A j \in 1 .. 3 : RowOfLoop(r, j)' <=> RowOfLoop(r, j)
  BY DEF RowHasPlace, NotBefore, RowOfLoop

LEMMA OrderInductive == TypeOK /\ OrderInv /\ [Next]_vars => OrderInv'
  <1> SUFFICES ASSUME TypeOK, OrderInv, [Next]_vars PROVE OrderInv'
    OBVIOUS
  <1>1. CASE Fire
    <2>1. DOMAIN rows' = {} /\ piece' = 1 /\ places' \in Nat
      BY <1>1, DeviceTableAssumption DEF Fire
    <2>2. RowsHavePlaces' /\ RowsInOrder'
      BY <2>1, Zenon DEF RowsHavePlaces, RowsInOrder
    <2>3. piece' <= places' + 1
      <3>1. \A k \in Nat : 1 <= k + 1
        OBVIOUS
      <3> QED BY <2>1, <3>1, Zenon
    <2>4. RowsSoFar'
      BY <2>1, <2>3, Zenon DEF RowsSoFar
    <2> QED BY <2>2, <2>4 DEF OrderInv
  <1>2. CASE Round
    <2> DEFINE p == First(Named(Number))
               r == <<piece, p>>
    <2>1. /\ p \in Named(Number) /\ p \in left /\ r \in Positions
          /\ piece \in Nat /\ loop \in 1 .. 3 /\ status = "busy"
      BY <1>2, RoundTakesOneLeft DEF Round, TypeOK
    <2>2. p \in DOMAIN text[piece] /\ piece \in DOMAIN text
      BY <2>1, BusyWithAPiece
    <2>3. /\ text' = text /\ places' = places /\ piece' = piece /\ loop' = loop
          /\ \/ rows' = rows
             \/ rows' = Append(rows, r)
      BY <1>2, RoundCases DEF r
    <2>4. RowOfLoop(r, loop)
      BY <2>1 DEF RowOfLoop, Named, Device
    <2>5. RowHasPlace(r)
      BY <2>1, <2>2 DEF RowHasPlace, OrderInv, RowsSoFar
    <2>6. ComeTo(r)
      BY <2>1, <2>4 DEF ComeTo
    <2>7. \A s \in Positions : ComeTo(s) => NotBefore(s, r)
      <3> SUFFICES ASSUME NEW s \in Positions, ComeTo(s) PROVE NotBefore(s, r)
        OBVIOUS
      <3>1. CASE s[1] < piece
        BY <3>1 DEF NotBefore
      <3>2. CASE s[1] = piece /\ \E j \in 1 .. loop : RowOfLoop(s, j)
        <4>1. PICK j \in 1 .. loop : RowOfLoop(s, j)
          BY <3>2
        <4>2. j \in 1 .. 3 /\ loop \in 1 .. 3 /\ j <= loop
          BY <2>1
        <4>3. s[1] = r[1]
          BY <3>2
        <4> HIDE DEF r
        <4> QED BY <2>4, <4>1, <4>2, <4>3 DEF NotBefore
      <3> QED BY <3>1, <3>2 DEF ComeTo
    <2> HIDE DEF r
    <2>8. \A s \in Positions : ComeTo(s)' <=> ComeTo(s)
      BY <2>3 DEF ComeTo, RowOfLoop
    <2>9. CASE rows' = rows
      <3>1. \A b \in DOMAIN rows : rows[b] \in Positions
        BY LenProperties, ElementOfSeq DEF TypeOK
      <3> QED BY <2>1, <2>3, <2>8, <2>9, <3>1, RowsStay
              DEF OrderInv, RowsHavePlaces, RowsInOrder, RowsSoFar
    <2>10. CASE rows' = Append(rows, r)
      <3>1. /\ Len(rows) \in Nat /\ DOMAIN rows = 1 .. Len(rows)
            /\ DOMAIN rows' = 1 .. Len(rows) + 1
            /\ \A b \in 1 .. Len(rows) : rows'[b] = rows[b] /\ rows[b] \in Positions
            /\ rows'[Len(rows) + 1] = r
        BY <2>1, <2>10, AppendProperties, LenProperties, ElementOfSeq DEF TypeOK
      <3>2. \A b \in DOMAIN rows' : b \in 1 .. Len(rows) \/ b = Len(rows) + 1
        BY <3>1
      <3>3. \A b \in DOMAIN rows' : rows'[b] \in Positions
        BY <2>1, <3>1, <3>2
      <3>4. \A b \in DOMAIN rows' : RowHasPlace(rows'[b]) /\ ComeTo(rows'[b])
        BY <2>1, <2>5, <2>6, <3>1, <3>2 DEF OrderInv, RowsHavePlaces, RowsSoFar
      <3>5. \A b, c \in DOMAIN rows' : b < c => NotBefore(rows'[b], rows'[c])
        <4> SUFFICES ASSUME NEW b \in DOMAIN rows', NEW c \in DOMAIN rows', b < c
                     PROVE  NotBefore(rows'[b], rows'[c])
          OBVIOUS
        <4>1. b \in 1 .. Len(rows)
          BY <3>1
        <4>2. CASE c \in 1 .. Len(rows)
          BY <3>1, <4>1, <4>2 DEF OrderInv, RowsInOrder
        <4>3. CASE c = Len(rows) + 1
          BY <2>7, <3>1, <3>3, <3>4, <4>3
        <4> QED BY <3>2, <4>2, <4>3
      <3>6. piece' <= places' + 1
        BY <2>1, <2>3 DEF OrderInv, RowsSoFar
      <3> QED BY <2>3, <2>8, <3>3, <3>4, <3>5, <3>6, RowsStay
              DEF OrderInv, RowsHavePlaces, RowsInOrder, RowsSoFar
    <2> QED BY <2>3, <2>9, <2>10
  <1>3. CASE LoopEnds
    <2>1. /\ text' = text /\ places' = places /\ rows' = rows /\ status = "busy"
          /\ \A b \in DOMAIN rows : rows[b] \in Positions
      BY <1>3, LoopEndsCases, LenProperties, ElementOfSeq DEF TypeOK
    <2>2. RowsHavePlaces' /\ RowsInOrder'
      BY <2>1, RowsStay DEF OrderInv, RowsHavePlaces, RowsInOrder
    <2>3. RowsSoFar'
      <3> SUFFICES ASSUME status' = "busy" PROVE RowsSoFar'
        BY DEF RowsSoFar
      <3>1. CASE piece' = piece
        <4>1. loop \in 1 .. 3 /\ loop' = loop + 1
          <5>1. piece \in Nat /\ loop \in 1 .. 3 /\ piece + 1 # piece
            BY DEF TypeOK
          <5>2. piece' # piece + 1 /\ status' # "idle"
            BY <3>1, <5>1
          <5> QED BY <1>3, <5>1, <5>2, LoopEndsCases
        <4>2. \A j \in 1 .. loop : j \in 1 .. loop'
          BY <4>1
        <4>3. \A s \in Positions : ComeTo(s) => ComeTo(s)'
          BY <2>1, <3>1, <4>2 DEF ComeTo, RowOfLoop
        <4> QED BY <2>1, <3>1, <4>3 DEF OrderInv, RowsSoFar
      <3>2. CASE piece' # piece
        <4>1. piece' = piece + 1 /\ piece <= places /\ piece \in Nat /\ places \in Nat
          BY <1>3, <3>2, LaterPieceHasPlace
        <4>2. \A s \in Positions : ComeTo(s) => ComeTo(s)'
          BY <4>1 DEF ComeTo, Positions
        <4> QED BY <2>1, <4>1, <4>2 DEF OrderInv, RowsSoFar
      <3> QED BY <3>1, <3>2
    <2> QED BY <2>2, <2>3 DEF OrderInv
  <1>4. CASE UNCHANGED vars
    <2>1. /\ text' = text /\ places' = places /\ piece' = piece /\ loop' = loop
          /\ rows' = rows /\ status' = status
      BY <1>4 DEF vars
    <2>2. \A b \in DOMAIN rows : rows[b] \in Positions
      BY LenProperties, ElementOfSeq DEF TypeOK
    <2>3. RowsHavePlaces' /\ RowsInOrder'
      BY <2>1, <2>2, RowsStay DEF OrderInv, RowsHavePlaces, RowsInOrder
    <2>4. \A s \in Positions : ComeTo(s)' <=> ComeTo(s)
      BY <2>1 DEF ComeTo, RowOfLoop
    <2>5. RowsSoFar'
      BY <2>1, <2>2, <2>4 DEF OrderInv, RowsSoFar
    <2> QED BY <2>3, <2>5 DEF OrderInv
  <1> QED BY <1>1, <1>2, <1>3, <1>4 DEF Next

LEMMA OrderInvariant == Spec => [](TypeOK /\ OrderInv)
  <1>1. Init => TypeOK
    BY EmptySeq, DeviceTableAssumption DEF Init, TypeOK
  <1>2. Init => OrderInv
    BY DEF Init, OrderInv, RowsHavePlaces, RowsInOrder, RowsSoFar
  <1> QED BY <1>1, <1>2, TypeInductive, OrderInductive, PTL DEF Spec

(* For any texts no answer without a place gets a row, and every row is of *)
(* a device of the text: nothing but the rows of this machine and of the   *)
(* miners on the list is shown (asicMiner.m:421-425).                      *)
THEOREM OnlyPlacesAreShown == Spec => []RowsHavePlaces
  BY OrderInvariant, PTL DEF OrderInv

(* For any texts, torn or not, the rows come in the order of the miners    *)
(* and of the kinds, and only that order says whose they are: the table    *)
(* has a location for none of them (asicMiner.m:533).                      *)
THEOREM RowsKeepOrder == Spec => []RowsInOrder
  BY OrderInvariant, PTL DEF OrderInv

-----------------------------------------------------------------------------
(* The end of the handler.  A step takes it to a later piece, or to a      *)
(* later loop of the piece, or takes something out of the text.  In this   *)
(* order these make a rank, which each step that goes on makes smaller.    *)
Rank  == <<Len(text) - piece, <<3 - loop, left>>>>
Ranks == Nat \X (Nat \X FiniteSubsetsOf(Nat))

Below == OpToRel(<, Nat)

LowerIn == LexPairOrdering(Below, StrictSubsetOrdering(Nat), Nat, FiniteSubsetsOf(Nat))
Lower   == LexPairOrdering(Below, LowerIn, Nat, Nat \X FiniteSubsetsOf(Nat))

Closer == <<Rank', Rank>> \in Lower

EndsOrCloser == status = "busy" => status' # "busy" \/ Closer

(* No sequence of ranks becomes smaller for ever: pieces, loops and the    *)
(* devices of a piece are finitely many.                                   *)
THEOREM NoRankDescendsForever == IsWellFoundedOn(Lower, Ranks)
  <1>1. IsWellFoundedOn(Below, Nat)
    BY NatLessThanWellFounded DEF Below
  <1>2. IsWellFoundedOn(StrictSubsetOrdering(Nat), FiniteSubsetsOf(Nat))
    BY FS_StrictSubsetOrderingWellFounded
  <1>3. IsWellFoundedOn(LowerIn, Nat \X FiniteSubsetsOf(Nat))
    BY <1>1, <1>2, WFLexPairOrdering DEF LowerIn
  <1> QED BY <1>1, <1>3, WFLexPairOrdering DEF Lower, Ranks

(* A busy handler has a rank.                                              *)
Busy == status = "busy"
Ranked ==
    /\ Len(text) - piece \in Nat
    /\ 3 - loop \in Nat
    /\ left \in FiniteSubsetsOf(Nat)

LEMMA BusyRank == TypeOK /\ Busy => Ranked
  <1> SUFFICES ASSUME TypeOK, status = "busy" PROVE Ranked
    BY DEF Busy
  <1>1. /\ text \in Texts /\ piece \in DOMAIN text /\ left \subseteq DOMAIN text[piece]
        /\ text[piece] \in Seq(Devices) /\ loop \in 1 .. 3
    BY BusyWithAPiece DEF TypeOK
  <1>2. Len(text) - piece \in Nat
    BY <1>1, Pieces
  <1>3. IsFiniteSet(left)
    <2>1. DOMAIN text[piece] = 1 .. Len(text[piece]) /\ Len(text[piece]) \in Nat
      BY <1>1, LenProperties
    <2>2. IsFiniteSet(DOMAIN text[piece])
      BY <2>1, FS_Interval
    <2> QED BY <1>1, <2>2, FS_Subset
  <1>4. left \subseteq Nat
    BY DEF TypeOK
  <1> QED BY <1>1, <1>2, <1>3, <1>4 DEF FiniteSubsetsOf, Ranked

LEMMA BusyRankNext == TypeOK' /\ Busy' => Ranked'
  BY BusyRank, PTL

(* A smaller rank: fewer pieces to come, or fewer loops, or less text.     *)
LEMMA LowerMeans ==
    ASSUME NEW a \in Nat, NEW b \in Nat, NEW s \in FiniteSubsetsOf(Nat),
           NEW aa \in Nat, NEW bb \in Nat, NEW ss \in FiniteSubsetsOf(Nat),
           \/ aa < a
           \/ aa = a /\ bb < b
           \/ aa = a /\ bb = b /\ ss \subseteq s /\ ss # s
    PROVE  <<<<aa, <<bb, ss>>>>, <<a, <<b, s>>>>>> \in Lower
  <1>1. \A k, l \in Nat : k < l => <<k, l>> \in Below
    BY DEF Below, OpToRel
  <1>2. ss \subseteq s /\ ss # s => <<ss, s>> \in StrictSubsetOrdering(Nat)
    BY DEF StrictSubsetOrdering, FiniteSubsetsOf
  <1>3. bb < b \/ (bb = b /\ ss \subseteq s /\ ss # s) => <<<<bb, ss>>, <<b, s>>>> \in LowerIn
    BY <1>1, <1>2 DEF LowerIn, LexPairOrdering
  <1> QED BY <1>1, <1>3 DEF Lower, LexPairOrdering

(* What is still to come is less, the further one is.                      *)
LEMMA LessToCome == \A n, k, l \in Int : l > k => n - l < n - k
  OBVIOUS

LEMMA StepsAreSteps ==
    TypeOK /\ [Next]_vars => [EndsOrCloser]_vars
  <1> SUFFICES ASSUME TypeOK, Next, status = "busy", status' = "busy" PROVE Closer
    BY DEF EndsOrCloser
  <1>1. loop \in 1 .. 3 /\ piece \in Nat /\ text \in Texts /\ Len(text) \in Nat
    BY BusyWithAPiece, Pieces DEF TypeOK
  <1>2. /\ text' = text
        /\ \/ piece' > piece
           \/ piece' = piece /\ loop' > loop
           \/ piece' = piece /\ loop' = loop /\ left' \subseteq left /\ left' # left
    <2>1. CASE Round
      <3> DEFINE p == First(Named(Number))
      <3>1. p \in left /\ p \in Twins(p)
        BY <2>1, RoundTakesOneLeft DEF Round, Twins
      <3>2. text' = text /\ piece' = piece /\ loop' = loop /\ left' = left \ Twins(p)
        <4> HIDE DEF p
        <4> QED BY <2>1, RoundCases DEF p
      <3> QED BY <3>1, <3>2
    <2>2. CASE LoopEnds
      BY <1>1, <2>2, LoopEndsCases, Pieces
    <2> QED BY <2>1, <2>2 DEF Next, Fire
  <1>3. /\ Len(text) - piece \in Nat /\ 3 - loop \in Nat /\ left \in FiniteSubsetsOf(Nat)
        /\ (Len(text) - piece)' \in Nat /\ (3 - loop)' \in Nat /\ left' \in FiniteSubsetsOf(Nat)
    BY BusyRank, BusyRankNext, TypeInductive DEF Busy, Ranked
  <1> DEFINE a == Len(text) - piece
             b == 3 - loop
             aa == Len(text') - piece'
             bb == 3 - loop'
  <1>4. /\ a \in Nat /\ aa \in Nat /\ b \in Nat /\ bb \in Nat
        /\ \/ aa < a
           \/ aa = a /\ bb < b
           \/ aa = a /\ bb = b /\ left' \subseteq left /\ left' # left
    <2>1. a \in Nat /\ aa \in Nat /\ b \in Nat /\ bb \in Nat
      BY <1>3
    <2>2. TypeOK'
      BY TypeInductive
    <2>3. piece' \in Int /\ loop' \in Int
      BY <2>2 DEF TypeOK
    <2>4. piece \in Int /\ loop \in Int /\ Len(text) \in Int /\ 3 \in Int
      BY <1>1
    <2>5. aa = Len(text) - piece'
      BY <1>2
    <2>6. CASE piece' > piece
      <3>1. aa < a
        BY <2>3, <2>4, <2>5, <2>6, LessToCome, Zenon
      <3> QED BY <2>1, <3>1
    <2>7. CASE piece' = piece /\ loop' > loop
      <3>1. aa = a
        BY <2>5, <2>7
      <3>2. bb < b
        BY <2>3, <2>4, <2>7, LessToCome, Zenon
      <3> QED BY <2>1, <3>1, <3>2
    <2>8. CASE piece' = piece /\ loop' = loop /\ left' \subseteq left /\ left' # left
      <3>1. aa = a /\ bb = b
        BY <2>5, <2>8
      <3> QED BY <2>1, <2>8, <3>1
    <2> QED BY <1>2, <2>6, <2>7, <2>8
  <1> HIDE DEF a, b, aa, bb
  <1>5. <<<<aa, <<bb, left'>>>>, <<a, <<b, left>>>>>> \in Lower
    BY <1>3, <1>4, LowerMeans
  <1> QED BY <1>5 DEF Closer, Rank, a, b, aa, bb

(* Each step of the handler brings it nearer to its end, whatever the text *)
(* holds: torn answers, repeated ones, names that contain one another.     *)
(* That no loop runs for ever rests on this.                               *)
THEOREM HandlerGoesOn == Spec => [][EndsOrCloser]_vars
  BY StepsAreSteps, TypeCorrect, PTL DEF Spec

(* A busy handler is never stuck: it can take a round, or end a loop.      *)
(* These are facts about ENABLED, which the prover does not expand; they   *)
(* are true by the shape of the two actions, which assign every variable   *)
(* and change some.                                                        *)
CanGoOn ==
    /\ [](status = "busy" /\ Named(Number) # {} => ENABLED <<Round>>_vars)
    /\ [](status = "busy" /\ Named(Number) = {} => ENABLED <<LoopEnds>>_vars)

(* HandlerEnds, or else the rank of a handler that does not end becomes    *)
(* smaller again and again and never greater.                              *)
THEOREM HandlerEndsOrDescends ==
  Spec /\ CanGoOn
    => HandlerEnds \/ <>([](status = "busy") /\ [][Closer]_vars /\ []<><<Closer>>_vars)
  <1> DEFINE Found == Named(Number) # {}
  <1>1. TypeOK /\ [Next]_vars /\ Busy /\ Busy' => [Closer]_vars
    BY StepsAreSteps DEF EndsOrCloser, Busy
  <1>2. UNCHANGED vars /\ Found => Found'
    BY DEF vars, Named, Number, Device
  <1>3. UNCHANGED vars /\ ~ Found => (~ Found)'
    BY DEF vars, Named, Number, Device
  <1>4. /\ (status = "busy") <=> Busy
        /\ (status # "busy") <=> ~ Busy
    BY DEF Busy
  <1>5. /\ (Named(Number) # {}) <=> Found
        /\ (Named(Number) = {}) <=> ~ Found
    OBVIOUS
  <1> HIDE DEF Found
  <1> QED
    BY <1>1, <1>2, <1>3, <1>4, <1>5, TypeCorrect, PTL DEF Spec, CanGoOn, HandlerEnds

(* The handler that never ends, as above.                                  *)
Descending == [](status = "busy") /\ [][Closer]_vars /\ []<><<Closer>>_vars

(* Some set has just the ranks that a handler has while it descends.  Each *)
(* behaviour has one, be it empty; but that sets are formed by formulas    *)
(* about behaviours is no rule the prover knows.                           *)
Reached(r) == <>(Descending /\ Rank = r)

RanksAreASet ==
    \E S \in SUBSET Ranks :
        /\ [](Descending => Rank \in S)
        /\ \A r \in S : Reached(r)

(* There is no handler that descends for ever: one of its ranks would be   *)
(* the lowest, and the next step goes lower.                               *)
LEMMA LowestRank ==
  ASSUME NEW S \in SUBSET Ranks
  PROVE  [](Descending => Rank \in S) /\ (\A r \in S : Reached(r)) => ~ <>Descending
  <1> DEFINE InS == Rank \in S
  <1>1. CASE S = {}
    <2>1. ~ InS
      BY <1>1
    <2> HIDE DEF InS
    <2>2. [](Descending => InS) => ~ <>Descending
      BY <2>1, PTL
    <2> QED BY <2>2 DEF InS
  <1>2. CASE S # {}
    <2>1. PICK m \in S : \A r \in S : <<r, m>> \notin Lower
      BY <1>2, NoRankDescendsForever, WFMin
    <2> DEFINE IsM == Rank = m
    <2>2. Closer /\ IsM => ~ InS'
      BY <2>1 DEF Closer
    <2>3. UNCHANGED vars /\ IsM => IsM'
      BY DEF vars, Rank
    <2>4. (\A r \in S : Reached(r)) => Reached(m)
      OBVIOUS
    <2>5. (Rank = m) <=> IsM
      OBVIOUS
    <2> HIDE DEF InS, IsM
    <2>6. [](Descending => InS) /\ Reached(m) => ~ <>Descending
      BY <2>2, <2>3, <2>5, PTL DEF Descending, Reached
    <2> QED BY <2>4, <2>6 DEF InS
  <1> QED BY <1>1, <1>2

LEMMA NothingDescends == RanksAreASet => ~ <>Descending
  BY LowestRank DEF RanksAreASet

(* The timer's handler ends, whatever the text: its loops have no bound,   *)
(* but each turn of them lowers the rank (asicMiner.m:436).                *)
THEOREM HandlerAlwaysEnds == Spec /\ CanGoOn /\ RanksAreASet => HandlerEnds
  <1>1. Spec /\ CanGoOn => HandlerEnds \/ <>Descending
    BY HandlerEndsOrDescends DEF Descending
  <1> QED BY <1>1, NothingDescends

-----------------------------------------------------------------------------
(* What the table shows in the end.                                        *)

(* The table has a row for each device of an answer that has a place, only *)
(* one, and no others.                                                     *)
IsTheText ==
    /\ \A r \in Positions : RowHasPlace(r) <=> \E b \in DOMAIN rows : rows[b] = r
    /\ NoDeviceTwice

(* In a sound text no label is missing.                                    *)
LEMMA SoundTextsDoNotRaise ==
    ASSUME NEW t, \A a \in DOMAIN t : Sound(t[a]),
           TypeOK, text = t, status = "busy", [Next]_vars
    PROVE  text' = t /\ status' \in {"busy", "idle"}
  <1>1. CASE Round
    <2> DEFINE p == First(Named(Number))
    <2>1. p \in left
      BY <1>1, RoundTakesOneLeft DEF Round
    <2>2. /\ piece \in DOMAIN text /\ left \subseteq DOMAIN text[piece]
          /\ Sound(text[piece])
      BY BusyWithAPiece
    <2> HIDE DEF p
    <2>3. \A q \in left : Device(q).span = Device(p).span /\ ~ Device(p).cut
      BY <2>1, <2>2 DEF Sound, Device
    <2>4. ~ Raises(p)
      BY <2>1, <2>3 DEF Raises
    <2> QED BY <1>1, <2>4, RoundCases DEF p
  <1>2. CASE LoopEnds
    BY <1>2, LoopEndsCases
  <1>3. CASE UNCHANGED vars
    BY <1>3 DEF vars
  <1> QED BY <1>1, <1>2, <1>3 DEF Next, Fire

LEMMA ShownIsTheText ==
    ASSUME TypeOK, NoDeviceTwice, AllDevicesShown, RowsHavePlaces, SoundText, status = "idle"
    PROVE  IsTheText
  <1>1. ASSUME NEW r \in Positions, RowHasPlace(r) PROVE \E b \in DOMAIN rows : rows[b] = r
    <2>1. \E b \in DOMAIN rows : rows[b] = <<r[1], r[2]>>
      BY <1>1 DEF RowHasPlace, AllDevicesShown, SoundText
    <2>2. r = <<r[1], r[2]>>
      BY DEF Positions
    <2> QED BY <2>1, <2>2
  <1>2. ASSUME NEW b \in DOMAIN rows PROVE RowHasPlace(rows[b])
    BY DEF RowsHavePlaces
  <1> QED BY <1>1, <1>2 DEF IsTheText

(* A text of answers none of which was torn, once the handler has begun    *)
(* with it, is what the table shows when the handler ends: the handler     *)
(* neither raises nor goes on for ever, nor does the table change before   *)
(* it (asicMiner.m:395-745).                                               *)
THEOREM SoundTextIsShown ==
  ASSUME NEW t, \A a \in DOMAIN t : Sound(t[a])
  PROVE  Spec /\ CanGoOn /\ RanksAreASet =>
            (status = "busy" /\ text = t ~> status = "idle" /\ text = t /\ IsTheText)
  <1> DEFINE Has == text = t
             Idle == status = "idle"
             Good == TypeOK /\ NoDeviceTwice /\ AllDevicesShown /\ RowsHavePlaces
  <1>1. Spec => []Good
    <2>1. Spec => []TypeOK /\ []NoDeviceTwice /\ []AllDevicesShown /\ []RowsHavePlaces
      BY TypeCorrect, NoDeviceHasTwoRows, NoDeviceIsLost, OnlyPlacesAreShown
    <2> QED BY <2>1, PTL
  <1>2. Good /\ Has /\ Busy /\ [Next]_vars => Has' /\ (Busy' \/ Idle')
    BY SoundTextsDoNotRaise DEF Busy
  <1>3. Good /\ Has /\ Idle => IsTheText
    BY ShownIsTheText DEF SoundText
  <1>4. Spec /\ CanGoOn /\ RanksAreASet => HandlerEnds
    BY HandlerAlwaysEnds
  <1>5. (status = "busy" <=> Busy) /\ (status # "busy" <=> ~ Busy)
    BY DEF Busy
  <1>6. Idle => ~ Busy
    BY DEF Busy
  <1>7. Spec => [][Next]_vars
    BY PTL DEF Spec
  <1> HIDE DEF Has, Idle, Good
  <1>8. Spec /\ CanGoOn /\ RanksAreASet => (status = "busy" /\ Has ~> Idle /\ Has /\ IsTheText)
    BY <1>1, <1>2, <1>3, <1>4, <1>5, <1>6, <1>7, PTL DEF HandlerEnds
  <1> QED BY <1>8 DEF Has, Idle

=============================================================================
