------------------------- MODULE ApiMonitor_proofs -------------------------
(***************************************************************************)
(* What the module ApiMonitor promises for every list of networked miners  *)
(* and any number of polls under way at once.  Overlapping polls break the *)
(* order of the answers, until one of them has cleared the text alone.     *)
(* Polls that do not overlap bring the networked miners into the table,    *)
(* and out of it.                                                          *)
(***************************************************************************)
EXTENDS ApiMonitor, SequenceTheorems, TLAPS, WellFoundedInduction

USE ApiMonitorAssumption DEF Idle, Clearing, Counting

(* A step of one poll, or of its timer.                                    *)
Act(p) == PollStep(p) \/ Tick(p)

(* A poll in the loop over the addresses is at one of those it counted.    *)
InList(p) == at[p] > Counting => Address(p) <= last[p]

(* It counted no more than there are, unless the list was cleared since.   *)
Covered(p) == at[p] > Counting => p \in cleared \/ last[p] <= Len(addresses)

(* An answer waits to be stored only between two calls.                    *)
Holding(p) == copy[p] # NoCopy => at[p] \in 1 .. 3 \/ at[p] > Counting

IInv ==
    /\ TypeOK
    /\ \A p \in Pollers : InList(p) /\ Covered(p) /\ Holding(p)
    /\ RangeErrorNeedsClear

-----------------------------------------------------------------------------
(* Sequences of hosts.                                                     *)
LEMMA AppendHost ==
  ASSUME NEW s \in Texts, NEW h \in Hosts
  PROVE  Append(s, h) \in Texts
  BY DEF Texts

LEMMA AskedHost ==
  ASSUME TypeOK, NEW p \in Pollers, NEW h, Asks(p, h)
  PROVE  /\ at[p] \in 1 .. 3 => h = LocalOrder[at[p]] /\ h \in Locals
         /\ ~ (at[p] \in 1 .. 3) => at[p] > Counting /\ h \in Nets
  <1>1. CASE at[p] \in 1 .. 3 /\ h = LocalOrder[at[p]] /\ h \in visible
    BY <1>1 DEF TypeOK
  <1>2. CASE at[p] > Counting /\ Address(p) <= Len(addresses) /\ h = addresses[Address(p)]
    <2>1. at[p] \in Int /\ addresses \in Seq(Nets)
      BY DEF TypeOK
    <2>2. Address(p) \in 1 .. Len(addresses)
      BY <1>2, <2>1 DEF Address
    <2> QED
      BY <1>2, <2>1, <2>2
  <1> QED
    BY <1>1, <1>2 DEF Asks

(* The step that follows a call stays within the list.                     *)
LEMMA AdvanceType ==
  ASSUME IInv, NEW p \in Pollers, Advance(p), at[p] \in 1 .. 3 \/ at[p] > Counting,
         UNCHANGED <<last, cleared, addresses>>
  PROVE  /\ at' \in [Pollers -> Idle .. Counting + MaxAddresses]
         /\ \A q \in Pollers : InList(q)' /\ Covered(q)'
  <1>1. /\ at \in [Pollers -> Idle .. Counting + MaxAddresses]
        /\ last \in [Pollers -> 0 .. MaxAddresses]
    BY DEF IInv, TypeOK
  <1>2. at'[p] \in Idle .. Counting + MaxAddresses
    BY <1>1 DEF Advance, IInv, InList, Address
  <1>3. at' = [at EXCEPT ![p] = at'[p]]
    BY <1>1 DEF Advance
  <1>4. InList(p)' /\ Covered(p)'
    BY <1>1 DEF Advance, IInv, InList, Covered, Address
  <1>5. ASSUME NEW q \in Pollers, q # p PROVE InList(q)' /\ Covered(q)'
    BY <1>1, <1>5 DEF Advance, IInv, InList, Covered, Address
  <1> QED
    BY <1>1, <1>2, <1>3, <1>4, <1>5

-----------------------------------------------------------------------------
(* The list, the polls and the crash.                                      *)
LEMMA InitInv == Init => IInv
  <1> SUFFICES ASSUME Init PROVE IInv
    OBVIOUS
  <1>1. TypeOK
    BY DEF Init, TypeOK, Texts
  <1> QED
    BY <1>1 DEF Init, IInv, InList, Covered, Holding, RangeErrorNeedsClear

(* What the main thread and the world do to the list.                      *)
LEMMA ListStep ==
  ASSUME IInv, (\E n \in Nets : AddMiner(n)) \/ ClearMiners \/ ReadingsChange \/ MinersChange
               \/ ShowTable
  PROVE  IInv'
  <1>1. ASSUME NEW n \in Nets, AddMiner(n) PROVE IInv'
    <2>1. addresses' \in Seq(Nets) /\ Len(addresses') = Len(addresses) + 1
      BY <1>1 DEF AddMiner, IInv, TypeOK
    <2>2. TypeOK'
      BY <1>1, <2>1 DEF AddMiner, IInv, TypeOK, poll, world, output
    <2>3. \A p \in Pollers : InList(p)' /\ Covered(p)' /\ Holding(p)'
      BY <1>1, <2>1 DEF AddMiner, IInv, TypeOK, InList, Covered, Holding, Address, poll
    <2> QED
      BY <1>1, <2>2, <2>3 DEF AddMiner, IInv, RangeErrorNeedsClear, poll
  <1>2. CASE ClearMiners
    <2>1. TypeOK'
      BY <1>2 DEF ClearMiners, IInv, TypeOK, world, output
    <2>2. \A p \in Pollers : InList(p)' /\ Covered(p)' /\ Holding(p)'
      BY <1>2 DEF ClearMiners, IInv, TypeOK, InList, Covered, Holding, Address
    <2> QED
      BY <1>2, <2>1, <2>2 DEF ClearMiners, IInv, RangeErrorNeedsClear, Alive
  <1>3. CASE ReadingsChange \/ MinersChange
    BY <1>3 DEF ReadingsChange, MinersChange, IInv, TypeOK, InList, Covered, Holding, Address,
                RangeErrorNeedsClear, poll, output
  <1>4. CASE ShowTable
    <2>1. table' \subseteq Hosts
      BY <1>4 DEF ShowTable, IInv, TypeOK, Texts
    <2> QED
      BY <1>4, <2>1 DEF ShowTable, IInv, TypeOK, InList, Covered, Holding, Address,
                        RangeErrorNeedsClear, poll, world, output
  <1> QED
    BY <1>1, <1>2, <1>3, <1>4

(* A step of one poll leaves the others alone.                             *)
LEMMA OthersUntouched ==
  ASSUME TypeOK, NEW p \in Pollers, Act(p), NEW q \in Pollers, q # p
  PROVE  /\ at'[q] = at[q] /\ last'[q] = last[q] /\ copy'[q] = copy[q]
         /\ addresses' = addresses /\ (q \in cleared' <=> q \in cleared)
  <1> USE DEF TypeOK
  <1>1. CASE ClearText(p) \/ Skip(p) \/ Tick(p)
    BY <1>1 DEF ClearText, Skip, Tick
  <1>2. CASE Count(p)
    BY <1>2 DEF Count
  <1>3. CASE Store(p)
    BY <1>3 DEF Store, Advance
  <1>4. ASSUME NEW h \in Hosts, Call(p, h)
        PROVE  /\ at'[q] = at[q] /\ last'[q] = last[q] /\ copy'[q] = copy[q]
               /\ addresses' = addresses /\ (q \in cleared' <=> q \in cleared)
    <2>1. CASE Answer(p, h)
      BY <2>1 DEF Answer
    <2>2. CASE Refused(p, h) \/ NoSocket(p, h)
      BY <2>2 DEF Refused, NoSocket, Advance
    <2>3. CASE NameLost(p, h)
      BY <2>3 DEF NameLost, poll
    <2> QED
      BY <1>4, <2>1, <2>2, <2>3 DEF Call
  <1>5. CASE RangeError(p)
    BY <1>5 DEF RangeError, poll
  <1> QED
    BY <1>1, <1>2, <1>3, <1>4, <1>5 DEF Act, PollStep

LEMMA OthersStay ==
  ASSUME IInv, NEW p \in Pollers, Act(p), NEW q \in Pollers, q # p
  PROVE  InList(q)' /\ Covered(q)' /\ Holding(q)'
  <1>1. /\ at'[q] = at[q] /\ last'[q] = last[q] /\ copy'[q] = copy[q]
        /\ addresses' = addresses /\ (q \in cleared' <=> q \in cleared)
    BY OthersUntouched DEF IInv
  <1> QED
    BY <1>1 DEF IInv, InList, Covered, Holding, Address

(* What a poll and its timer do.                                           *)
LEMMA PollInv ==
  ASSUME IInv, NEW p \in Pollers, Act(p)
  PROVE  TypeOK' /\ InList(p)' /\ Covered(p)' /\ Holding(p)' /\ RangeErrorNeedsClear'
  <1> USE DEF RangeErrorNeedsClear, Alive
  <1> DEFINE Placed == InList(p) /\ Covered(p) /\ Holding(p)
  <1>1. TypeOK /\ Placed /\ RangeErrorNeedsClear
    BY DEF IInv
  <1>2. /\ at \in [Pollers -> Idle .. Counting + MaxAddresses]
        /\ last \in [Pollers -> 0 .. MaxAddresses]
        /\ Len(addresses) \in 0 .. MaxAddresses
    BY <1>1 DEF TypeOK
  <1>3. CASE ClearText(p)
    <2>1. at' = [at EXCEPT ![p] = 1] /\ at[p] = Clearing
      BY <1>3 DEF ClearText
    <2>2. TypeOK'
      <3>1. sole' \in BOOLEAN
        BY <1>3 DEF ClearText, OthersWait
      <3>2. UNCHANGED <<visible, up, addresses, last, copy, cleared, view, viewSole, table, leaked, crash>>
        BY <1>3 DEF ClearText, world
      <3>3. text' \in Texts
        BY <1>3 DEF ClearText, Texts
      <3> QED
        BY <1>1, <1>2, <2>1, <3>1, <3>2, <3>3 DEF TypeOK
    <2>3. Placed'
      BY <1>1, <1>2, <1>3, <2>1 DEF ClearText, InList, Covered, Holding
    <2> QED
      BY <1>1, <1>3, <2>2, <2>3 DEF ClearText
  <1>4. CASE Skip(p)
    <2>1. at' = [at EXCEPT ![p] = at[p] + 1] /\ at[p] \in 1 .. 3 /\ copy[p] = NoCopy
      BY <1>4 DEF Skip
    <2>2. TypeOK'
      BY <1>1, <1>2, <1>4, <2>1 DEF Skip, TypeOK, world, output
    <2>3. Placed'
      BY <1>1, <1>2, <1>4, <2>1 DEF Skip, InList, Covered, Holding
    <2> QED
      BY <1>1, <1>4, <2>2, <2>3 DEF Skip
  <1>5. CASE Tick(p)
    <2>1. at' = [at EXCEPT ![p] = Clearing] /\ at[p] = Idle
      BY <1>5 DEF Tick
    <2>2. TypeOK'
      BY <1>1, <1>2, <1>5, <2>1 DEF Tick, TypeOK, world, output
    <2>3. Placed'
      BY <1>1, <1>2, <1>5, <2>1 DEF Tick, InList, Covered, Holding
    <2> QED
      BY <1>1, <1>5, <2>2, <2>3 DEF Tick
  <1>6. CASE Count(p)
    <2>1. /\ at[p] = Counting
          /\ \/ at' = [at EXCEPT ![p] = Idle]
             \/ at' = [at EXCEPT ![p] = Counting + 1] /\ Len(addresses) >= 1
          /\ last' = [last EXCEPT ![p] = Len(addresses)]
      <3>1. addresses # <<>> => Len(addresses) >= 1
        BY <1>1, <1>2, EmptySeq DEF TypeOK
      <3>2. CASE addresses = <<>>
        BY <1>6, <3>2 DEF Count
      <3>3. CASE addresses # <<>>
        <4>1. at[p] + 1 = Counting + 1
          BY <1>6 DEF Count
        <4>2. at' = [at EXCEPT ![p] = at[p] + 1]
          BY <1>6, <3>3 DEF Count
        <4> QED
          BY <1>6, <3>1, <3>3, <4>1, <4>2 DEF Count
      <3> QED
        BY <3>2, <3>3
    <2>2. TypeOK'
      BY <1>1, <1>2, <1>6, <2>1 DEF Count, TypeOK, world, output
    <2>3. copy[p] = NoCopy
      BY <1>1, <2>1 DEF Holding
    <2>4. Placed'
      BY <1>2, <1>6, <2>1, <2>3 DEF Count, InList, Covered, Holding, Address
    <2> QED
      BY <1>1, <1>6, <2>2, <2>4 DEF Count
  <1>7. CASE Store(p)
    <2>1. copy[p] \in Texts /\ (at[p] \in 1 .. 3 \/ at[p] > Counting)
      BY <1>1, <1>7 DEF Store, TypeOK, Holding
    <2>2. /\ at' \in [Pollers -> Idle .. Counting + MaxAddresses]
          /\ InList(p)' /\ Covered(p)'
      BY <1>7, <2>1, AdvanceType DEF Store
    <2>3. TypeOK'
      BY <1>1, <1>7, <2>1, <2>2 DEF Store, TypeOK, world, output
    <2>4. copy'[p] = NoCopy
      BY <1>1, <1>7 DEF Store, TypeOK
    <2>5. Holding(p)'
      BY <2>4 DEF Holding
    <2> QED
      BY <1>1, <1>7, <2>2, <2>3, <2>5 DEF Store
  <1>8. ASSUME NEW h \in Hosts, Answer(p, h)
        PROVE  TypeOK' /\ Placed' /\ RangeErrorNeedsClear'
    <2>1. Append(text, h) \in Texts
      BY <1>1, AppendHost DEF TypeOK
    <2>2. TypeOK'
      BY <1>1, <1>8, <2>1 DEF Answer, TypeOK, world, output
    <2>3. at[p] \in 1 .. 3 \/ at[p] > Counting
      BY <1>8 DEF Answer, Asks
    <2>4. Placed'
      BY <1>1, <1>8, <2>3 DEF Answer, InList, Covered, Holding, Address
    <2> QED
      BY <1>1, <1>8, <2>2, <2>4 DEF Answer
  <1>9. ASSUME NEW h \in Hosts, Refused(p, h) \/ NoSocket(p, h)
        PROVE  TypeOK' /\ Placed' /\ RangeErrorNeedsClear'
    <2>1. copy[p] = NoCopy /\ (at[p] \in 1 .. 3 \/ at[p] > Counting)
      BY <1>9 DEF Refused, NoSocket, Asks
    <2>2. /\ at' \in [Pollers -> Idle .. Counting + MaxAddresses]
          /\ InList(p)' /\ Covered(p)'
      BY <1>9, <2>1, AdvanceType DEF Refused, NoSocket
    <2>3. leaked' \in 0 .. MaxFiles
      BY <1>1, <1>9 DEF Refused, NoSocket, TypeOK
    <2>4. TypeOK'
      BY <1>1, <1>9, <2>2, <2>3 DEF Refused, NoSocket, TypeOK, world, output
    <2>5. Holding(p)'
      BY <1>9, <2>1 DEF Refused, NoSocket, Holding
    <2> QED
      BY <1>1, <1>9, <2>2, <2>4, <2>5 DEF Refused, NoSocket
  <1>10. ASSUME NEW h \in Hosts, NameLost(p, h)
         PROVE  TypeOK' /\ Placed' /\ RangeErrorNeedsClear'
    BY <1>1, <1>10 DEF NameLost, TypeOK, InList, Covered, Holding, Address, poll, world, output
  <1>11. CASE RangeError(p)
    <2>1. p \in cleared
      BY <1>1, <1>2, <1>11 DEF RangeError, InList, Covered, Address
    <2> QED
      BY <1>1, <1>11, <2>1
      DEF RangeError, TypeOK, InList, Covered, Holding, Address, poll, world, output
  <1> QED
    BY <1>3, <1>4, <1>5, <1>6, <1>7, <1>8, <1>9, <1>10, <1>11 DEF Act, PollStep, Call

LEMMA NextInv == IInv /\ [Next]_vars => IInv'
  <1> SUFFICES ASSUME IInv, [Next]_vars PROVE IInv'
    OBVIOUS
  <1>1. CASE UNCHANGED vars
    BY <1>1
    DEF vars, poll, world, output, IInv, TypeOK, InList, Covered, Holding, Address,
        RangeErrorNeedsClear
  <1>2. ASSUME NEW p \in Pollers, Act(p) PROVE IInv'
    <2>1. /\ TypeOK' /\ RangeErrorNeedsClear'
          /\ InList(p)' /\ Covered(p)' /\ Holding(p)'
      BY <1>2, PollInv
    <2>2. \A q \in Pollers \ {p} : InList(q)' /\ Covered(q)' /\ Holding(q)'
      BY <1>2, OthersStay
    <2> QED
      BY <2>1, <2>2 DEF IInv
  <1>3. CASE Next
    BY <1>2, <1>3, ListStep DEF Next, Act
  <1> QED
    BY <1>1, <1>2, <1>3

LEMMA Invariant == SafeSpec => []IInv
  BY InitInv, NextInv, PTL DEF SafeSpec

(* Every variable keeps to its type: in particular a poll's place stays    *)
(* within the list it counted, whatever happens to the list.               *)
THEOREM TypeCorrect == SafeSpec => []TypeOK
  <1>1. IInv => TypeOK
    BY DEF IInv
  <1> QED
    BY <1>1, Invariant, PTL

(* However many polls overlap, one runs off the end of the list only when  *)
(* the user cleared the list under a poll.                                 *)
THEOREM OnlyClearingIsFatal == SafeSpec => []RangeErrorNeedsClear
  <1>1. IInv => RangeErrorNeedsClear
    BY DEF IInv
  <1> QED
    BY <1>1, Invariant, PTL

-----------------------------------------------------------------------------
(* The order of the answers, while one poll alone writes the text.  What   *)
(* it has gathered is in order, and while it asks the local miners the     *)
(* text holds only those it has passed.                                    *)
Ranked(h, a) == a \in 1 .. 3 /\ h = LocalOrder[a] /\ h \in Locals

InOrder(s) ==
    \A i, j \in DOMAIN s :
        i < j /\ s[j] \in Locals => \E a, b \in 1 .. 3 : a < b /\ Ranked(s[i], a) /\ Ranked(s[j], b)

Upto(s, k) == \A i \in DOMAIN s : \E a \in 1 .. 3 : a < k /\ Ranked(s[i], a)

LEMMA AppendLocal ==
  ASSUME NEW s \in Texts, NEW k \in 1 .. 3, NEW h \in Hosts, Ranked(h, k), InOrder(s), Upto(s, k)
  PROVE  InOrder(Append(s, h)) /\ Upto(Append(s, h), k + 1)
  <1> DEFINE t == Append(s, h)
  <1>1. /\ DOMAIN s = 1 .. Len(s) /\ Len(s) \in Nat
        /\ DOMAIN t = 1 .. Len(s) + 1
        /\ \A i \in 1 .. Len(s) : t[i] = s[i]
        /\ t[Len(s) + 1] = h
    BY AppendProperties, LenProperties DEF Texts
  <1> HIDE DEF t
  <1>2. Upto(t, k + 1)
    <2>1. ASSUME NEW i \in DOMAIN t PROVE \E a \in 1 .. 3 : a < k + 1 /\ Ranked(t[i], a)
      <3>1. CASE i = Len(s) + 1
        BY <1>1, <3>1
      <3>2. CASE i \in DOMAIN s
        <4>1. PICK a \in 1 .. 3 : a < k /\ Ranked(s[i], a)
          BY <3>2 DEF Upto
        <4> QED
          BY <1>1, <3>2, <4>1
      <3> QED
        BY <1>1, <3>1, <3>2
    <2> QED
      BY <2>1 DEF Upto
  <1>3. ASSUME NEW i \in DOMAIN t, NEW j \in DOMAIN t, i < j, t[j] \in Locals
        PROVE  \E a, b \in 1 .. 3 : a < b /\ Ranked(t[i], a) /\ Ranked(t[j], b)
    <2>1. i \in DOMAIN s /\ t[i] = s[i]
      BY <1>1, <1>3
    <2>2. CASE j = Len(s) + 1
      <3>1. PICK a \in 1 .. 3 : a < k /\ Ranked(s[i], a)
        BY <2>1 DEF Upto
      <3> QED
        BY <1>1, <2>1, <2>2, <3>1
    <2>3. CASE j \in DOMAIN s
      BY <1>1, <1>3, <2>1, <2>3 DEF InOrder
    <2> QED
      BY <1>1, <2>2, <2>3
  <1> QED
    BY <1>2, <1>3 DEF InOrder, t

LEMMA AppendNet ==
  ASSUME NEW s \in Texts, NEW h \in Nets, InOrder(s)
  PROVE  InOrder(Append(s, h))
  <1> DEFINE t == Append(s, h)
  <1>1. /\ DOMAIN s = 1 .. Len(s) /\ Len(s) \in Nat
        /\ DOMAIN t = 1 .. Len(s) + 1
        /\ \A i \in 1 .. Len(s) : t[i] = s[i]
        /\ t[Len(s) + 1] = h
    BY AppendProperties, LenProperties DEF Texts, Hosts
  <1> HIDE DEF t
  <1>2. h \notin Locals
    OBVIOUS
  <1>3. ASSUME NEW i \in DOMAIN t, NEW j \in DOMAIN t, i < j, t[j] \in Locals
        PROVE  \E a, b \in 1 .. 3 : a < b /\ Ranked(t[i], a) /\ Ranked(t[j], b)
    <2>1. i \in DOMAIN s /\ j \in DOMAIN s
      BY <1>1, <1>2, <1>3
    <2> QED
      BY <1>1, <1>3, <2>1 DEF InOrder
  <1> QED
    BY <1>3 DEF InOrder, t

LEMMA UptoGrows ==
  ASSUME NEW s, NEW k \in 1 .. 4, Upto(s, k)
  PROVE  Upto(s, k + 1)
  <1>1. ASSUME NEW i \in DOMAIN s PROVE \E a \in 1 .. 3 : a < k + 1 /\ Ranked(s[i], a)
    <2>1. PICK a \in 1 .. 3 : a < k /\ Ranked(s[i], a)
      BY DEF Upto
    <2> QED
      BY <2>1
  <1> QED
    BY <1>1 DEF Upto

Gathered(p) ==
    /\ at[p] \in 1 .. 4 => Upto(text, at[p])
    /\ copy[p] # NoCopy =>
          InOrder(copy[p]) /\ (at[p] \in 1 .. 3 => Upto(copy[p], at[p] + 1))

(* One poll wrote the text since it was cleared: the others are over, or   *)
(* have not yet begun.                                                     *)
SoleWriter ==
    /\ InOrder(text)
    /\ \A p \in Pollers : Gathered(p)
    /\ \A p \in Pollers : at[p] > Clearing => OthersWait(p)

OInv == (sole => SoleWriter) /\ (viewSole => InOrder(view))

LEMMA EmptyInOrder == InOrder(<<>>) /\ \A k : Upto(<<>>, k)
  BY DEF InOrder, Upto

LEMMA GatheredStep ==
  ASSUME IInv, InOrder(text), NEW p \in Pollers, Gathered(p), Act(p)
  PROVE  InOrder(text') /\ Gathered(p)'
  <1>1. /\ InOrder(text) /\ Gathered(p) /\ Holding(p)
        /\ at \in [Pollers -> Idle .. Counting + MaxAddresses]
        /\ copy \in [Pollers -> Texts \union {NoCopy}] /\ text \in Texts
    BY DEF IInv, TypeOK
  <1>2. CASE ClearText(p)
    <2>1. at'[p] = 1 /\ text' = <<>> /\ copy' = copy /\ copy[p] = NoCopy
      BY <1>1, <1>2 DEF ClearText, Holding
    <2>2. Gathered(p)'
      BY <2>1, EmptyInOrder DEF Gathered
    <2> QED
      BY <1>1, <2>1, <2>2, EmptyInOrder
  <1>3. CASE Skip(p)
    <2>1. /\ at[p] \in 1 .. 3 /\ at'[p] = at[p] + 1 /\ text' = text
          /\ copy' = copy /\ copy[p] = NoCopy
      BY <1>1, <1>3 DEF Skip, output
    <2>2. Upto(text, at[p] + 1)
      BY <1>1, <2>1, UptoGrows DEF Gathered
    <2>3. Gathered(p)'
      BY <2>1, <2>2 DEF Gathered
    <2> QED
      BY <1>1, <2>1, <2>3
  <1>4. CASE Tick(p) \/ Count(p)
    <2>1. /\ at'[p] \notin 1 .. 4 /\ text' = text
          /\ copy' = copy /\ copy[p] = NoCopy
      BY <1>1, <1>4 DEF Tick, Count, Holding, output
    <2>2. Gathered(p)'
      BY <2>1 DEF Gathered
    <2> QED
      BY <1>1, <2>1, <2>2
  <1>5. CASE Store(p)
    <2>1. text' = copy[p] /\ copy[p] # NoCopy /\ copy'[p] = NoCopy
      BY <1>1, <1>5 DEF Store
    <2>2. CASE at[p] \in 1 .. 3
      <3>1. at'[p] = at[p] + 1
        BY <1>1, <1>5, <2>2 DEF Store, Advance
      <3>2. Gathered(p)'
        BY <1>1, <2>1, <2>2, <3>1 DEF Gathered
      <3> QED
        BY <1>1, <2>1, <3>2 DEF Gathered
    <2>3. CASE at[p] > Counting
      <3>1. at'[p] \notin 1 .. 4
        BY <1>1, <1>5, <2>3 DEF Store, Advance
      <3>2. Gathered(p)'
        BY <2>1, <3>1 DEF Gathered
      <3> QED
        BY <1>1, <2>1, <3>2 DEF Gathered
    <2> QED
      BY <1>1, <2>1, <2>2, <2>3 DEF Holding
  <1>6. ASSUME NEW h \in Hosts, Answer(p, h)
        PROVE  InOrder(text') /\ Gathered(p)'
    <2>1. /\ text' = text /\ at' = at
          /\ copy'[p] = Append(text, h)
      BY <1>1, <1>6 DEF Answer, output
    <2>2. CASE at[p] \in 1 .. 3
      <3>1. Ranked(h, at[p])
        BY <1>6, <2>2, AskedHost DEF Answer, IInv, Ranked
      <3>2. InOrder(Append(text, h)) /\ Upto(Append(text, h), at[p] + 1)
        BY <1>1, <2>2, <3>1, AppendLocal DEF Gathered
      <3> QED
        BY <1>1, <2>1, <2>2, <3>2 DEF Gathered
    <2>3. CASE at[p] \notin 1 .. 3
      <3>1. h \in Nets /\ at[p] > Counting
        BY <1>6, <2>3, AskedHost DEF Answer, IInv
      <3>2. InOrder(Append(text, h))
        BY <1>1, <3>1, AppendNet
      <3> QED
        BY <1>1, <2>1, <2>3, <3>1, <3>2 DEF Gathered
    <2> QED
      BY <2>2, <2>3
  <1>7. ASSUME NEW h \in Hosts, Refused(p, h) \/ NoSocket(p, h)
        PROVE  InOrder(text') /\ Gathered(p)'
    <2>1. text' = text /\ copy' = copy /\ copy[p] = NoCopy
      BY <1>7 DEF Refused, NoSocket, Asks, output
    <2>2. at[p] \in 1 .. 3 => Upto(text, at[p] + 1)
      BY <1>1, UptoGrows DEF Gathered
    <2>3. \/ at[p] \in 1 .. 3 /\ at'[p] = at[p] + 1
          \/ at'[p] \notin 1 .. 4
      BY <1>1, <1>7 DEF Refused, NoSocket, Asks, Advance
    <2>4. Gathered(p)'
      BY <2>1, <2>2, <2>3 DEF Gathered
    <2> QED
      BY <1>1, <2>1, <2>4
  <1>8. ASSUME UNCHANGED <<at, copy, text>>
        PROVE  InOrder(text') /\ Gathered(p)'
    BY <1>1, <1>8 DEF Gathered
  <1>9. ASSUME NEW h \in Hosts, Call(p, h)
        PROVE  InOrder(text') /\ Gathered(p)'
    BY <1>6, <1>7, <1>8, <1>9 DEF Call, NameLost, poll, output
  <1>10. CASE RangeError(p)
    BY <1>8, <1>10 DEF RangeError, poll, output
  <1> QED
    BY <1>2, <1>3, <1>4, <1>5, <1>9, <1>10 DEF Act, PollStep

LEMMA OrderStep ==
  ASSUME IInv, OInv, NEW p \in Pollers, Act(p)
  PROVE  OInv'
  <1>1. /\ at \in [Pollers -> Idle .. Counting + MaxAddresses]
        /\ \A q \in Pollers : Holding(q)
    BY DEF IInv, TypeOK
  <1>2. \A q \in Pollers \ {p} : at'[q] = at[q] /\ copy'[q] = copy[q]
    BY OthersUntouched DEF IInv
  <1>3. viewSole' => InOrder(view')
    <2>1. CASE Tick(p)
      BY <2>1 DEF Tick, OInv, SoleWriter
    <2>2. CASE PollStep(p)
      <3>1. view' = view /\ viewSole' = viewSole
        BY <2>2 DEF PollStep, Call, ClearText, Skip, Count, Store, RangeError, Answer, Refused,
                    NoSocket, NameLost, output
      <3> QED
        BY <3>1 DEF OInv
    <2> QED
      BY <2>1, <2>2 DEF Act
  (* The others hold nothing while they wait. *)
  <1>4. ASSUME OthersWait(p), NEW q \in Pollers \ {p} PROVE Gathered(q)'
    <2>1. at'[q] = at[q] /\ at[q] <= Clearing /\ copy'[q] = copy[q]
      BY <1>2, <1>4 DEF OthersWait
    <2>2. copy[q] = NoCopy
      BY <1>1, <2>1 DEF Holding
    <2> QED
      BY <1>1, <2>1, <2>2 DEF Gathered
  <1>5. ASSUME OthersWait(p)
        PROVE  \A q \in Pollers : at'[q] > Clearing => OthersWait(q)'
    <2>1. \A q \in Pollers \ {p} : at'[q] <= Clearing
      BY <1>2, <1>5 DEF OthersWait
    <2>2. \A q \in Pollers \ {p} : ~ (at'[q] > Clearing)
      BY <1>1, <1>2, <2>1
    <2> QED
      BY <2>1, <2>2 DEF OthersWait
  <1>6. CASE ClearText(p)
    <2>1. /\ at'[p] = 1 /\ text' = <<>> /\ copy[p] = NoCopy /\ copy' = copy
          /\ sole' = OthersWait(p)
      BY <1>1, <1>6 DEF ClearText, Holding
    <2>2. Gathered(p)' /\ InOrder(text')
      BY <2>1, EmptyInOrder DEF Gathered
    <2>3. sole' => SoleWriter'
      BY <1>4, <1>5, <2>1, <2>2 DEF SoleWriter
    <2> QED
      BY <1>3, <2>3 DEF OInv
  <1>7. CASE Tick(p)
    <2>1. /\ sole' = sole /\ text' = text /\ copy' = copy
          /\ at'[p] = Clearing /\ at[p] = Idle
      BY <1>1, <1>7 DEF Tick
    <2>2. ASSUME sole PROVE SoleWriter'
      <3>1. SoleWriter
        BY <2>2 DEF OInv
      <3>2. \A q \in Pollers : Gathered(q)'
        BY <1>2, <2>1, <3>1 DEF SoleWriter, Gathered
      <3>3. \A q \in Pollers : at'[q] > Clearing => OthersWait(q)'
        BY <1>1, <1>2, <2>1, <3>1 DEF SoleWriter, OthersWait
      <3> QED
        BY <2>1, <3>1, <3>2, <3>3 DEF SoleWriter
    <2> QED
      BY <1>3, <2>1, <2>2 DEF OInv
  <1>8. CASE PollStep(p) /\ ~ ClearText(p)
    <2>1. sole' = sole /\ at[p] > Clearing
      <3>1. CASE Skip(p) \/ Count(p) \/ RangeError(p)
        BY <1>1, <3>1 DEF Skip, Count, RangeError, output
      <3>2. CASE Store(p)
        BY <1>1, <3>2 DEF Store, Holding
      <3>3. ASSUME NEW h \in Hosts, Call(p, h) PROVE sole' = sole /\ at[p] > Clearing
        BY <1>1, <3>3 DEF Call, Answer, Refused, NoSocket, NameLost, Asks, output
      <3> QED
        BY <1>8, <3>1, <3>2, <3>3 DEF PollStep
    <2>2. ASSUME sole PROVE SoleWriter'
      <3>1. SoleWriter /\ OthersWait(p)
        BY <2>1, <2>2 DEF OInv, SoleWriter
      <3>2. InOrder(text') /\ Gathered(p)'
        BY <3>1, GatheredStep DEF SoleWriter
      <3> QED
        BY <1>4, <1>5, <3>1, <3>2 DEF SoleWriter
    <2> QED
      BY <1>3, <2>1, <2>2 DEF OInv
  <1> QED
    BY <1>6, <1>7, <1>8 DEF Act

(* A text that one poll alone gathered has the local miners first, in the  *)
(* fixed order, each once, when it reaches the main thread: however many   *)
(* polls overlap before and after.                                         *)
THEOREM AnswersKeepOrder == SafeSpec => []AnswersInOrder
  <1>1. Init => OInv
    BY EmptyInOrder DEF Init, OInv, SoleWriter, Gathered
  <1>2. IInv /\ OInv /\ [Next]_vars => OInv'
    <2> SUFFICES ASSUME IInv, OInv, [Next]_vars PROVE OInv'
      OBVIOUS
    <2>1. CASE UNCHANGED <<at, copy, output>>
      BY <2>1 DEF OInv, SoleWriter, OthersWait, Gathered, output
    <2>2. ASSUME NEW p \in Pollers, Act(p) PROVE OInv'
      BY <2>2, OrderStep
    <2> QED
      BY <2>1, <2>2 DEF Next, Act, ShowTable, AddMiner, ClearMiners, ReadingsChange,
                       MinersChange, vars, poll
  <1>3. OInv => AnswersInOrder
    BY DEF OInv, InOrder, AnswersInOrder, Ranked
  <1> QED
    BY <1>1, <1>2, <1>3, Invariant, PTL DEF SafeSpec

-----------------------------------------------------------------------------
(* What a step does to the poll that takes it: its text, its place and the *)
(* answer it holds.                                                        *)
Onto(p) == IF at[p] > Counting /\ Address(p) >= last[p] THEN Idle ELSE at[p] + 1

(* A call that brings an answer, or none.                                  *)
Takes(p, h) ==
    /\ Asks(p, h) /\ h \in up
    /\ copy'[p] = Append(text, h)
    /\ at'[p] = at[p] /\ last'[p] = last[p] /\ text' = text

Misses(p, h) ==
    /\ Asks(p, h) /\ (h \notin up \/ leaked = MaxFiles)
    /\ at'[p] = Onto(p)
    /\ copy'[p] = copy[p] /\ last'[p] = last[p] /\ text' = text

Clears(p) ==
    /\ at[p] = Clearing /\ at'[p] = 1
    /\ text' = <<>>
    /\ copy[p] = NoCopy /\ copy'[p] = NoCopy /\ last'[p] = last[p]

Skips(p) ==
    /\ at[p] \in 1 .. 3 /\ LocalOrder[at[p]] \notin visible
    /\ at'[p] = at[p] + 1
    /\ copy[p] = NoCopy /\ copy'[p] = NoCopy /\ last'[p] = last[p] /\ text' = text

Counts(p) ==
    /\ at[p] = Counting
    /\ at'[p] = IF addresses = <<>> THEN Idle ELSE Counting + 1
    /\ last'[p] = Len(addresses)
    /\ copy[p] = NoCopy /\ copy'[p] = NoCopy /\ text' = text

Stores(p) ==
    /\ copy[p] # NoCopy /\ (at[p] \in 1 .. 3 \/ at[p] > Counting)
    /\ text' = copy[p] /\ copy'[p] = NoCopy
    /\ at'[p] = Onto(p) /\ last'[p] = last[p]

LEMMA PollEffect ==
  ASSUME IInv, NEW p \in Pollers, PollStep(p)
  PROVE  /\ UNCHANGED <<addresses, visible, up, view>>
         /\ \/ Clears(p) \/ Skips(p) \/ Counts(p) \/ Stores(p)
            \/ \E h \in Hosts : Takes(p, h) \/ Misses(p, h)
            \/ crash' # "no"
  <1>1. /\ at \in [Pollers -> Idle .. Counting + MaxAddresses]
        /\ last \in [Pollers -> 0 .. MaxAddresses]
        /\ copy \in [Pollers -> Texts \union {NoCopy}] /\ Holding(p)
    BY DEF IInv, TypeOK
  <1>2. CASE ClearText(p)
    BY <1>1, <1>2 DEF ClearText, Clears, Holding, world
  <1>3. CASE Skip(p)
    BY <1>1, <1>3 DEF Skip, Skips, world, output
  <1>4. CASE Count(p)
    BY <1>1, <1>4 DEF Count, Counts, Holding, world, output
  <1>5. CASE Store(p)
    BY <1>1, <1>5 DEF Store, Stores, Holding, Advance, Onto, Address, world
  <1>6. CASE RangeError(p)
    BY <1>6 DEF RangeError, world, output
  <1>7. ASSUME NEW h \in Hosts, Call(p, h)
        PROVE  /\ UNCHANGED <<addresses, visible, up, view>>
               /\ Takes(p, h) \/ Misses(p, h) \/ crash' # "no"
    <2>1. CASE Answer(p, h)
      BY <1>1, <2>1 DEF Answer, Takes, world, output
    <2>2. CASE Refused(p, h) \/ NoSocket(p, h)
      BY <1>1, <2>2 DEF Refused, NoSocket, Misses, Advance, Onto, Address, world, output
    <2>3. CASE NameLost(p, h)
      BY <2>3 DEF NameLost, world, output
    <2> QED BY <1>7, <2>1, <2>2, <2>3 DEF Call
  <1> QED
    BY <1>2, <1>3, <1>4, <1>5, <1>6, <1>7 DEF PollStep

(* What everything else does to it: only its timer sets it off again.      *)
Listens(p) ==
    /\ at[p] = Idle /\ at'[p] = Clearing
    /\ view' = text /\ UNCHANGED <<addresses, visible>>

LEMMA RestEffect ==
  ASSUME IInv, NEW p \in Pollers, [Next]_vars, \A q \in Pollers : ~ PollStep(q)
  PROVE  /\ copy'[p] = copy[p] /\ last'[p] = last[p] /\ text' = text
         /\ Listens(p) \/ at'[p] = at[p]
         /\ Pollers = {p} => Listens(p) \/ view' = view
         /\ \/ addresses' = addresses
            \/ \E n \in Nets : addresses' = Append(addresses, n)
            \/ addresses' = <<>>
  <1>1. at \in [Pollers -> Idle .. Counting + MaxAddresses]
    BY DEF IInv, TypeOK
  <1>2. ASSUME NEW q \in Pollers, Tick(q)
        PROVE  /\ copy'[p] = copy[p] /\ last'[p] = last[p] /\ text' = text
               /\ Listens(p) \/ at'[p] = at[p]
               /\ Pollers = {p} => Listens(p)
               /\ addresses' = addresses
    BY <1>1, <1>2 DEF Tick, Listens, world
  <1>3. ASSUME ~ \E q \in Pollers : Tick(q)
        PROVE  UNCHANGED <<at, last, copy, text, view>>
    BY <1>3 DEF Next, ShowTable, AddMiner, ClearMiners, ReadingsChange, MinersChange, vars, poll,
                output
  <1>4. ASSUME ~ \E q \in Pollers : Tick(q)
        PROVE  \/ addresses' = addresses
               \/ \E n \in Nets : addresses' = Append(addresses, n)
               \/ addresses' = <<>>
    BY <1>4 DEF Next, ShowTable, AddMiner, ClearMiners, ReadingsChange, MinersChange, vars
  <1> QED
    BY <1>2, <1>3, <1>4

(* What is held to be stored is never mistaken for nothing.                *)
LEMMA AppendIsText ==
  ASSUME NEW s \in Texts, NEW h \in Hosts
  PROVE  /\ Append(s, h) # NoCopy
         /\ Len(s) \in Nat /\ DOMAIN s = 1 .. Len(s)
         /\ Len(Append(s, h)) = Len(s) + 1
         /\ DOMAIN Append(s, h) = 1 .. Len(s) + 1
         /\ \A j \in 1 .. Len(s) : Append(s, h)[j] = s[j]
         /\ Append(s, h)[Len(s) + 1] = h
  <1> DEFINE t == Append(s, h)
  <1>1. /\ Len(s) \in Nat /\ DOMAIN s = 1 .. Len(s)
        /\ Len(t) = Len(s) + 1
        /\ DOMAIN t = 1 .. Len(s) + 1
        /\ \A j \in 1 .. Len(s) : t[j] = s[j]
        /\ t[Len(s) + 1] = h
    BY AppendProperties, LenProperties DEF Texts
  <1>2. Len(NoCopy) = 1 /\ NoCopy[1] = "none"
    BY DEF NoCopy
  <1> HIDE DEF t
  <1>3. t # NoCopy
    BY <1>1, <1>2 DEF Hosts
  <1> QED BY <1>1, <1>3 DEF t

(* The way a poll has before it: each step of it takes it on, or ends it.  *)
Remaining(p) == 2 * (Counting + MaxAddresses - at[p]) + (IF copy[p] = NoCopy THEN 1 ELSE 0)

Onward(p) == Remaining(p) \in Nat /\ Remaining(p)' \in Nat /\ Remaining(p)' < Remaining(p)

EndsOrOnward(p) == at'[p] = Idle \/ crash' # "no" \/ Onward(p)

LEMMA RemainingNat ==
  ASSUME IInv, NEW p \in Pollers
  PROVE  Remaining(p) \in Nat
  BY DEF IInv, TypeOK, Remaining

LEMMA RemainingNext ==
  ASSUME IInv', NEW p \in Pollers
  PROVE  Remaining(p)' \in Nat
  BY DEF IInv, TypeOK, Remaining

LEMMA PollStepOnward ==
  ASSUME IInv, NEW p \in Pollers, PollStep(p)
  PROVE  EndsOrOnward(p)
  <1> SUFFICES ASSUME at'[p] # Idle, crash' = "no"
               PROVE  Onward(p)
    BY DEF EndsOrOnward
  <1>1. Remaining(p) \in Nat /\ Remaining(p)' \in Nat
    BY NextInv, RemainingNat, RemainingNext DEF Next
  <1>2. at[p] \in Int /\ at'[p] \in Int /\ MaxAddresses \in Int
    BY NextInv DEF Next, IInv, TypeOK
  <1>3. Remaining(p)' = 2 * (Counting + MaxAddresses - at'[p]) + (IF copy'[p] = NoCopy THEN 1 ELSE 0)
    BY DEF Remaining
  <1>4. ASSUME at'[p] = at[p] + 1, copy'[p] = copy[p] \/ copy'[p] = NoCopy
        PROVE  Remaining(p)' < Remaining(p)
    BY <1>2, <1>3, <1>4 DEF Remaining
  <1>5. ASSUME NEW h \in Hosts, Takes(p, h) PROVE Remaining(p)' < Remaining(p)
    <2>1. copy[p] = NoCopy /\ copy'[p] # NoCopy /\ at'[p] = at[p]
      <3>1. Append(text, h) # NoCopy
        BY AppendIsText DEF IInv, TypeOK
      <3> QED BY <1>5, <3>1 DEF Takes, Asks
    <2> QED BY <1>2, <1>3, <2>1 DEF Remaining
  <1>6. ASSUME Clears(p) \/ Skips(p) \/ Counts(p) \/ Stores(p) \/ (\E h \in Hosts : Misses(p, h))
        PROVE  at'[p] = at[p] + 1 /\ (copy'[p] = copy[p] \/ copy'[p] = NoCopy)
    BY <1>2, <1>6 DEF Clears, Skips, Counts, Stores, Misses, Onto
  <1>7. Remaining(p)' < Remaining(p)
    BY <1>4, <1>5, <1>6, PollEffect
  <1> QED BY <1>1, <1>7 DEF Onward

(* Every step of a poll takes it on or ends it, however many overlap: no   *)
(* list and no failing call keeps it going round.                          *)
THEOREM PollsGoOn == SafeSpec => [][\A p \in Pollers : PollStep(p) => EndsOrOnward(p)]_vars
  <1>1. IInv /\ [Next]_vars => [\A p \in Pollers : PollStep(p) => EndsOrOnward(p)]_vars
    BY PollStepOnward
  <1> QED BY <1>1, Invariant, PTL DEF SafeSpec

-----------------------------------------------------------------------------
(* What the table comes to show, when polls do not overlap.  MaxText only  *)
(* bounds the model: the text has room for every miner that may be asked.  *)
OnePollAtATime(p) == Pollers = {p}

(* The miners asked before a step of the poll, if S are the local ones.    *)
Past(S, a, b) == IF b < a /\ LocalOrder[b] \in S THEN 1 ELSE 0
Passed(S, a)  == Past(S, a, 1) + Past(S, a, 2) + Past(S, a, 3)
Asked(S, a)   == Passed(S, a) + (IF a > Counting THEN a - Counting - 1 ELSE 0)

TextSuffices == MaxText >= Passed(Locals, Counting) + MaxAddresses

(* No more answers than miners asked, and one that waits is the next.      *)
Sparse(S, p) ==
    /\ at[p] > Clearing => Len(text) <= Asked(S, at[p])
    /\ copy[p] # NoCopy => \E h \in Hosts :
          /\ copy[p] = Append(text, h)
          /\ at[p] \in 1 .. 3 => h = LocalOrder[at[p]] /\ h \in S
          /\ at[p] > Counting => h \in Nets

(* From some moment on n stays where the monitor can see it.               *)
Watched(n, V) == Calm(V) /\ Listed(n) /\ n \in up

(* n among the first k answers; and within the table's places.             *)
Among(n, s, k) == \E j \in DOMAIN s : j <= k /\ s[j] = n

(* A poll that has come past an address of n has its answer, in a place    *)
(* that the table looks at; and it will come past one.                     *)
Coming(n, V, p) ==
    /\ Sparse(V, p)
    /\ copy[p] # NoCopy /\ at[p] > Counting =>
          Address(p) \in DOMAIN addresses /\ copy[p] = Append(text, addresses[Address(p)])
    /\ at[p] <= Clearing \/ at[p] > Counting => \E i \in DOMAIN addresses :
          /\ addresses[i] = n
          /\ at[p] > Counting => i <= last[p]
          /\ at[p] <= Clearing \/ Address(p) > i => Among(n, text, Passed(V, Counting) + i)

Seen(n, V) == \E i \in DOMAIN addresses : Among(n, view, Passed(V, Counting) + i)

(* n has left the list; the local miner l answers.                         *)
Delisted(n, V, l) == Calm(V) /\ ~ Listed(n) /\ l \in up

(* The poll is past the local miner l.                                     *)
PastLocal(l, a) == \E b \in 1 .. 3 : b < a /\ LocalOrder[b] = l

(* The text is without n, and holds the local miner's answer once that was *)
(* asked.                                                                  *)
Without(n, s) == \A j \in DOMAIN s : s[j] # n

Leaving(n, l, p) ==
    /\ Without(n, text)
    /\ at[p] <= Clearing \/ PastLocal(l, at[p]) => text # <<>>
    /\ copy[p] # NoCopy => copy[p] # <<>> /\ Without(n, copy[p])

Unseen(n) == view # <<>> /\ Without(n, view)

Shown == {view[i] : i \in {j \in DOMAIN view : j <= Len(addresses) + (IF visible = {} THEN 0 ELSE 1)}}

(* A poll that never comes to its end though it is ever nearer to it.      *)
Endless(p) ==
    /\ [](at[p] # Idle)
    /\ [][Onward(p)]_<<at, copy>>
    /\ []<><<Onward(p)>>_<<at, copy>>

PollDescends(p) == <>Endless(p)

(* Facts about ENABLED, which the prover does not expand: a poll that has  *)
(* begun can go on, the timers can fire, and a table that is not what the  *)
(* text says can be made so.                                               *)
Roomy(p) ==
    \/ Len(text) < MaxText \/ copy[p] # NoCopy
    \/ at[p] \in {Clearing, Counting}
    \/ at[p] \in 1 .. 3 /\ LocalOrder[at[p]] \notin visible

CanPoll(p) ==
    /\ [](Alive /\ at[p] # Idle /\ Roomy(p) => ENABLED <<PollStep(p)>>_vars)
    /\ [](Alive /\ at[p] = Idle => ENABLED <<Tick(p)>>_vars)

CanShow == [](Alive /\ view # <<>> /\ table # Shown => ENABLED <<ShowTable>>_vars)

-----------------------------------------------------------------------------
(* Counting the answers.                                                   *)
LEMMA PassedFacts ==
  ASSUME NEW S, NEW a \in Int
  PROVE  /\ Passed(S, a) \in 0 .. 3 /\ Passed(S, a) <= Passed(S, a + 1)
         /\ Passed(S, a + 1) <= Passed(S, Counting)
         /\ a \in 1 .. 3 /\ LocalOrder[a] \in S => Passed(S, a + 1) = Passed(S, a) + 1
         /\ a \in 1 .. 3 /\ LocalOrder[a] \notin S => Passed(S, a + 1) = Passed(S, a)
         /\ a >= Counting => Passed(S, a) = Passed(S, Counting)
  <1> DEFINE A == LocalOrder[1] \in S
             B == LocalOrder[2] \in S
             C == LocalOrder[3] \in S
  <1>1. \A k \in Int : Passed(S, k) = (IF 1 < k /\ A THEN 1 ELSE 0) + (IF 2 < k /\ B THEN 1 ELSE 0)
                                       + (IF 3 < k /\ C THEN 1 ELSE 0)
    BY DEF Passed, Past
  <1>2. /\ a = 1 => (LocalOrder[a] \in S <=> A)
        /\ a = 2 => (LocalOrder[a] \in S <=> B)
        /\ a = 3 => (LocalOrder[a] \in S <=> C)
    OBVIOUS
  <1> HIDE DEF A, B, C
  <1> DEFINE N(P, k, b) == IF b < k /\ P THEN 1 ELSE 0
  <1>3. /\ Passed(S, a) = N(A, a, 1) + N(B, a, 2) + N(C, a, 3)
        /\ Passed(S, a + 1) = N(A, a + 1, 1) + N(B, a + 1, 2) + N(C, a + 1, 3)
        /\ Passed(S, Counting) = (IF A THEN 1 ELSE 0) + (IF B THEN 1 ELSE 0) + (IF C THEN 1 ELSE 0)
    BY <1>1 DEF Counting
  <1>4. \A P \in {A, B, C}, b \in 1 .. 3 :
            /\ N(P, a, b) \in {0, 1} /\ N(P, a + 1, b) \in {0, 1}
            /\ N(P, a, b) <= N(P, a + 1, b)
            /\ N(P, a + 1, b) <= (IF P THEN 1 ELSE 0)
            /\ a # b => N(P, a + 1, b) = N(P, a, b)
            /\ a = b => N(P, a, b) = 0 /\ N(P, a + 1, b) = (IF P THEN 1 ELSE 0)
            /\ a >= Counting => N(P, a, b) = (IF P THEN 1 ELSE 0)
    BY DEF Counting
  <1>5. a \in 1 .. 3 => a = 1 \/ a = 2 \/ a = 3
    OBVIOUS
  <1> HIDE DEF N
  <1> QED BY <1>2, <1>3, <1>4, <1>5

(* Of one local miner at most, one is asked if there is one.               *)
LEMMA PassedAll ==
  ASSUME NEW S \in SUBSET Locals, AtMostOne(S)
  PROVE  Passed(S, Counting) = IF S = {} THEN 0 ELSE 1
  <1>1. LocalOrder[1] = "asic" /\ LocalOrder[2] = "cg" /\ LocalOrder[3] = "bfg"
    BY DEF LocalOrder
  <1>2. S # {} => LocalOrder[1] \in S \/ LocalOrder[2] \in S \/ LocalOrder[3] \in S
    BY <1>1, ApiMonitorAssumption
  <1>3. /\ ~ (LocalOrder[1] \in S /\ LocalOrder[2] \in S)
        /\ ~ (LocalOrder[1] \in S /\ LocalOrder[3] \in S)
        /\ ~ (LocalOrder[2] \in S /\ LocalOrder[3] \in S)
    BY <1>1 DEF AtMostOne
  <1>4. Passed(S, Counting) = Past(S, Counting, 1) + Past(S, Counting, 2) + Past(S, Counting, 3)
    BY DEF Passed
  <1>5. \A b \in 1 .. 3 : Past(S, Counting, b) = IF LocalOrder[b] \in S THEN 1 ELSE 0
    BY DEF Past, Counting
  <1>6. CASE S = {}
    <2>1. \A b \in 1 .. 3 : Past(S, Counting, b) = 0
      BY <1>5, <1>6
    <2> QED BY <1>4, <1>6, <2>1
  <1>7. CASE S # {}
    <2>1. CASE LocalOrder[1] \in S
      <3>1. /\ Past(S, Counting, 1) = 1
            /\ Past(S, Counting, 2) = 0
            /\ Past(S, Counting, 3) = 0
        BY <1>3, <1>5, <2>1
      <3>2. Passed(S, Counting) = 1
        BY <1>4, <3>1
      <3> QED BY <1>7, <3>2
    <2>2. CASE LocalOrder[2] \in S
      <3>1. /\ Past(S, Counting, 1) = 0
            /\ Past(S, Counting, 2) = 1
            /\ Past(S, Counting, 3) = 0
        BY <1>3, <1>5, <2>2
      <3>2. Passed(S, Counting) = 1
        BY <1>4, <3>1
      <3> QED BY <1>7, <3>2
    <2>3. CASE LocalOrder[3] \in S
      <3>1. /\ Past(S, Counting, 1) = 0
            /\ Past(S, Counting, 2) = 0
            /\ Past(S, Counting, 3) = 1
        BY <1>3, <1>5, <2>3
      <3>2. Passed(S, Counting) = 1
        BY <1>4, <3>1
      <3> QED BY <1>7, <3>2
    <2> QED BY <1>2, <1>7, <2>1, <2>2, <2>3
  <1> QED BY <1>6, <1>7

LEMMA AskedNat ==
  ASSUME NEW S, NEW a \in Int
  PROVE  /\ Asked(S, a) \in Nat
         /\ a > Counting => Asked(S, a) = Passed(S, Counting) + a - Counting - 1
  <1>1. Passed(S, a) \in 0 .. 3
    BY PassedFacts
  <1>2. a > Counting => Passed(S, a) = Passed(S, Counting)
    BY PassedFacts DEF Counting
  <1> QED BY <1>1, <1>2 DEF Asked, Counting

LEMMA AskedNext ==
  ASSUME NEW S, NEW a \in Int, NEW b \in Int, b = a + 1
  PROVE  /\ Asked(S, a) <= Asked(S, b)
         /\ a \in 1 .. 3 /\ LocalOrder[a] \in S => Asked(S, b) = Asked(S, a) + 1
         /\ a > Counting => Asked(S, b) = Asked(S, a) + 1
  <1>1. /\ Asked(S, a) = Passed(S, a) + (IF a > Counting THEN a - Counting - 1 ELSE 0)
        /\ Asked(S, b) = Passed(S, a + 1) + (IF b > Counting THEN b - Counting - 1 ELSE 0)
    BY DEF Asked
  <1>2. /\ Passed(S, a) \in 0 .. 3 /\ Passed(S, a) <= Passed(S, a + 1)
        /\ a \in 1 .. 3 /\ LocalOrder[a] \in S => Passed(S, a + 1) = Passed(S, a) + 1
    BY PassedFacts
  <1>3. a + 1 \in Int
    OBVIOUS
  <1>4. Passed(S, a + 1) \in 0 .. 3
    BY <1>3, PassedFacts
  <1>5. a > Counting => Passed(S, a) = Passed(S, a + 1)
    BY <1>3, PassedFacts DEF Counting
  <1> QED BY <1>1, <1>2, <1>4, <1>5 DEF Counting

(* The text of a poll is as long as the miners it asked let it be.         *)
LEMMA SparseStep ==
  ASSUME IInv, IInv', NEW p, OnePollAtATime(p), NEW S \in SUBSET Locals,
         visible \subseteq S, [Next]_vars, Sparse(S, p) \/ at[p] <= Clearing, crash' = "no"
  PROVE  Sparse(S, p)'
  <1>1. /\ p \in Pollers /\ Pollers = {p}
        /\ at[p] \in Int /\ at'[p] \in Int /\ at[p] >= Idle
        /\ text \in Texts /\ text' \in Texts /\ Holding(p)
    BY DEF OnePollAtATime, IInv, TypeOK
  <1>2. Sparse(S, p)
    BY <1>1 DEF Sparse, Holding
  <1>3. Len(text) \in Nat
    BY <1>1, LenProperties DEF Texts
  <1>4. CASE \A q \in Pollers : ~ PollStep(q)
    <2>1. copy'[p] = copy[p] /\ text' = text /\ (Listens(p) \/ at'[p] = at[p])
      BY <1>1, <1>4, RestEffect
    <2>2. at'[p] = at[p] \/ (at'[p] = Clearing /\ copy[p] = NoCopy)
      BY <1>1, <2>1 DEF Listens, Holding
    <2> QED BY <1>1, <1>2, <2>1, <2>2 DEF Sparse
  <1>5. CASE PollStep(p)
    <2>1. CASE Clears(p)
      <3>1. Len(text') = 0
        BY <2>1 DEF Clears
      <3>2. Asked(S, at'[p]) \in Nat
        BY <1>1, AskedNat
      <3> QED BY <2>1, <3>1, <3>2 DEF Clears, Sparse
    <2>2. CASE Skips(p) \/ Counts(p) \/ \E h \in Hosts : Misses(p, h)
      <3>1. /\ text' = text /\ copy'[p] = NoCopy /\ at[p] > Clearing
            /\ at'[p] = Idle \/ at'[p] = at[p] + 1
        BY <1>1, <2>2 DEF Skips, Counts, Misses, Onto, Asks
      <3>2. Asked(S, at[p]) \in Nat /\ Asked(S, at[p]) <= Asked(S, at[p] + 1)
            /\ Asked(S, at[p] + 1) \in Nat
        <4>1. at[p] + 1 \in Int
          BY <1>1
        <4>2. Asked(S, at[p]) \in Nat
          BY <1>1, AskedNat
        <4>3. Asked(S, at[p] + 1) \in Nat
          BY <4>1, AskedNat
        <4>4. Asked(S, at[p]) <= Asked(S, at[p] + 1)
          BY <1>1, <4>1, AskedNext
        <4> QED BY <4>2, <4>3, <4>4
      <3> QED BY <1>2, <1>3, <3>1, <3>2 DEF Sparse
    <2>3. CASE Stores(p)
      <3>1. PICK h \in Hosts : /\ copy[p] = Append(text, h)
                               /\ at[p] \in 1 .. 3 => h = LocalOrder[at[p]] /\ h \in S
        BY <1>2, <2>3 DEF Sparse, Stores
      <3>2. Len(text') = Len(text) + 1
        BY <1>1, <2>3, <3>1, AppendIsText DEF Stores
      <3>3. Asked(S, at[p]) \in Nat /\ Asked(S, at[p] + 1) \in Nat
        <4>1. at[p] + 1 \in Int
          BY <1>1
        <4>2. Asked(S, at[p]) \in Nat
          BY <1>1, AskedNat
        <4>3. Asked(S, at[p] + 1) \in Nat
          BY <4>1, AskedNat
        <4> QED BY <4>2, <4>3
      <3>4. Asked(S, at[p] + 1) = Asked(S, at[p]) + 1
        <4>1. at[p] \in 1 .. 3 => LocalOrder[at[p]] \in S
          BY <3>1
        <4>2. at[p] \in 1 .. 3 \/ at[p] > Counting
          BY <2>3 DEF Stores
        <4>3. at[p] + 1 \in Int
          BY <1>1
        <4> QED BY <1>1, <4>1, <4>2, <4>3, AskedNext
      <3> QED BY <1>1, <1>2, <1>3, <2>3, <3>2, <3>3, <3>4 DEF Sparse, Stores, Onto
    <2>4. ASSUME NEW h \in Hosts, Takes(p, h) PROVE Sparse(S, p)'
      <3>1. /\ at[p] \in 1 .. 3 => h = LocalOrder[at[p]] /\ h \in S
            /\ at[p] > Counting => h \in Nets
        <4>1. at[p] \in 1 .. 3 => h \in visible
          BY <2>4 DEF Takes, Asks
        <4>2. /\ at[p] \in 1 .. 3 => h = LocalOrder[at[p]]
              /\ at[p] > Counting => h \in Nets
          BY <1>1, <2>4, AskedHost DEF Takes, IInv
        <4> QED BY <4>1, <4>2
      <3> QED BY <1>2, <2>4, <3>1 DEF Takes, Sparse
    <2> QED
      BY <1>1, <1>5, <2>1, <2>2, <2>3, <2>4, PollEffect
  <1> QED BY <1>1, <1>4, <1>5

-----------------------------------------------------------------------------
(* A networked miner that stays and answers.                               *)
LEMMA AmongGrows ==
  ASSUME NEW n, NEW s \in Texts, NEW h \in Hosts, NEW k \in Int, Among(n, s, k)
  PROVE  Among(n, Append(s, h), k)
  <1>1. PICK j \in DOMAIN s : j <= k /\ s[j] = n
    BY DEF Among
  <1>2. j \in DOMAIN Append(s, h) /\ Append(s, h)[j] = s[j]
    BY AppendIsText
  <1> QED BY <1>1, <1>2 DEF Among

LEMMA AmongLast ==
  ASSUME NEW n \in Hosts, NEW s \in Texts, NEW k \in Int, Len(s) < k
  PROVE  Among(n, Append(s, n), k)
  <1>1. /\ Len(s) + 1 \in DOMAIN Append(s, n) /\ Append(s, n)[Len(s) + 1] = n
        /\ Len(s) + 1 <= k
    BY AppendIsText
  <1> QED BY <1>1 DEF Among

(* While n is watched the list only grows.                                 *)
LEMMA ListGrows ==
  ASSUME IInv, NEW n \in Nets, NEW V \in SUBSET Locals, Watched(n, V)', [Next]_vars
  PROVE  \A i \in DOMAIN addresses : i \in DOMAIN addresses' /\ addresses'[i] = addresses[i]
  <1>1. addresses \in Seq(Nets)
    BY DEF IInv, TypeOK
  <1>2. addresses' # <<>>
    BY DEF Watched, Listed
  <1>3. addresses' = addresses \/ \E m \in Nets : addresses' = Append(addresses, m)
    <2>1. CASE \E q \in Pollers : PollStep(q)
      BY <2>1, PollEffect
    <2>2. CASE ~ \E q \in Pollers : PollStep(q)
      BY <1>2, <2>2 DEF Next, Tick, ShowTable, AddMiner, ClearMiners, ReadingsChange, MinersChange,
                        vars
    <2> QED BY <2>1, <2>2
  <1>4. \A m \in Nets : \A i \in DOMAIN addresses :
            i \in DOMAIN Append(addresses, m) /\ Append(addresses, m)[i] = addresses[i]
    BY <1>1, AppendProperties, LenProperties
  <1> QED BY <1>3, <1>4

(* The answer of n is on its way to the table, once a poll has begun.      *)
LEMMA ComingStep ==
  ASSUME IInv, IInv', NEW p, OnePollAtATime(p), NEW n \in Nets,
         NEW V \in SUBSET Locals, Watched(n, V), Watched(n, V)', [Next]_vars,
         Coming(n, V, p) \/ (at[p] = Clearing /\ at'[p] # Clearing)
  PROVE  Coming(n, V, p)'
  <1>1. /\ p \in Pollers /\ Pollers = {p}
        /\ at[p] \in Int /\ at'[p] \in Int /\ at[p] >= Idle
        /\ last[p] \in Nat /\ addresses \in Seq(Nets) /\ text \in Texts
        /\ Holding(p) /\ InList(p)
    BY DEF OnePollAtATime, IInv, TypeOK
  <1>2. /\ visible = V /\ crash' = "no" /\ leaked # MaxFiles /\ n \in up /\ n \in Hosts
        /\ \E i \in DOMAIN addresses : addresses[i] = n
    BY DEF Watched, Calm, Alive, IInv, TypeOK, Listed, Hosts
  <1>3. \A i \in DOMAIN addresses : i \in DOMAIN addresses' /\ addresses'[i] = addresses[i]
    BY ListGrows
  <1>4. DOMAIN addresses = 1 .. Len(addresses) /\ Len(addresses) \in Nat
    BY <1>1, LenProperties
  <1>5. Sparse(V, p)'
    BY <1>1, <1>2, SparseStep DEF Coming
  <1> DEFINE Held  == copy[p] # NoCopy /\ at[p] > Counting =>
                        Address(p) \in DOMAIN addresses /\ copy[p] = Append(text, addresses[Address(p)])
             Place(i) == Passed(V, Counting) + i
             Right == \E i \in DOMAIN addresses :
                        /\ addresses[i] = n
                        /\ at[p] > Counting => i <= last[p]
                        /\ at[p] <= Clearing \/ Address(p) > i => Among(n, text, Place(i))
             Placed == at[p] <= Clearing \/ at[p] > Counting => Right
  <1>6. Coming(n, V, p) <=> Sparse(V, p) /\ Held /\ Placed
    BY DEF Coming
  <1>7. Coming(n, V, p)' <=> Sparse(V, p)' /\ Held' /\ Placed'
    BY DEF Coming
  <1>8. CASE \A q \in Pollers : ~ PollStep(q)
    <2>1. /\ copy'[p] = copy[p] /\ last'[p] = last[p] /\ text' = text
          /\ Listens(p) \/ at'[p] = at[p]
      BY <1>1, <1>8, RestEffect
    <2>2. Coming(n, V, p)
      BY <2>1 DEF Listens
    <2>3. at'[p] = at[p] \/ (at[p] = Idle /\ at'[p] = Clearing)
      BY <2>1 DEF Listens
    <2>4. Held'
      BY <1>3, <1>6, <2>1, <2>2, <2>3 DEF Address
    <2>5. ASSUME at'[p] <= Clearing \/ at'[p] > Counting PROVE Right'
      <3>1. Right
        BY <1>1, <1>6, <2>2, <2>3, <2>5
      <3>2. PICK i \in DOMAIN addresses :
                        /\ addresses[i] = n
                        /\ at[p] > Counting => i <= last[p]
                        /\ at[p] <= Clearing \/ Address(p) > i => Among(n, text, Place(i))
        BY <3>1
      <3>3. /\ at'[p] > Counting => i <= last'[p]
            /\ at'[p] <= Clearing \/ at'[p] - Counting > i => Among(n, text', Place(i))
        BY <1>1, <1>4, <2>1, <2>3, <3>2 DEF Address
      <3> QED BY <1>3, <3>2, <3>3 DEF Address
    <2> QED BY <1>5, <1>7, <2>4, <2>5
  <1>9. CASE PollStep(p)
    <2>1. addresses' = addresses
      BY <1>1, <1>9, PollEffect
    <2>2. CASE Clears(p) \/ Skips(p)
      <3>1. copy'[p] = NoCopy /\ at'[p] \in 1 .. 4
        BY <1>1, <2>2 DEF Clears, Skips
      <3> QED BY <1>5, <1>7, <3>1
    <2>3. CASE Counts(p)
      <3>1. addresses # <<>>
        BY <1>2
      <3>2. copy'[p] = NoCopy /\ at'[p] = Counting + 1 /\ last'[p] = Len(addresses)
        BY <2>3, <3>1 DEF Counts
      <3>3. PICK i \in DOMAIN addresses : addresses[i] = n
        BY <1>2
      <3>4. i <= last'[p] /\ ~ (at'[p] - Counting > i) /\ ~ (at'[p] <= Clearing)
        BY <1>4, <3>2
      <3>5. Right'
        BY <2>1, <3>3, <3>4 DEF Address
      <3> QED BY <1>5, <1>7, <3>2, <3>5
    <2>4. ASSUME ~ Clears(p) PROVE Coming(n, V, p)
      BY <1>1, <1>2, <1>9, <2>4, PollEffect DEF Skips, Counts, Stores, Takes, Misses, Asks
    <2>5. ASSUME NEW h \in Hosts, Takes(p, h) PROVE Coming(n, V, p)'
      <3>1. Held /\ Placed
        BY <1>6, <2>4, <2>5 DEF Takes, Asks, Clears
      <3>2. Held'
        BY <1>1, <1>4, <2>1, <2>5 DEF Takes, Asks, Address
      <3>3. Placed'
        BY <2>1, <2>5, <3>1 DEF Takes, Address
      <3> QED BY <1>5, <1>7, <3>2, <3>3
    (* Past the next address: what was to the right of the poll is to its left. *)
    <2>6. ASSUME at[p] > Counting, at'[p] = Onto(p), last'[p] = last[p], copy'[p] = NoCopy,
                 \A i \in DOMAIN addresses :
                     /\ addresses[i] = n
                     /\ Address(p) > i => Among(n, text, Place(i))
                     => (Address(p) >= i => Among(n, text', Place(i)))
          PROVE  Coming(n, V, p)'
      <3>1. Right
        BY <1>1, <1>6, <2>4, <2>6 DEF Clears
      <3>2. PICK i \in DOMAIN addresses :
                        /\ addresses[i] = n
                        /\ at[p] > Counting => i <= last[p]
                        /\ at[p] <= Clearing \/ Address(p) > i => Among(n, text, Place(i))
        BY <3>1
      <3>3. Address(p) >= i => Among(n, text', Place(i))
        BY <2>6, <3>2
      <3>4. at'[p] <= Clearing \/ at'[p] - Counting > i => Address(p) >= i
        BY <1>1, <1>4, <2>6, <3>2 DEF Onto, Address
      <3>5. Right'
        BY <2>1, <2>6, <3>2, <3>3, <3>4 DEF Address
      <3> QED BY <1>5, <1>7, <2>6, <3>5
    <2>7. ASSUME at[p] \in 1 .. 3, at'[p] = Onto(p), copy'[p] = NoCopy PROVE Coming(n, V, p)'
      <3>1. at'[p] \in 1 .. 4
        BY <2>7 DEF Onto
      <3> QED BY <1>5, <1>7, <2>7, <3>1
    <2>8. ASSUME NEW h \in Hosts, Misses(p, h) PROVE Coming(n, V, p)'
      <3>1. /\ at'[p] = Onto(p) /\ last'[p] = last[p] /\ copy'[p] = NoCopy /\ text' = text
            /\ h \notin up
            /\ at[p] \in 1 .. 3 \/ (at[p] > Counting /\ h = addresses[Address(p)])
        BY <1>2, <2>8 DEF Misses, Asks
      <3>2. CASE at[p] > Counting /\ h = addresses[Address(p)]
        <4>1. ASSUME NEW i \in DOMAIN addresses, addresses[i] = n, Address(p) >= i
              PROVE  Address(p) > i
          <5>1. Address(p) # i
            BY <1>2, <3>1, <3>2, <4>1
          <5> QED BY <1>1, <1>4, <4>1, <5>1 DEF Address
        <4> QED BY <2>6, <3>1, <3>2, <4>1
      <3> QED BY <2>7, <3>1, <3>2
    <2>9. CASE Stores(p)
      <3>1. /\ at'[p] = Onto(p) /\ last'[p] = last[p] /\ copy'[p] = NoCopy /\ text' = copy[p]
            /\ copy[p] # NoCopy /\ (at[p] \in 1 .. 3 \/ at[p] > Counting)
        BY <2>9 DEF Stores
      <3>2. CASE at[p] > Counting
        <4>1. Coming(n, V, p)
          BY <2>4, <3>2 DEF Clears
        <4>2. Address(p) \in DOMAIN addresses /\ text' = Append(text, addresses[Address(p)])
          BY <1>6, <3>1, <3>2, <4>1
        <4>3. addresses[Address(p)] \in Hosts
          BY <1>1, <4>2 DEF Hosts
        <4>4. Len(text) < Place(Address(p)) /\ Len(text) \in Nat
          <5>1. Len(text) <= Asked(V, at[p]) /\ Len(text) \in Nat
            BY <1>1, <1>6, <3>2, <4>1, LenProperties DEF Sparse, Texts
          <5>2. Asked(V, at[p]) = Passed(V, Counting) + at[p] - Counting - 1
            BY <1>1, <3>2, AskedNat
          <5>3. Passed(V, Counting) \in Int
            BY DEF Passed, Past
          <5> QED BY <1>1, <5>1, <5>2, <5>3 DEF Address
        <4>5. ASSUME NEW i \in DOMAIN addresses, addresses[i] = n,
                     Address(p) > i => Among(n, text, Place(i)), Address(p) >= i
              PROVE  Among(n, text', Place(i))
          <5>1. i \in Int /\ Place(i) \in Int /\ Address(p) \in Int
            BY <1>1, <1>4 DEF Address, Passed, Past
          <5>2. CASE Address(p) = i
            BY <1>1, <1>2, <4>2, <4>4, <4>5, <5>1, <5>2, AmongLast
          <5>3. CASE Address(p) > i
            BY <1>1, <4>2, <4>3, <4>5, <5>1, <5>3, AmongGrows
          <5> QED BY <4>5, <5>1, <5>2, <5>3
        <4> QED BY <2>6, <3>1, <3>2, <4>5
      <3> QED BY <2>7, <3>1, <3>2
    <2> QED
      BY <1>1, <1>2, <1>9, <2>2, <2>3, <2>5, <2>8, <2>9, PollEffect
  <1> QED BY <1>1, <1>8, <1>9

LEMMA SeenStep ==
  ASSUME IInv, IInv', NEW p, OnePollAtATime(p), NEW n \in Nets,
         NEW V \in SUBSET Locals, Watched(n, V), Watched(n, V)', [Next]_vars, Coming(n, V, p),
         Seen(n, V) \/ (at[p] = Idle /\ at'[p] # Idle)
  PROVE  Seen(n, V)'
  <1>1. p \in Pollers /\ Pollers = {p}
    BY DEF OnePollAtATime
  <1>2. \A i \in DOMAIN addresses : i \in DOMAIN addresses' /\ addresses'[i] = addresses[i]
    BY ListGrows
  <1>3. ASSUME Seen(n, V), view' = view PROVE Seen(n, V)'
    BY <1>2, <1>3 DEF Seen
  <1>4. CASE PollStep(p)
    <2>1. at[p] # Idle /\ view' = view
      BY <1>1, <1>4, PollEffect DEF Clears, Skips, Counts, Stores, Takes, Misses, Asks, Watched, Calm,
                                    Alive
    <2> QED BY <1>3, <2>1
  <1>5. CASE Listens(p)
    <2>1. PICK i \in DOMAIN addresses : Among(n, text, Passed(V, Counting) + i)
      BY <1>5 DEF Listens, Coming
    <2>2. Among(n, view', Passed(V, Counting) + i)
      BY <1>5, <2>1 DEF Listens
    <2> QED BY <1>2, <2>2 DEF Seen
  <1>6. CASE (\A q \in Pollers : ~ PollStep(q)) /\ ~ Listens(p)
    BY <1>1, <1>3, <1>6, RestEffect
  <1> QED BY <1>1, <1>4, <1>5, <1>6

LEMMA SeenIsShown ==
  ASSUME IInv, NEW n \in Nets, NEW V \in SUBSET Locals, AtMostOne(V), Watched(n, V), Seen(n, V)
  PROVE  n \in Shown /\ view # <<>>
  <1>1. /\ DOMAIN addresses = 1 .. Len(addresses) /\ Len(addresses) \in Nat /\ visible = V
        /\ DOMAIN view = 1 .. Len(view) /\ Len(view) \in Nat
    BY LenProperties DEF IInv, TypeOK, Watched, Calm, Texts
  <1>2. PICK i \in DOMAIN addresses : Among(n, view, Passed(V, Counting) + i)
    BY DEF Seen
  <1>3. PICK j \in DOMAIN view : j <= Passed(V, Counting) + i /\ view[j] = n
    BY <1>2 DEF Among
  <1>4. Passed(V, Counting) = (IF visible = {} THEN 0 ELSE 1)
    BY <1>1, PassedAll
  <1>5. j <= Len(addresses) + (IF visible = {} THEN 0 ELSE 1)
    BY <1>1, <1>3, <1>4
  <1> QED BY <1>1, <1>3, <1>5 DEF Shown

-----------------------------------------------------------------------------
(* A networked miner that has left the list.                               *)
LEMMA WithoutAppend ==
  ASSUME NEW n, NEW s \in Texts, NEW h \in Hosts, h # n, Without(n, s)
  PROVE  Without(n, Append(s, h)) /\ Append(s, h) # <<>>
  <1>1. \A j \in DOMAIN Append(s, h) : j \in DOMAIN s \/ j = Len(s) + 1
    BY AppendIsText
  <1>2. \A j \in DOMAIN Append(s, h) : Append(s, h)[j] # n
    BY <1>1, AppendIsText DEF Without
  <1>3. Len(s) + 1 \in DOMAIN Append(s, h)
    BY AppendIsText
  <1> QED BY <1>2, <1>3 DEF Without

LEMMA LeavingStep ==
  ASSUME IInv, IInv', NEW p, OnePollAtATime(p), NEW n \in Nets,
         NEW V \in SUBSET Locals, NEW l \in V, Delisted(n, V, l), Delisted(n, V, l)', [Next]_vars,
         Leaving(n, l, p) \/ (at[p] = Clearing /\ at'[p] # Clearing)
  PROVE  Leaving(n, l, p)'
  <1>1. /\ p \in Pollers /\ Pollers = {p}
        /\ at[p] \in Int /\ at'[p] \in Int /\ at[p] >= Idle
        /\ text \in Texts /\ Holding(p)
    BY DEF OnePollAtATime, IInv, TypeOK
  <1>2. /\ visible = V /\ crash' = "no" /\ leaked # MaxFiles
        /\ \A i \in DOMAIN addresses : addresses[i] # n
    BY DEF Delisted, Calm, Alive, IInv, TypeOK, Listed
  <1>3. l \in V /\ l \in up /\ n \notin V
    BY ApiMonitorAssumption DEF Delisted
  <1> DEFINE Nonempty == at[p] <= Clearing \/ PastLocal(l, at[p]) => text # <<>>
             Held     == copy[p] # NoCopy => copy[p] # <<>> /\ Without(n, copy[p])
  <1>4. /\ Leaving(n, l, p) <=> Without(n, text) /\ Nonempty /\ Held
        /\ Leaving(n, l, p)' <=> Without(n, text') /\ Nonempty' /\ Held'
    BY DEF Leaving, Without
  <1>5. CASE \A q \in Pollers : ~ PollStep(q)
    <2>1. /\ copy'[p] = copy[p] /\ text' = text
          /\ at'[p] = at[p] \/ (at[p] = Idle /\ at'[p] = Clearing)
      BY <1>1, <1>5, RestEffect DEF Listens
    <2>2. Leaving(n, l, p)
      BY <2>1
    <2> QED BY <1>1, <1>4, <2>1, <2>2 DEF PastLocal
  <1>6. CASE PollStep(p)
    <2>1. CASE Clears(p)
      <3>1. text' = <<>> /\ copy'[p] = NoCopy /\ at'[p] = 1
        BY <2>1 DEF Clears
      <3>2. ~ PastLocal(l, at'[p]) /\ ~ (at'[p] <= Clearing)
        BY <3>1 DEF PastLocal, Clearing
      <3>3. Without(n, text')
        BY <3>1 DEF Without
      <3> QED BY <1>4, <3>1, <3>2, <3>3
    <2>2. ASSUME ~ Clears(p)
          PROVE  Leaving(n, l, p) /\ at[p] > Clearing
      BY <1>1, <1>2, <1>6, <2>2, PollEffect DEF Skips, Counts, Stores, Takes, Misses, Asks
    (* On the way the text is empty only until the local miner was asked.  *)
    <2>3. ASSUME text' = text, copy'[p] = NoCopy, at[p] > Clearing, Leaving(n, l, p),
                 at'[p] = Idle \/ at'[p] = at[p] + 1,
                 at[p] \in 1 .. 3 => LocalOrder[at[p]] # l /\ at'[p] # Idle
          PROVE  Leaving(n, l, p)'
      <3>1. PICK b \in 1 .. 3 : LocalOrder[b] = l
        <4>1. l = LocalOrder[1] \/ l = LocalOrder[2] \/ l = LocalOrder[3]
          BY <1>3, ApiMonitorAssumption DEF LocalOrder
        <4> QED BY <4>1
      <3>2. at[p] > 3 => text # <<>>
        BY <1>1, <1>4, <2>3, <3>1 DEF PastLocal
      <3>3. PastLocal(l, at[p] + 1) => PastLocal(l, at[p])
        BY <1>1, <2>3 DEF PastLocal, Clearing
      <3>4. Nonempty'
        BY <1>1, <1>4, <2>3, <3>2, <3>3 DEF Clearing, Idle
      <3> QED BY <1>4, <2>3, <3>4
    <2>4. CASE Skips(p) \/ Counts(p)
      BY <1>1, <1>2, <1>3, <2>2, <2>3, <2>4 DEF Skips, Counts, Clears
    <2>5. ASSUME NEW h \in Hosts, Misses(p, h) PROVE Leaving(n, l, p)'
      <3>1. /\ at'[p] = Onto(p) /\ copy'[p] = NoCopy /\ text' = text /\ h \notin up
            /\ at[p] \in 1 .. 3 => LocalOrder[at[p]] = h
            /\ at[p] > Clearing
        BY <1>1, <1>2, <2>5 DEF Misses, Asks
      <3>2. at[p] \in 1 .. 3 => LocalOrder[at[p]] # l
        BY <1>3, <3>1
      <3>3. Leaving(n, l, p)
        BY <2>2, <3>1 DEF Clears
      <3> QED BY <2>3, <3>1, <3>2, <3>3 DEF Onto
    <2>6. ASSUME NEW h \in Hosts, Takes(p, h) PROVE Leaving(n, l, p)'
      <3>1. Leaving(n, l, p)
        BY <2>2, <2>6 DEF Clears, Takes, Asks
      <3>2. h # n
        <4>1. CASE h \in visible
          BY <1>2, <1>3, <4>1
        <4>2. CASE at[p] > Counting /\ Address(p) <= Len(addresses) /\ h = addresses[Address(p)]
          <5>1. Address(p) \in DOMAIN addresses
            BY <1>1, <4>2, LenProperties DEF IInv, TypeOK, Address
          <5> QED BY <1>2, <4>2, <5>1
        <4> QED BY <2>6, <4>1, <4>2 DEF Takes, Asks
      <3>3. Without(n, copy'[p]) /\ copy'[p] # <<>>
        BY <1>1, <1>4, <2>6, <3>1, <3>2, WithoutAppend DEF Takes
      <3>4. text' = text /\ at'[p] = at[p]
        BY <2>6 DEF Takes
      <3> QED BY <1>4, <3>1, <3>3, <3>4
    <2>7. CASE Stores(p)
      <3>1. text' = copy[p] /\ copy[p] # NoCopy /\ copy'[p] = NoCopy
        BY <2>7 DEF Stores
      <3>2. Leaving(n, l, p)
        BY <2>2, <2>7 DEF Clears, Stores
      <3> QED BY <1>4, <3>1, <3>2
    <2> QED BY <1>1, <1>2, <1>6, <2>1, <2>4, <2>5, <2>6, <2>7, PollEffect
  <1> QED BY <1>1, <1>5, <1>6

LEMMA UnseenStep ==
  ASSUME IInv, IInv', NEW p, OnePollAtATime(p), NEW n \in Nets, NEW V \in SUBSET Locals, NEW l \in V,
         Delisted(n, V, l), Delisted(n, V, l)', [Next]_vars, Leaving(n, l, p),
         Unseen(n) \/ (at[p] = Idle /\ at'[p] # Idle)
  PROVE  Unseen(n)'
  <1>1. p \in Pollers /\ Pollers = {p}
    BY DEF OnePollAtATime
  <1>2. ASSUME Unseen(n), view' = view PROVE Unseen(n)'
    BY <1>2 DEF Unseen, Without
  <1>3. CASE PollStep(p)
    <2>1. at[p] # Idle /\ view' = view
      BY <1>1, <1>3, PollEffect DEF Clears, Skips, Counts, Stores, Takes, Misses, Asks, Delisted, Calm,
                                    Alive
    <2> QED BY <1>2, <2>1
  <1>4. CASE Listens(p)
    BY <1>4 DEF Listens, Leaving, Unseen, Without
  <1>5. CASE (\A q \in Pollers : ~ PollStep(q)) /\ ~ Listens(p)
    BY <1>1, <1>2, <1>5, RestEffect
  <1> QED BY <1>1, <1>3, <1>4, <1>5

LEMMA UnseenIsNotShown ==
  ASSUME NEW n, Unseen(n)
  PROVE  n \notin Shown
  BY DEF Unseen, Without, Shown

(* The table changes only to what is shown.                                *)
LEMMA TableStep ==
  ASSUME [Next]_vars
  PROVE  table' = table \/ table' = Shown
  <1>1. CASE ShowTable
    BY <1>1 DEF ShowTable, Shown
  <1>2. CASE [Next]_vars /\ ~ ShowTable
    BY <1>2 DEF Next, PollStep, Call, ClearText, Skip, Count, Store, Answer, Refused, NoSocket,
                NameLost, RangeError, Tick, AddMiner, ClearMiners, ReadingsChange, MinersChange, vars
  <1> QED BY <1>1, <1>2

-----------------------------------------------------------------------------
(* The end of a poll.  There is always room for the next answer.           *)
LEMMA SparseInvariant ==
  ASSUME NEW p, OnePollAtATime(p)
  PROVE  SafeSpec => [](Alive => Sparse(Locals, p))
  <1>1. Init => (Alive => Sparse(Locals, p))
    BY DEF Init, Sparse, OnePollAtATime
  <1>2. /\ IInv /\ IInv' /\ [Next]_vars /\ (Alive => Sparse(Locals, p))
        => (Alive => Sparse(Locals, p))'
    <2> SUFFICES ASSUME IInv, IInv', [Next]_vars, Alive => Sparse(Locals, p), Alive'
                 PROVE  Sparse(Locals, p)'
      OBVIOUS
    <2>1. crash' = "no"
      BY DEF Alive
    <2>2. Alive
      <3>1. CASE UNCHANGED vars
        BY <2>1, <3>1 DEF Alive, vars
      <3>2. CASE \E q \in Pollers : PollStep(q)
        BY <3>2 DEF PollStep, Call, ClearText, Skip, Count, Store, Answer, Refused, NoSocket,
                    NameLost, RangeError, Asks
      <3>3. CASE \E q \in Pollers : Tick(q)
        BY <3>3 DEF Tick
      <3>4. CASE ShowTable \/ (\E n \in Nets : AddMiner(n)) \/ ClearMiners
        BY <3>4 DEF ShowTable, AddMiner, ClearMiners
      <3>5. CASE ReadingsChange \/ MinersChange
        BY <3>5 DEF ReadingsChange, MinersChange
      <3> QED BY <3>1, <3>2, <3>3, <3>4, <3>5 DEF Next
    <2>3. visible \subseteq Locals
      BY DEF IInv, TypeOK
    <2> QED BY <2>1, <2>2, <2>3, SparseStep
  <1> QED BY <1>1, <1>2, Invariant, PTL DEF SafeSpec

LEMMA RoomForAnswers ==
  ASSUME IInv, NEW p, OnePollAtATime(p), TextSuffices, Sparse(Locals, p),
         at[p] # Idle
  PROVE  Roomy(p)
  <1>1. p \in Pollers /\ at[p] \in Idle .. Counting + MaxAddresses /\ text \in Texts
    BY DEF OnePollAtATime, IInv, TypeOK
  <1>2. Len(text) \in Nat
    BY <1>1, LenProperties DEF Texts
  <1>3. CASE at[p] \in {Clearing, Counting}
    BY <1>3 DEF Roomy
  <1>4. CASE at[p] \notin {Clearing, Counting} /\ copy[p] = NoCopy
    <2>1. at[p] > Clearing /\ at[p] \in Int
      BY <1>1, <1>4
    <2>2. Len(text) <= Asked(Locals, at[p]) /\ Asked(Locals, at[p]) \in Nat
      BY <2>1, AskedNat DEF Sparse
    <2>3. CASE at[p] > Counting
      <3>1. /\ Asked(Locals, at[p]) = Passed(Locals, Counting) + at[p] - Counting - 1
            /\ Passed(Locals, Counting) \in 0 .. 3
        BY <2>1, <2>3, AskedNat DEF Passed, Past
      <3>2. at[p] - Counting - 1 < MaxAddresses /\ MaxAddresses \in Nat
        BY <1>1, <2>1, ApiMonitorAssumption DEF Counting, Idle
      <3>3. Len(text) < Passed(Locals, Counting) + MaxAddresses
        BY <1>2, <2>1, <2>2, <3>1, <3>2 DEF Counting
      <3>4. MaxText \in Nat
        BY ApiMonitorAssumption
      <3> QED BY <1>2, <3>1, <3>2, <3>3, <3>4 DEF Roomy, TextSuffices
    <2>4. CASE at[p] \in 1 .. 3
      <3>1. LocalOrder[at[p]] \in Locals => Asked(Locals, at[p]) < Passed(Locals, Counting)
        <4>1. /\ LocalOrder[at[p]] \in Locals
                  => Passed(Locals, at[p] + 1) = Passed(Locals, at[p]) + 1
              /\ Passed(Locals, at[p] + 1) <= Passed(Locals, Counting)
              /\ Passed(Locals, at[p]) \in 0 .. 3
          BY <2>1, <2>4, PassedFacts
        <4>2. Passed(Locals, Counting) \in 0 .. 3
          BY DEF Passed, Past
        <4>3. Asked(Locals, at[p]) = Passed(Locals, at[p])
          BY <2>4, <4>1 DEF Asked, Counting
        <4> QED BY <4>1, <4>2, <4>3
      <3>2. LocalOrder[at[p]] \notin Locals => LocalOrder[at[p]] \notin visible
        BY DEF IInv, TypeOK
      <3>3. Asked(Locals, at[p]) < Passed(Locals, Counting) => Len(text) < MaxText
        <4>1. Passed(Locals, Counting) \in 0 .. 3
          BY DEF Passed, Past
        <4> QED BY <1>2, <2>2, <4>1, ApiMonitorAssumption DEF TextSuffices
      <3> QED BY <2>4, <3>1, <3>2, <3>3 DEF Roomy
    <2> QED BY <1>1, <1>4, <2>3, <2>4
  <1>5. CASE copy[p] # NoCopy
    BY <1>5 DEF Roomy
  <1> QED BY <1>3, <1>4, <1>5

(* Between two polls only the timer does anything to them.                 *)
LEMMA TickAlone ==
  ASSUME IInv, NEW p, OnePollAtATime(p), [Next]_vars, at[p] = Idle
  PROVE  at'[p] \in {Idle, Clearing}
  <1>1. p \in Pollers /\ Pollers = {p} /\ copy[p] = NoCopy
    BY DEF OnePollAtATime, IInv, Holding
  <1>2. CASE PollStep(p)
    BY <1>1, <1>2 DEF PollStep, Call, ClearText, Skip, Count, Store, Answer, Refused, NoSocket,
                      NameLost, RangeError, Asks, poll
  <1>3. CASE ~ PollStep(p)
    BY <1>1, <1>3, RestEffect DEF Listens
  <1> QED BY <1>2, <1>3

LEMMA OnwardMoves ==
  ASSUME NEW p, Onward(p)
  PROVE  ~ UNCHANGED <<at, copy>>
  BY DEF Onward, Remaining

LEMMA PollsEnd ==
  ASSUME NEW p, OnePollAtATime(p), TextSuffices
  PROVE  SafeSpec /\ Polled(p) /\ CanPoll(p) /\ ~ PollDescends(p)
           => (<>[]Alive => []<>(at[p] = Idle))
  <1> DEFINE Over == at[p] = Idle
             Fit  == Roomy(p)
  <1>1. p \in Pollers /\ Pollers = {p}
    BY DEF OnePollAtATime
  <1>2. IInv /\ [Next]_vars /\ ~ Over /\ ~ Over' /\ Alive' => [Onward(p)]_<<at, copy>>
    <2> SUFFICES ASSUME IInv, [Next]_vars, at[p] # Idle, at'[p] # Idle, Alive', ~ Onward(p)
                 PROVE  UNCHANGED <<at, copy>>
      OBVIOUS
    <2>1. ~ PollStep(p)
      BY <1>1, PollStepOnward DEF EndsOrOnward, Alive
    <2>2. ~ Tick(p)
      BY DEF Tick
    <2> QED
      BY <1>1, <2>1, <2>2 DEF Next, ShowTable, AddMiner, ClearMiners, ReadingsChange, MinersChange,
                              vars, poll
  <1>3. IInv /\ <<PollStep(p)>>_vars /\ ~ Over' /\ Alive' => <<Onward(p)>>_<<at, copy>>
    BY <1>1, PollStepOnward, OnwardMoves DEF EndsOrOnward, Alive
  <1>4. IInv /\ (Alive => Sparse(Locals, p)) /\ Alive /\ ~ Over => Fit
    BY RoomForAnswers
  <1>5. /\ (at[p] = Idle) <=> Over
        /\ (at[p] # Idle) <=> ~ Over
        /\ Roomy(p) <=> Fit
    OBVIOUS
  <1>6. SafeSpec => [](Alive => Sparse(Locals, p))
    BY SparseInvariant
  <1> HIDE DEF Over, Fit
  <1> QED
    BY <1>2, <1>3, <1>4, <1>5, <1>6, Invariant, PTL DEF SafeSpec, Polled, CanPoll, PollDescends, Endless

LEMMA WatchedIsSeen ==
  ASSUME NEW p, OnePollAtATime(p), TextSuffices, NEW n \in Nets,
         NEW V \in SUBSET Locals, AtMostOne(V)
  PROVE  /\ SafeSpec /\ Polled(p) /\ CanPoll(p) /\ ~ PollDescends(p)
         /\ Refreshed /\ CanShow
         => (<>[]Watched(n, V) => []<>(n \in table))
  <1> DEFINE Over     == at[p] = Idle
             Starting == at[p] = Clearing
             Listed_n == n \in table
             Stale    == view # <<>> /\ table # Shown
  <1>1. p \in Pollers /\ Pollers = {p}
    BY DEF OnePollAtATime
  <1>2. IInv /\ IInv' /\ Watched(n, V) /\ Watched(n, V)' /\ [Next]_vars
          /\ (Coming(n, V, p) \/ (Starting /\ ~ Starting')) => Coming(n, V, p)'
    BY ComingStep
  <1>3. IInv /\ IInv' /\ Watched(n, V) /\ Watched(n, V)' /\ [Next]_vars /\ Coming(n, V, p)
          /\ (Seen(n, V) \/ (Over /\ ~ Over')) => Seen(n, V)'
    BY SeenStep
  <1>4. IInv /\ Watched(n, V) /\ Seen(n, V) => (Listed_n \/ Stale)
    BY SeenIsShown
  <1>5. IInv /\ Watched(n, V) /\ Seen(n, V) /\ <<ShowTable>>_vars => Listed_n'
    BY SeenIsShown DEF ShowTable, Shown
  <1>6. Watched(n, V) => Alive
    BY DEF Watched, Calm
  <1>7. IInv /\ [Next]_vars /\ Over => Over' \/ Starting'
    BY TickAlone
  <1>8. IInv /\ <<Tick(p)>>_vars => Starting'
    BY <1>1 DEF Tick, IInv, TypeOK
  <1>9. Over => ~ Starting
    OBVIOUS
  <1>10. /\ (at[p] = Idle) <=> Over
         /\ (n \in table) <=> Listed_n
         /\ (view # <<>> /\ table # Shown) <=> Stale
    OBVIOUS
  <1>11. SafeSpec /\ Polled(p) /\ CanPoll(p) /\ ~ PollDescends(p) => (<>[]Alive => []<>(at[p] = Idle))
    BY PollsEnd
  <1> HIDE DEF Over, Starting, Listed_n, Stale
  <1> QED
    BY <1>2, <1>3, <1>4, <1>5, <1>6, <1>7, <1>8, <1>9, <1>10, <1>11, Invariant, PTL
    DEF SafeSpec, Polled, CanPoll, Refreshed, CanShow

LEMMA DelistedIsUnseen ==
  ASSUME NEW p, OnePollAtATime(p), TextSuffices, NEW n \in Nets,
         NEW V \in SUBSET Locals, NEW l \in V
  PROVE  /\ SafeSpec /\ Polled(p) /\ CanPoll(p) /\ ~ PollDescends(p)
         /\ Refreshed /\ CanShow
         => (<>[]Delisted(n, V, l) => <>[](n \notin table))
  <1> DEFINE Over     == at[p] = Idle
             Starting == at[p] = Clearing
             Absent   == n \notin table
             Stale    == view # <<>> /\ table # Shown
  <1>1. p \in Pollers /\ Pollers = {p}
    BY DEF OnePollAtATime
  <1>2. IInv /\ IInv' /\ Delisted(n, V, l) /\ Delisted(n, V, l)' /\ [Next]_vars
          /\ (Leaving(n, l, p) \/ (Starting /\ ~ Starting')) => Leaving(n, l, p)'
    BY LeavingStep
  <1>3. IInv /\ IInv' /\ Delisted(n, V, l) /\ Delisted(n, V, l)' /\ [Next]_vars /\ Leaving(n, l, p)
          /\ (Unseen(n) \/ (Over /\ ~ Over')) => Unseen(n)'
    BY UnseenStep
  <1>4. Unseen(n) => (Absent \/ Stale)
    BY UnseenIsNotShown DEF Unseen
  <1>5. Unseen(n) /\ [Next]_vars /\ Absent => Absent'
    BY UnseenIsNotShown, TableStep
  <1>6. Unseen(n) /\ <<ShowTable>>_vars => Absent'
    BY UnseenIsNotShown DEF ShowTable, Shown
  <1>7. Delisted(n, V, l) => Alive
    BY DEF Delisted, Calm
  <1>8. IInv /\ [Next]_vars /\ Over => Over' \/ Starting'
    BY TickAlone
  <1>9. IInv /\ <<Tick(p)>>_vars => Starting'
    BY <1>1 DEF Tick, IInv, TypeOK
  <1>10. Over => ~ Starting
    OBVIOUS
  <1>11. /\ (at[p] = Idle) <=> Over
         /\ (n \notin table) <=> Absent
         /\ (view # <<>> /\ table # Shown) <=> Stale
    OBVIOUS
  <1>12. SafeSpec /\ Polled(p) /\ CanPoll(p) /\ ~ PollDescends(p) => (<>[]Alive => []<>(at[p] = Idle))
    BY PollsEnd
  <1> HIDE DEF Over, Starting, Absent, Stale
  <1> QED
    BY <1>2, <1>3, <1>4, <1>5, <1>6, <1>7, <1>8, <1>9, <1>10, <1>11, <1>12, Invariant, PTL
    DEF SafeSpec, Polled, CanPoll, Refreshed, CanShow

(* The monitor shows a networked miner that stays on the list and answers, *)
(* again and again, unless a poll goes on for ever.  The miner's answer    *)
(* has a place because the list may only have grown since it was counted,  *)
(* and is not overtaken because the text was cleared by the same poll.     *)
THEOREM WatchedMinersShow ==
  ASSUME NEW p, OnePollAtATime(p), TextSuffices
  PROVE  Spec /\ CanPoll(p) /\ CanShow => Monitored \/ PollDescends(p)
  <1> SUFFICES ASSUME Spec, CanPoll(p), CanShow, ~ PollDescends(p),
                      NEW n \in Nets, NEW V \in SUBSET Locals, AtMostOne(V)
               PROVE  <>[](Calm(V) /\ Listed(n) /\ n \in up) => []<>(n \in table)
    BY DEF Monitored
  <1>1. SafeSpec /\ Polled(p) /\ Refreshed
    BY DEF Spec, OnePollAtATime
  <1>2. <>[]Watched(n, V) => []<>(n \in table)
    BY <1>1, WatchedIsSeen
  <1> QED BY <1>2 DEF Watched

(* A networked miner that left the list leaves the table for good, with    *)
(* the same reservation: the local miner's answer keeps the text from      *)
(* being empty, and nothing puts the other's into it again.                *)
THEOREM DelistedMinersGo ==
  ASSUME NEW p, OnePollAtATime(p), TextSuffices
  PROVE  Spec /\ CanPoll(p) /\ CanShow => ForgottenInTheEnd \/ PollDescends(p)
  <1> SUFFICES ASSUME Spec, CanPoll(p), CanShow, ~ PollDescends(p),
                      NEW n \in Nets, NEW V \in SUBSET Locals, NEW l \in V
               PROVE  <>[](Calm(V) /\ ~ Listed(n) /\ l \in up) => <>[](n \notin table)
    BY DEF ForgottenInTheEnd
  <1>1. SafeSpec /\ Polled(p) /\ Refreshed
    BY DEF Spec, OnePollAtATime
  <1>2. <>[]Delisted(n, V, l) => <>[](n \notin table)
    BY <1>1, DelistedIsUnseen
  <1> QED BY <1>2 DEF Delisted

-----------------------------------------------------------------------------
(* Some set has just the ways that an endless poll has before it.  Each    *)
(* behaviour has one, and it is empty; but that sets are formed by         *)
(* formulas about behaviours is no rule the prover knows, and the          *)
(* induction rests on it.                                                  *)
ComesTo(p, n) == <>(Endless(p) /\ Remaining(p) = n)

WaysAreASet(p) ==
    \E S \in SUBSET Nat :
        /\ [](Endless(p) => Remaining(p) \in S)
        /\ \A n \in S : ComesTo(p, n)

LEMMA LeastNumber ==
  ASSUME NEW S \in SUBSET Nat, S # {}
  PROVE  \E m \in S : \A n \in S : ~ (n < m)
  <1> DEFINE Below == OpToRel(<, Nat)
  <1>1. IsWellFoundedOn(Below, Nat)
    BY NatLessThanWellFounded
  <1>2. \A k, l \in Nat : k < l => <<k, l>> \in Below
    BY DEF OpToRel
  <1> HIDE DEF Below
  <1>3. \E m \in S : \A n \in S : <<n, m>> \notin Below
    BY <1>1, WFMin
  <1> QED BY <1>2, <1>3

(* No poll is endless: there is a shortest way it would have before it.    *)
LEMMA ShortestWay ==
  ASSUME NEW p, NEW S \in SUBSET Nat
  PROVE  [](Endless(p) => Remaining(p) \in S) /\ (\A n \in S : ComesTo(p, n))
           => ~ PollDescends(p)
  <1> DEFINE InS == Remaining(p) \in S
  <1>1. CASE S = {}
    <2>1. ~ InS
      BY <1>1
    <2> HIDE DEF InS
    <2>2. [](Endless(p) => InS) => ~ PollDescends(p)
      BY <2>1, PTL DEF PollDescends
    <2> QED BY <2>2 DEF InS
  <1>2. CASE S # {}
    <2>1. PICK m \in S : \A n \in S : ~ (n < m)
      BY <1>2, LeastNumber
    <2> DEFINE IsM == Remaining(p) = m
    <2>2. Onward(p) /\ IsM => ~ InS'
      BY <2>1 DEF Onward
    <2>3. UNCHANGED <<at, copy>> /\ IsM => IsM'
      BY DEF Remaining
    <2>4. (\A n \in S : ComesTo(p, n)) => ComesTo(p, m)
      OBVIOUS
    <2>5. (Remaining(p) = m) <=> IsM
      OBVIOUS
    <2> HIDE DEF InS, IsM
    <2>6. [](Endless(p) => InS) /\ ComesTo(p, m) => ~ PollDescends(p)
      BY <2>2, <2>3, <2>5, PTL DEF Endless, ComesTo, PollDescends
    <2> QED BY <2>4, <2>6 DEF InS
  <1> QED BY <1>1, <1>2

LEMMA PollsAreNotEndless ==
  ASSUME NEW p
  PROVE  WaysAreASet(p) => ~ PollDescends(p)
  BY ShortestWay DEF WaysAreASet

(* The monitor shows a networked miner that stays on the list and answers, *)
(* again and again.  README.md:8: "monitoring networked miners".           *)
THEOREM ListedMinersAreShown ==
  ASSUME NEW p, OnePollAtATime(p), TextSuffices
  PROVE  Spec /\ CanPoll(p) /\ CanShow /\ WaysAreASet(p) => Monitored
  BY WatchedMinersShow, PollsAreNotEndless

(* A networked miner that left the list leaves the table for good, as long *)
(* as a local miner answers (asicMiner.m:389-395).                         *)
THEOREM DelistedMinersAreForgotten ==
  ASSUME NEW p, OnePollAtATime(p), TextSuffices
  PROVE  Spec /\ CanPoll(p) /\ CanShow /\ WaysAreASet(p) => ForgottenInTheEnd
  BY DelistedMinersGo, PollsAreNotEndless

=============================================================================
