-------------------------- MODULE OutputView_proofs --------------------------
(***************************************************************************)
(* Proofs about OutputView, for any limits, lengths of outputs and number  *)
(* of characters deleted at a time: the state keeps its type, the log      *)
(* keeps below its limit or comes down to it, and the warning is given.    *)
(***************************************************************************)
EXTENDS OutputView, TLAPS, WellFoundedInduction

-----------------------------------------------------------------------------
(* Type correctness.                                                       *)

LEMMA LimitsInForce == \A l \in Limits : InForce(l) \in Nat \ {0}
  BY OutputViewAssumption DEF InForce

LEMMA InitTypes == Init => TypeOK
  <1> SUFFICES ASSUME Init PROVE TypeOK
    OBVIOUS
  <1>1. top \in Nat \ {0}
    BY LimitsInForce DEF Init
  <1>2. {silent, editable, tag, steady, mined} \subseteq BOOLEAN
    BY DEF Init
  <1> QED BY <1>1, <1>2 DEF Init, TypeOK, Rates, Phrases

(* What an output does to the log keeps the types of what it changes.      *)
LEMMA AddTypes ==
    ASSUME TypeOK, state = "on", NEW n \in Sizes, AddToLog(n)
    PROVE  /\ log' \in Nat /\ last' \in Nat /\ steady' \in BOOLEAN
           /\ editable' \in BOOLEAN /\ state' \in {"on", "deaf"}
  <1>1. n \in Nat /\ log \in Nat /\ Trim \in Nat
    BY OutputViewAssumption DEF TypeOK
  <1>2. last' \in Nat /\ steady' \in BOOLEAN
    BY <1>1 DEF AddToLog, TypeOK
  <1>3. CASE ~ Full(n)
    BY <1>1, <1>2, <1>3 DEF AddToLog, TypeOK
  <1>4. CASE Full(n) /\ ~ TooShort(n)
    <2>1. log' = log + n - Trim /\ log + n >= Trim
      BY <1>1, <1>4 DEF AddToLog, TooShort
    <2>2. log' \in Nat
      BY <1>1, <2>1
    <2>3. editable' = FALSE /\ state' = state
      BY <1>4 DEF AddToLog
    <2> QED BY <1>2, <2>2, <2>3
  <1>5. CASE Full(n) /\ TooShort(n)
    BY <1>1, <1>2, <1>5 DEF AddToLog, TypeOK
  <1> QED BY <1>3, <1>4, <1>5

(* What every output does first.                                           *)
LEMMA ListenTypes ==
    ASSUME TypeOK, NEW more \in SUBSET Phrases, Listen(more)
    PROVE  state = "on" /\ tag' \in BOOLEAN /\ said' \subseteq Phrases
  <1>1. tag \in BOOLEAN
    BY DEF TypeOK
  <1>2. tag' \in BOOLEAN
    BY <1>1 DEF Listen, Seen
  <1>3. said' \subseteq Phrases
    BY DEF Listen, Phrases
  <1> QED BY <1>2, <1>3 DEF Listen

LEMMA MaySayTypes == \A p \in Phrases : MaySay(p) \in SUBSET Phrases
  BY DEF MaySay

LEMMA TypeInductive == TypeOK /\ [Next]_vars => TypeOK'
  <1> SUFFICES ASSUME TypeOK, [Next]_vars PROVE TypeOK'
    OBVIOUS
  <1>0. /\ silent \in BOOLEAN /\ editable \in BOOLEAN /\ tag \in BOOLEAN
        /\ steady \in BOOLEAN /\ mined \in BOOLEAN
    BY DEF TypeOK
  <1>00. "Authorisation Failed" \in Phrases /\ "Mining Stopped" \in Phrases
    BY DEF Phrases
  <1>1. CASE Start
    <2>1. top' \in Nat \ {0}
      BY <1>1, LimitsInForce DEF Start, TypeOK
    <2>2. {silent, editable, tag, steady, mined}' \subseteq BOOLEAN
      BY <1>0, <1>1 DEF Start, settings
    <2> QED BY <1>1, <2>1, <2>2 DEF Start, TypeOK, settings, Phrases
  <1>2. CASE Stop
    <2>1. {silent, editable, tag, steady, mined}' \subseteq BOOLEAN
      BY <1>0, <1>2 DEF Stop, settings, history
    <2> QED BY <1>2, <2>1 DEF Stop, TypeOK, settings, history, Rates
  <1>3. CASE TaskEnds
    <2>1. {silent, editable, tag, steady, mined}' \subseteq BOOLEAN
      BY <1>0, <1>3 DEF TaskEnds, settings, history
    <2> QED BY <1>3, <2>1 DEF TaskEnds, TypeOK, settings, history
  <1>4. CASE SetLimit
    <2>1. limit' \in Limits
      BY <1>4 DEF SetLimit
    <2>2. top' \in Nat \ {0}
      BY <1>4, <2>1, LimitsInForce DEF SetLimit, TypeOK, Higher
    <2>3. {silent, editable, tag, steady, mined}' \subseteq BOOLEAN
      BY <1>0, <1>4 DEF SetLimit
    <2> QED BY <1>4, <2>1, <2>2, <2>3 DEF SetLimit, TypeOK
  <1>5. CASE SetSpeech
    <2>1. {silent, editable, tag, steady, mined}' \subseteq BOOLEAN
      BY <1>0, <1>5 DEF SetSpeech, history
    <2> QED BY <1>5, <2>1 DEF SetSpeech, TypeOK, history
  <1>6. CASE Output
    <2>1. PICK more \in SUBSET Phrases : Listen(more)
      BY <1>6, <1>00, MaySayTypes
         DEF Output, Plain, AuthFailed, Unknown, RateLine, TornLine, Undecodable
    <2>2. state = "on" /\ tag' \in BOOLEAN /\ said' \subseteq Phrases
      BY <2>1, ListenTypes
    <2>3. label' \in Rates /\ mined' \in BOOLEAN
      BY <1>6, <1>0 DEF Output, Plain, AuthFailed, Unknown, RateLine, TornLine, Undecodable,
                   Show, TypeOK, Rates
    <2>4. UNCHANGED <<settings, top>>
      BY <1>6 DEF Output, Plain, AuthFailed, Unknown, RateLine, TornLine, Undecodable
    <2>5. \/ \E n \in Sizes : AddToLog(n)
          \/ /\ KeepLog
             /\ state' = state \/ state' = "deaf"
          \/ /\ log' = log + 1 /\ last' = Trim /\ steady' = FALSE
             /\ UNCHANGED <<editable, state>>
      BY <1>6 DEF Output, Plain, AuthFailed, Unknown, RateLine, TornLine, Undecodable, KeepLog
    <2>6. /\ log' \in Nat /\ last' \in Nat /\ steady' \in BOOLEAN
          /\ editable' \in BOOLEAN /\ state' \in {"on", "deaf"}
      <3>1. CASE \E n \in Sizes : AddToLog(n)
        BY <2>2, <3>1, AddTypes
      <3>2. CASE KeepLog /\ (state' = state \/ state' = "deaf")
        BY <1>0, <2>2, <3>2 DEF KeepLog, TypeOK
      <3>3. CASE /\ log' = log + 1 /\ last' = Trim /\ steady' = FALSE
                 /\ UNCHANGED <<editable, state>>
        <4>1. log \in Nat /\ Trim \in Nat
          BY OutputViewAssumption DEF TypeOK
        <4>2. log' \in Nat /\ last' \in Nat
          BY <3>3, <4>1
        <4> QED BY <1>0, <2>2, <3>3, <4>2
      <3> QED BY <2>5, <3>1, <3>2, <3>3
    <2>7. {silent, editable, tag, steady, mined}' \subseteq BOOLEAN
      BY <1>0, <2>2, <2>3, <2>4, <2>6 DEF settings
    <2> QED BY <2>2, <2>3, <2>4, <2>6, <2>7 DEF TypeOK, settings
  <1>7. CASE WarningTimer
    <2>1. {silent, editable, tag, steady, mined}' \subseteq BOOLEAN
      BY <1>0, <1>7 DEF WarningTimer, settings, history
    <2>2. said' \subseteq Phrases
      BY <1>7, <1>00 DEF WarningTimer, MaySay
    <2> QED BY <1>7, <2>1, <2>2 DEF WarningTimer, TypeOK, settings, history
  <1>8. CASE UNCHANGED vars
    <2>1. {silent, editable, tag, steady, mined}' \subseteq BOOLEAN
      BY <1>0, <1>8 DEF vars, settings, history
    <2> QED BY <1>8, <2>1 DEF vars, settings, history, TypeOK
  <1> QED BY <1>1, <1>2, <1>3, <1>4, <1>5, <1>6, <1>7, <1>8 DEF Next

(* The state keeps its type, whatever the outputs and the settings: in     *)
(* particular the log, from which a fixed number of characters is deleted, *)
(* never gets a negative length (bfgminerViewController.m:797-803).        *)
THEOREM TypeCorrect == Spec => []TypeOK
  <1>1. Init => TypeOK
    BY InitTypes
  <1>2. TypeOK /\ [Next]_vars => TypeOK'
    BY TypeInductive
  <1> QED BY <1>1, <1>2, PTL DEF Spec

-----------------------------------------------------------------------------
(* The log.                                                                *)

(* The bound itself, and that the limit in force is part of it while a     *)
(* task runs.                                                              *)
Covers  == state # "off" => top >= InForce(limit)
Bounded == TypeOK /\ Covers /\ LogBounded

LEMMA HigherIsHigher ==
    \A a, b \in Int : Higher(a, b) \in Int /\ Higher(a, b) >= a /\ Higher(a, b) >= b
  BY DEF Higher

LEMMA BoundedInductive == Bounded /\ [Next]_vars => Bounded'
  <1> SUFFICES ASSUME Bounded, [Next]_vars PROVE Bounded'
    OBVIOUS
  <1>0. TypeOK /\ TypeOK' /\ Covers /\ LogBounded
    BY TypeInductive DEF Bounded
  <1>00. /\ top \in Int /\ top' \in Int /\ log \in Int /\ log' \in Int /\ Trim \in Int /\ Trim > 0
         /\ limit \in Limits /\ limit' \in Limits
    BY <1>0, OutputViewAssumption DEF TypeOK
  <1>000. InForce(limit) \in Int /\ InForce(limit') \in Int
    BY <1>00, LimitsInForce
  <1>1. CASE Start
    <2>1. top' = InForce(limit) /\ limit' = limit /\ log' = 0
      BY <1>1 DEF Start, settings
    <2>2. Covers'
      BY <1>000, <2>1 DEF Covers
    <2>3. LogBounded'
      BY <1>00, <2>1, HigherIsHigher DEF LogBounded
    <2> QED BY <1>0, <2>2, <2>3 DEF Bounded
  <1>2. CASE Stop \/ TaskEnds
    <2>1. state' = "off" /\ UNCHANGED <<log, top, steady>>
      BY <1>2 DEF Stop, TaskEnds, history
    <2> QED BY <1>0, <2>1 DEF Bounded, Covers, LogBounded
  <1>4. CASE SetLimit
    <2>1. top' = Higher(top, InForce(limit')) /\ UNCHANGED <<log, steady>>
      BY <1>4 DEF SetLimit
    <2>2. top' >= InForce(limit') /\ top' >= top
      BY <1>00, <1>000, <2>1, HigherIsHigher
    <2>3. Covers'
      BY <2>2 DEF Covers
    <2>4. Higher(top', Trim) >= Higher(top, Trim) /\ Higher(top', Trim) \in Int /\ Higher(top, Trim) \in Int
      BY <1>00, <2>2 DEF Higher
    <2>5. LogBounded'
      BY <1>0, <1>00, <2>1, <2>4 DEF LogBounded
    <2> QED BY <1>0, <2>3, <2>5 DEF Bounded
  <1>5. CASE SetSpeech \/ WarningTimer
    <2>1. UNCHANGED <<state, limit, log, top, steady>>
      BY <1>5 DEF SetSpeech, WarningTimer, settings, history
    <2> QED BY <1>0, <2>1 DEF Bounded, Covers, LogBounded
  <1>6. CASE Output
    <2>1. state = "on" /\ UNCHANGED <<limit, top>>
      BY <1>6 DEF Output, Plain, AuthFailed, Unknown, RateLine, TornLine, Undecodable,
                  Listen, settings
    <2>2. top >= InForce(limit)
      BY <1>0, <2>1 DEF Covers
    <2>3. Covers'
      BY <2>1, <2>2 DEF Covers
    <2>4. \/ \E n \in Sizes : AddToLog(n)
          \/ UNCHANGED <<log, steady>>
          \/ steady' = FALSE
      BY <1>6 DEF Output, Plain, AuthFailed, Unknown, RateLine, TornLine, Undecodable, KeepLog
    <2>8. LogBounded' <=> (steady' => log' < Higher(top', Trim))
      BY DEF LogBounded
    <2>5. CASE \E n \in Sizes : AddToLog(n)
      <3>1. PICK n \in Sizes : AddToLog(n)
        BY <2>5
      <3>2. n \in Int
        BY OutputViewAssumption
      <3>3. steady' => steady /\ n <= Trim
        BY <3>1 DEF AddToLog
      <3>4. ASSUME ~ Full(n) PROVE LogBounded'
        <4>1. log' = log + n /\ log' < InForce(limit)
          BY <1>00, <1>000, <3>1, <3>2, <3>4 DEF AddToLog, Full
        <4>2. Higher(top, Trim) >= top /\ Higher(top, Trim) \in Int
          BY <1>00, HigherIsHigher
        <4>3. log' < Higher(top, Trim)
          BY <1>00, <1>000, <2>2, <4>1, <4>2
        <4> QED BY <2>1, <2>8, <4>3
      <3>5. ASSUME Full(n) /\ ~ TooShort(n) PROVE LogBounded'
        <4>1. log' = log + n - Trim
          BY <3>1, <3>5 DEF AddToLog
        <4>2. Higher(top, Trim) \in Int
          BY <1>00, HigherIsHigher
        <4>3. ASSUME steady' PROVE log' < Higher(top, Trim)
          <5>1. log < Higher(top, Trim) /\ n <= Trim
            BY <1>0, <3>3, <4>3 DEF LogBounded
          <5> QED BY <1>00, <3>2, <4>1, <4>2, <5>1
        <4> QED BY <2>1, <2>8, <4>3
      <3>6. ASSUME Full(n) /\ TooShort(n) PROVE LogBounded'
        <4>1. log' = log + n /\ log + n < Trim
          BY <3>1, <3>6 DEF AddToLog, TooShort
        <4>2. Higher(top, Trim) >= Trim /\ Higher(top, Trim) \in Int
          BY <1>00, HigherIsHigher
        <4>3. log' < Higher(top, Trim)
          BY <1>00, <3>2, <4>1, <4>2
        <4> QED BY <2>1, <2>8, <4>3
      <3>7. LogBounded'
        BY <3>4, <3>5, <3>6
      <3> QED BY <1>0, <2>3, <3>7 DEF Bounded
    <2>6. CASE UNCHANGED <<log, steady>>
      <3>1. LogBounded'
        BY <1>0, <2>1, <2>6, <2>8 DEF LogBounded
      <3> QED BY <1>0, <2>3, <3>1 DEF Bounded
    <2>7. CASE steady' = FALSE
      BY <1>0, <2>3, <2>7 DEF Bounded, LogBounded
    <2> QED BY <2>4, <2>5, <2>6, <2>7
  <1>7. CASE UNCHANGED vars
    <2>1. UNCHANGED <<state, limit, log, top, steady>>
      BY <1>7 DEF vars, settings, history
    <2> QED BY <1>0, <2>1 DEF Bounded, Covers, LogBounded
  <1> QED BY <1>1, <1>2, <1>4, <1>5, <1>6, <1>7 DEF Next

(* For any limits, set at any time, the log of a task stays below the      *)
(* highest of them and of what is deleted at a time, as long as no output  *)
(* is longer than that (bfgminerViewController.m:797-803).                 *)
THEOREM LogKeepsItsLimit == Spec => []LogBounded
  <1>1. Init => Bounded
    <2> SUFFICES ASSUME Init PROVE Bounded
      OBVIOUS
    <2>1. TypeOK
      BY InitTypes
    <2>2. top \in Int /\ top > 0 /\ Trim \in Int /\ log = 0
      BY <2>1, OutputViewAssumption DEF TypeOK, Init
    <2>3. LogBounded
      BY <2>2 DEF LogBounded, Higher
    <2> QED BY <2>1, <2>3 DEF Bounded, Covers, Init
  <1>2. Bounded /\ [Next]_vars => Bounded'
    BY BoundedInductive
  <1>3. Bounded => LogBounded
    BY DEF Bounded
  <1> QED BY <1>1, <1>2, <1>3, PTL DEF Spec

-----------------------------------------------------------------------------
(* The warning.                                                            *)

(* A rate that was shown since the start is still shown or has left the    *)
(* tag, unless the task was stopped.                                       *)
Remembered == mined /\ state # "off" => label # "0" \/ tag
Warned     == TypeOK /\ (miner # "asic" => Remembered)

LEMMA WarnedInductive == Warned /\ [Next]_vars => Warned'
  <1> SUFFICES ASSUME Warned, [Next]_vars, miner' # "asic" PROVE Remembered'
    BY TypeInductive DEF Warned
  <1>0. miner' = miner
    BY DEF Next, Start, Stop, TaskEnds, SetLimit, SetSpeech, Output, Plain, AuthFailed,
           Unknown, RateLine, TornLine, Undecodable, WarningTimer, vars, settings
  <1>00. TypeOK /\ Remembered
    BY <1>0 DEF Warned
  <1>1. CASE Start
    BY <1>1 DEF Start, Remembered
  <1>2. CASE Stop \/ TaskEnds
    BY <1>2 DEF Stop, TaskEnds, Remembered
  <1>3. CASE SetLimit \/ SetSpeech
    BY <1>00, <1>3 DEF SetLimit, SetSpeech, history, Remembered
  <1>4. CASE Output
    <2>1. state = "on" /\ tag' = Seen
      BY <1>4 DEF Output, Plain, AuthFailed, Unknown, RateLine, TornLine, Undecodable, Listen
    <2>2. \/ UNCHANGED <<label, mined>>
          \/ \E rate \in Rates : Show(rate)
      BY <1>4 DEF Output, Plain, AuthFailed, Unknown, RateLine, TornLine, Undecodable, Rates
    <2>3. mined => Seen
      BY <1>0, <1>00, <2>1 DEF Remembered, Seen
    <2>4. mined' => label' # "0" \/ Seen
      BY <2>2, <2>3 DEF Show
    <2> QED BY <2>1, <2>4 DEF Remembered
  <1>5. CASE WarningTimer
    BY <1>0, <1>5 DEF WarningTimer
  <1>6. CASE UNCHANGED vars
    BY <1>00, <1>6 DEF vars, history, Remembered
  <1> QED BY <1>1, <1>2, <1>3, <1>4, <1>5, <1>6 DEF Next

LEMMA WarnedSteps ==
    ASSUME Warned, Output, miner # "asic", mined, label = "0", ~ silent
    PROVE  "Mining Stopped" \in said'
  <1>1. state = "on"
    BY DEF Output, Plain, AuthFailed, Unknown, RateLine, TornLine, Undecodable, Listen
  <1>2. Warns
    BY <1>1 DEF Warned, Remembered, Warns
  <1> QED BY <1>2 DEF Output, Plain, AuthFailed, Unknown, RateLine, TornLine, Undecodable, Listen

(* With three of the four controllers, whatever else the miner writes, the *)
(* output after one that showed no rate makes the application say that     *)
(* mining stopped (bfgminerViewController.m:625-640).                      *)
THEOREM StoppedMiningIsTold == Spec => WarnsWhenStopped
  <1>1. Init => Warned
    BY InitTypes DEF Init, Warned, Remembered
  <1>2. Warned /\ [Next]_vars => Warned'
    BY WarnedInductive
  <1>3. Warned /\ [Next]_vars
        => [Output /\ miner # "asic" /\ mined /\ label = "0" /\ ~ silent
            => "Mining Stopped" \in said']_vars
    BY WarnedSteps
  <1> QED BY <1>1, <1>2, <1>3, PTL DEF Spec, WarnsWhenStopped

-----------------------------------------------------------------------------
(* A lower limit.  The task runs on, its limit stays, and no output is as  *)
(* long as what is deleted at a time.                                      *)
Steady(l) == limit = l /\ state = "on" /\ last < Trim
Down(l)   == log < InForce(l)

Shorter     == log' \in Nat /\ log \in Nat /\ log' < log
Shrinking   == [][Shorter]_log /\ []<><<Shorter>>_log
LogDescends == <>Shrinking

(* A log below the limit stays below it, and one above it can only become  *)
(* shorter: an output adds less than the Trim that is deleted for it.      *)
LEMMA SteadyStep ==
    ASSUME NEW l \in Limits, TypeOK, [Next]_vars, Steady(l), Steady(l)'
    PROVE  /\ Down(l) => Down(l)'
           /\ ~ Down(l) => [Shorter]_log
  <1> USE DEF Down, Shorter
  <1>1. /\ log \in Nat /\ log' \in Nat /\ Trim \in Nat /\ InForce(l) \in Nat
        /\ limit = l /\ state = "on" /\ state' = "on" /\ last' < Trim
    BY TypeInductive, OutputViewAssumption, LimitsInForce DEF Steady, TypeOK
  <1>2. CASE log' = log
    BY <1>2
  <1>3. CASE log' # log
    <2>0. Output
      BY <1>1, <1>3
      DEF Next, Start, Stop, TaskEnds, SetLimit, SetSpeech, WarningTimer, vars
    <2>1. PICK n \in Sizes : AddToLog(n)
      <3>1. ~ Undecodable
        <4>1. Undecodable => log' = log \/ last' = Trim
          BY DEF Undecodable, KeepLog
        <4>2. last' # Trim
          BY <1>1
        <4> QED BY <1>3, <4>1, <4>2
      <3>2. ~ (\E n \in Sizes : AddToLog(n)) => log' = log
        BY <2>0, <3>1 DEF Output, Plain, AuthFailed, Unknown, RateLine, TornLine, KeepLog
      <3> QED BY <1>3, <3>2
    <2>2. n \in Nat /\ n < Trim
      BY <1>1, <2>1, OutputViewAssumption DEF AddToLog
    <2>3. CASE ~ Full(n)
      BY <1>1, <2>1, <2>2, <2>3 DEF AddToLog, Full
    <2>4. CASE Full(n)
      BY <1>1, <2>1, <2>2, <2>4 DEF AddToLog
    <2> QED BY <2>3, <2>4
  <1> QED BY <1>2, <1>3

LEMMA SteadyGoesDown ==
    ASSUME NEW l \in Limits
    PROVE  Spec /\ ~ LogDescends
             => (<>[](limit = l /\ state = "on" /\ last < Trim) /\ []<><<log' # log>>_vars
                   => <>[](log < InForce(l)))
  <1>1. TypeOK /\ [Next]_vars /\ Steady(l) /\ Steady(l)'
          => /\ Down(l) => Down(l)'
             /\ ~ Down(l) => [Shorter]_log
    BY SteadyStep
  <1>2. (limit = l /\ state = "on" /\ last < Trim) <=> Steady(l)
    BY DEF Steady
  <1>3. (log < InForce(l)) <=> Down(l)
    BY DEF Down
  <1>4. <<log' # log>>_vars => ~ UNCHANGED log
    OBVIOUS
  <1> QED BY <1>1, <1>2, <1>3, <1>4, TypeCorrect, PTL DEF Spec, LogDescends, Shrinking

(* LogComesDown, or else the log becomes shorter for ever.                 *)
THEOREM LogComesDownOrDescends == Spec => LogComesDown \/ LogDescends
  <1> SUFFICES ASSUME Spec, ~ LogDescends, NEW l \in Limits
               PROVE  <>[](limit = l /\ state = "on" /\ last < Trim) /\ []<><<log' # log>>_vars
                        => <>[](log < InForce(l))
    BY DEF LogComesDown
  <1> QED BY SteadyGoesDown

(* Some set has just the lengths of a log that shrinks for ever.  Each     *)
(* behaviour has one, and it is empty; but that sets are formed by         *)
(* formulas about behaviours is no rule the prover knows, and the          *)
(* induction rests on it.                                                  *)
ShrinksTo(n) == <>(Shrinking /\ log = n)

LengthsAreASet ==
    \E S \in SUBSET Nat :
        /\ [](Shrinking => log \in S)
        /\ \A n \in S : ShrinksTo(n)

LEMMA LeastNumber ==
  ASSUME NEW S \in SUBSET Nat, S # {}
  PROVE  \E m \in S : \A n \in S : ~ (n < m)
  <1> DEFINE Below == OpToRel(<, Nat)
  <1>1. IsWellFoundedOn(Below, Nat)
    BY NatLessThanWellFounded
  <1>2. \A k, l \in Nat : k < l => <<k, l>> \in Below
    BY DEF OpToRel
  <1> HIDE DEF Below
  <1>3. \E m \in S : \A n \in S : <<n, m>> \notin Below
    BY <1>1, WFMin
  <1> QED BY <1>2, <1>3

(* No log shrinks for ever: there is a least length it would have.         *)
LEMMA LeastLength ==
  ASSUME NEW S \in SUBSET Nat
  PROVE  [](Shrinking => log \in S) /\ (\A n \in S : ShrinksTo(n)) => ~ LogDescends
  <1> DEFINE InS == log \in S
  <1>1. CASE S = {}
    <2>1. ~ InS
      BY <1>1
    <2> HIDE DEF InS
    <2>2. [](Shrinking => InS) => ~ LogDescends
      BY <2>1, PTL DEF LogDescends
    <2> QED BY <2>2 DEF InS
  <1>2. CASE S # {}
    <2>1. PICK m \in S : \A n \in S : ~ (n < m)
      BY <1>2, LeastNumber
    <2> DEFINE IsM == log = m
    <2>2. Shorter /\ IsM => ~ InS'
      BY <2>1 DEF Shorter
    <2>3. UNCHANGED log /\ IsM => IsM'
      OBVIOUS
    <2>4. (\A n \in S : ShrinksTo(n)) => ShrinksTo(m)
      OBVIOUS
    <2>5. (log = m) <=> IsM
      OBVIOUS
    <2> HIDE DEF InS, IsM
    <2>6. [](Shrinking => InS) /\ ShrinksTo(m) => ~ LogDescends
      BY <2>2, <2>3, <2>5, PTL DEF Shrinking, ShrinksTo, LogDescends
    <2> QED BY <2>4, <2>6 DEF InS
  <1> QED BY <1>1, <1>2

(* A log whose limit was lowered comes below it, if outputs go on and none *)
(* is as long as what is deleted at a time (bfgminerViewController.m:797). *)
THEOREM LowerLimitIsReached == Spec /\ LengthsAreASet => LogComesDown
  <1>1. LengthsAreASet => ~ LogDescends
    BY LeastLength DEF LengthsAreASet
  <1> QED BY <1>1, LogComesDownOrDescends

=============================================================================
