--------------------------- MODULE Options_proofs ---------------------------
(***************************************************************************)
(* Theorems about Options, for any controllers, algorithms and number of   *)
(* settings: types, that applying a panel keeps what nobody changed, that  *)
(* what a launch reads from the panel is what was saved, and that both     *)
(* copies of the launch agree on every algorithm.                          *)
(***************************************************************************)
EXTENDS Options, TLAPS

-----------------------------------------------------------------------------
(* What a control or an entry can hold.                                    *)

(* A control that comes out of the nib, or means what is not saved.        *)
LEMMA BlankIsAValue ==
  ASSUME miner \in Miners, NEW s \in Settings(miner)
  PROVE  Blank(s) \in Values(miner, s) /\ Fresh(s) \in Values(miner, s)
  <1>1. CASE s \in Devices
    BY <1>1 DEF Blank, Fresh, Values, Tuning, Devices
  <1>2. CASE s \in Tuning \union {"threads", "flags"}
    BY <1>2 DEF Blank, Fresh, Values, Tuning, Devices
  <1>3. CASE s = "intensity"
    BY <1>3 DEF Blank, Fresh, Values, Tuning, Devices
  <1>4. CASE s \in {"worksize", "vector"}
    BY <1>4 DEF Blank, Fresh, Values, Tuning, Devices
  <1>5. CASE s = "algo"
    BY <1>5, OptionsAssumption DEF Blank, Fresh, Values, Tuning, Devices
  <1>6. CASE s \in {"debug", "quiet", "gpu", "log", "scrypt"}
    BY <1>6 DEF Blank, Fresh, Values, Tuning, Devices
  <1> QED
    BY <1>1, <1>2, <1>3, <1>4, <1>5, <1>6, OptionsAssumption
       DEF Settings, General, Graphic, Tuning, Devices

(* The type of one setting, and that showing, loading and applying keep it.*)
Typed(s) == control[s] \in Values(miner, s) /\ saved[s] \in Values(miner, s) \union {Unset}

LEMMA CopiesAreTyped ==
  ASSUME miner \in Miners, NEW s \in Settings(miner), Typed(s)
  PROVE  /\ Shown(s) \in Values(miner, s)
         /\ Loaded(s) \in Values(miner, s)
         /\ Written(s) \in Values(miner, s) \union {Unset}
  <1>1. Blank(s) \in Values(miner, s) /\ Fresh(s) \in Values(miner, s)
    BY BlankIsAValue
  <1>2. "off" \in Values(miner, "debug")
    BY DEF Values, Tuning
  <1> QED
    BY <1>1, <1>2 DEF Typed, Shown, Loaded, Written

LEMMA AdvisedIsAValue ==
  ASSUME NEW s, control[s] \in Values(miner, s)
  PROVE  Advised(s) \in Values(miner, s)
  BY DEF Advised, Values, Tuning

-----------------------------------------------------------------------------
(* Types.                                                                  *)

LEMMA InitType == Init => TypeOK
  <1> SUFFICES ASSUME Init PROVE TypeOK
    OBVIOUS
  <1>1. PICK W \in SUBSET Settings(miner) : /\ saved = [s \in W |-> Unset]
                                            /\ control = [s \in W |-> Fresh(s)]
    BY DEF Init
  <1>2. \A s \in W : Fresh(s) \in Values(miner, s)
    BY <1>1, BlankIsAValue DEF Init
  <1> QED
    BY <1>1, <1>2 DEF Init, TypeOK, Watched

LEMMA NextType == TypeOK /\ [Next]_vars => TypeOK'
  <1> SUFFICES ASSUME TypeOK, [Next]_vars PROVE TypeOK'
    OBVIOUS
  <1> USE DEF TypeOK, Watched
  <1>1. \A s \in Watched : s \in Settings(miner) /\ Typed(s)
    BY DEF Typed
  <1>2. CASE UNCHANGED vars
    BY <1>2 DEF vars
  <1>3. ASSUME NEW s \in Watched, NEW v \in Values(miner, s), Edit(s, v) PROVE TypeOK'
    BY <1>3 DEF Edit
  <1>4. CASE Recommend
    BY <1>4, AdvisedIsAValue DEF Recommend
  <1>5. CASE ShowPanel
    BY <1>1, <1>5, CopiesAreTyped DEF ShowPanel
  <1>6. CASE HidePanel
    BY <1>6 DEF HidePanel
  <1>7. CASE Apply
    <2>1. open' \in BOOLEAN
      BY <1>7 DEF Apply, Raises
    <2>2. \A s \in Watched : Written(s) \in Values(miner, s) \union {Unset}
      BY <1>1, CopiesAreTyped
    <2> QED
      BY <1>7, <2>1, <2>2 DEF Apply
  <1>8. CASE Press
    BY <1>8 DEF Press
  <1>9. CASE Stop
    BY <1>9 DEF Stop
  <1>10. ASSUME NEW automatic \in BOOLEAN, StartUp(automatic) PROVE TypeOK'
    <2>1. \A s \in Watched : Loaded(s) \in Values(miner, s)
      BY <1>1, CopiesAreTyped
    <2> QED
      BY <1>10, <2>1 DEF StartUp
  <1> QED
    BY <1>2, <1>3, <1>4, <1>5, <1>6, <1>7, <1>8, <1>9, <1>10 DEF Next

(* Panels hold what their controls can say, entries that or nothing.       *)
THEOREM TypeCorrect == Spec => []TypeOK
  BY InitType, NextType, PTL DEF Spec

-----------------------------------------------------------------------------
(* What a panel holds of a setting the user did not touch: it may be blank *)
(* until the panel is shown, and is what was saved from then on, though    *)
(* the panel is hidden again and a miner launched then.                    *)
(* The algorithm is looked up at every start-up and never blank.  The      *)
(* threads field of asicMiner keeps what was typed and is never saved.     *)
Unsaved == Forgotten \union (IF miner = "asic" THEN {"threads"} ELSE {})

Agrees(s) == control[s] = Meaning(s, saved[s])

Faithful ==
    /\ \A s \in Watched \ (touched \union Unsaved) :
          Agrees(s) \/ (~ seen /\ control[s] = Blank(s))
    /\ "algo" \in Watched \ touched => Agrees("algo")
    /\ open => seen

IInv == TypeOK /\ Faithful

(* Of a setting that is not excepted the nib has the blank one, and Apply  *)
(* saves what the control says.                                            *)
LEMMA FreshIsBlank ==
  ASSUME miner \in Miners, NEW s \in Settings(miner), s \notin Unsaved
  PROVE  Fresh(s) = Blank(s)
  <1>1. s # "intensity"
    BY OptionsAssumption DEF Unsaved, Forgotten, Settings, General, Graphic, Tuning, Devices
  <1> QED
    BY <1>1 DEF Fresh

LEMMA WrittenMeansControl ==
  ASSUME TypeOK, NEW s \in Watched, s \notin Unsaved
  PROVE  Meaning(s, Written(s)) = control[s]
  <1>1. control[s] # Unset
    BY UnsetAssumption DEF TypeOK
  <1>2. ~ (miner = "asic" /\ s = "threads")
    BY DEF Unsaved
  <1> QED
    BY <1>1, <1>2 DEF Meaning, Written

(* Showing a panel makes it what was saved.                                *)
LEMMA ShownAgrees ==
  ASSUME TypeOK, Faithful, NEW s \in Watched \ (touched \union Unsaved)
  PROVE  Shown(s) = Meaning(s, saved[s])
  <1>1. CASE miner = "cpu"
    <2>1. s = "algo"
      BY <1>1 DEF TypeOK, Unsaved, Forgotten
    <2> QED
      BY <1>1, <2>1 DEF Faithful, Agrees, Shown, ShowsDefaults
  <1>2. CASE miner # "cpu"
    <2>1. control[s] = Meaning(s, saved[s]) \/ control[s] = Blank(s)
      BY DEF Faithful, Agrees
    <2>2. Blank("debug") = "off"
      BY DEF Blank, Tuning, Devices
    <2> QED
      BY <1>2, <2>1, <2>2 DEF Shown, ShowsDefaults, Meaning
  <1> QED
    BY <1>1, <1>2

(* The menu of algorithms agrees at once after a start-up.                 *)
LEMMA MenuIsLoaded ==
  Loaded("algo") = Meaning("algo", saved["algo"])
  BY DEF Loaded, Fresh, Meaning

LEMMA InitFaithful == Init => Faithful
  <1> SUFFICES ASSUME Init PROVE Faithful
    OBVIOUS
  <1>1. PICK W \in SUBSET Settings(miner) : /\ saved = [s \in W |-> Unset]
                                            /\ control = [s \in W |-> Fresh(s)]
    BY DEF Init
  <1>2. \A s \in W \ Unsaved : Fresh(s) = Blank(s)
    BY <1>1, FreshIsBlank DEF Init
  <1>3. Fresh("algo") = Blank("algo")
    BY DEF Fresh
  <1> QED
    BY <1>1, <1>2, <1>3 DEF Init, Faithful, Agrees, Meaning, Watched

LEMMA NextFaithful == TypeOK /\ Faithful /\ [Next]_vars => Faithful'
  <1> SUFFICES ASSUME TypeOK, Faithful, [Next]_vars PROVE Faithful'
    OBVIOUS
  <1> DEFINE Kept == Watched \ (touched \union Unsaved)
  <1>1. miner' = miner /\ Watched' = Watched /\ Unsaved' = Unsaved
    BY DEF Next, vars, Edit, Recommend, ShowPanel, HidePanel, Apply, Press, Stop, StartUp,
       TypeOK, Watched, Unsaved, Forgotten
  <1>2. CASE UNCHANGED <<miner, saved, control, open, touched, seen>>
    BY <1>2 DEF Faithful, Agrees, Meaning, Watched, Unsaved, Forgotten
  <1>3. ASSUME NEW n \in Watched, NEW v, Edit(n, v) PROVE Faithful'
    <2>1. \A s \in Watched \ touched' : s \notin touched /\ control'[s] = control[s]
      BY <1>3 DEF Edit, Watched
    <2> QED
      BY <1>1, <1>3, <2>1 DEF Edit, Faithful, Agrees, Meaning
  <1>4. CASE Recommend
    <2>1. \A s \in Watched \ touched' : s \notin touched /\ control'[s] = control[s]
      BY <1>4 DEF Recommend
    <2> QED
      BY <1>1, <1>4, <2>1 DEF Recommend, Faithful, Agrees, Meaning
  <1>5. CASE ShowPanel
    <2>1. \A s \in Kept : Shown(s) = Meaning(s, saved[s])
      BY ShownAgrees
    <2>2. "algo" \in Watched \ touched => "algo" \in Kept
      BY OptionsAssumption DEF TypeOK, Unsaved, Forgotten
    <2> QED
      BY <1>1, <1>5, <2>1, <2>2 DEF ShowPanel, Faithful, Agrees, Meaning
  <1>6. CASE HidePanel
    BY <1>1, <1>6 DEF HidePanel, Faithful, Agrees, Meaning
  <1>7. CASE Apply
    <2>1. \A s \in Watched \ Unsaved : Meaning(s, saved'[s]) = control[s]
      BY <1>7, WrittenMeansControl DEF Apply
    <2>2. "algo" \notin Unsaved
      BY DEF Unsaved, Forgotten
    <2> QED
      BY <1>1, <1>7, <2>1, <2>2 DEF Apply, Faithful, Agrees, Meaning
  <1>8. ASSUME NEW automatic \in BOOLEAN, StartUp(automatic) PROVE Faithful'
    <2>1. \A s \in Watched : control'[s] = Loaded(s)
      BY <1>8 DEF StartUp
    <2>2. \A s \in Watched \ Unsaved :
             Loaded(s) = Meaning(s, saved[s]) \/ Loaded(s) = Blank(s)
      BY FreshIsBlank DEF TypeOK, Loaded, Meaning
    <2> QED
      BY <1>1, <1>8, <2>1, <2>2, MenuIsLoaded DEF StartUp, Faithful, Agrees, Meaning
  <1> QED
    BY <1>2, <1>3, <1>4, <1>5, <1>6, <1>7, <1>8 DEF Next, vars, Press, Stop

LEMMA IInvHolds == Spec => []IInv
  BY InitType, NextType, InitFaithful, NextFaithful, PTL DEF Spec, IInv

-----------------------------------------------------------------------------
(* Applying a panel changes nothing the user did not change.               *)
THEOREM ApplyingKeeps == Spec => AppliedIsKept
  <1> DEFINE Keeps == open /\ Apply =>
                        \A s \in Watched \ (touched \union Forgotten) :
                            Meaning(s, saved'[s]) = Meaning(s, saved[s])
  <1>1. IInv /\ [Next]_vars => [Keeps]_vars
    <2> SUFFICES ASSUME IInv, open, Apply, NEW s \in Watched \ (touched \union Forgotten)
                 PROVE  Meaning(s, saved'[s]) = Meaning(s, saved[s])
      OBVIOUS
    <2>1. saved'[s] = Written(s)
      BY DEF Apply
    <2>2. CASE s \in Unsaved
      <3>1. miner = "asic" /\ s = "threads"
        BY <2>2 DEF Unsaved
      <3> QED
        BY <2>1, <3>1 DEF Written
    <2>3. CASE s \notin Unsaved
      <3>1. control[s] = Meaning(s, saved[s])
        BY <2>3 DEF IInv, Faithful, Agrees
      <3> QED
        BY <2>1, <2>3, <3>1, WrittenMeansControl DEF IInv
    <2> QED
      BY <2>2, <2>3
  <1> QED
    BY <1>1, IInvHolds, PTL DEF Spec, AppliedIsKept

-----------------------------------------------------------------------------
(* What a miner is launched with.                                          *)

(* A launch has the algorithm and the devices as the panel says.           *)
LEMMA ReadFromPanel ==
  ASSUME miner \in Miners, NEW panel, NEW program,
         NEW s \in DOMAIN panel, s \in FromPanel, s \in Settings(miner)
  PROVE  Started(program, panel).with[s] = panel[s]
  <1>1. \/ s \in Devices /\ miner = "asic"
        \/ s = "algo" /\ miner \in {"bfg", "cpu"}
    BY OptionsAssumption DEF FromPanel, Devices, Settings, Graphic, General, Tuning
  <1>2. InForce(s, panel[s], Algorithm(panel)) = panel[s]
    BY <1>1 DEF InForce, Dead, Tuning, Devices
  <1>3. Given(s, panel) = panel[s]
    BY DEF Given
  <1> QED
    BY <1>2, <1>3 DEF Started, Arguments

(* Whoever launches a miner, at any time, launches it with the algorithm   *)
(* and the devices that were saved, unless they were changed and not       *)
(* applied or, of the devices, the panel was not yet shown.                *)
THEOREM LaunchesUseDefaults == Spec => SavedIsLaunched
  <1> DEFINE Served == Press \/ StartUp(TRUE) =>
                         \A s \in (Watched \cap FromPanel) \ touched' :
                           s = "algo" \/ seen' => launch'.with[s] = Meaning(s, saved[s])
  <1>1. IInv /\ [Next]_vars => [Served]_vars
    <2> SUFFICES ASSUME IInv, Press \/ StartUp(TRUE),
                        NEW s \in (Watched \cap FromPanel) \ touched', s = "algo" \/ seen'
                 PROVE  launch'.with[s] = Meaning(s, saved[s])
      OBVIOUS
    <2>0. miner \in Miners /\ s \in Settings(miner)
      BY DEF IInv, TypeOK
    <2>1. CASE Press
      <3>1. launch'.with[s] = control[s]
        BY <2>0, <2>1, ReadFromPanel DEF Press, Watched
      <3>2. s \notin Unsaved
        BY DEF IInv, TypeOK, FromPanel, Devices, Unsaved, Forgotten, Settings, General
      <3>3. control[s] = Meaning(s, saved[s])
        BY <2>1, <3>2 DEF Press, IInv, Faithful, Agrees
      <3> QED
        BY <3>1, <3>3
    <2>2. CASE StartUp(TRUE)
      <3>1. s = "algo"
        BY <2>2 DEF StartUp
      <3>2. /\ DOMAIN control' = Watched
            /\ launch' = Started(AtStart(Algorithm(control')), control')
        BY <2>2 DEF StartUp
      <3>4. launch'.with[s] = control'[s]
        BY <2>0, <3>2, ReadFromPanel
      <3>3. control'[s] = Meaning(s, saved[s])
        BY <2>2, <3>1, MenuIsLoaded DEF StartUp
      <3> QED
        BY <3>3, <3>4
    <2> QED
      BY <2>1, <2>2
  <1> QED
    BY <1>1, IInvHolds, PTL DEF Spec, SavedIsLaunched

-----------------------------------------------------------------------------
(* The two copies of the launch.                                           *)
LEMMA CopiesAgree ==
  ASSUME NEW a, <<miner, a>> \notin CopiesDiffer,
         miner \in Miners, miner = "cpu" => a \in 0 .. 14
  PROVE  AtStart(a) = ByButton(a)
  <1>1. CASE miner = "bfg"
    <2>1. GpuFileAtStart(a) = GpuFile(a)
      BY DEF GpuFileAtStart, GpuFile
    <2>2. GpuBinaryAtStart(a) = GpuBinary(a)
      BY <1>1 DEF GpuBinaryAtStart, GpuBinary, CopiesDiffer
    <2> QED
      BY <1>1, <2>1, <2>2 DEF AtStart, ByButton
  <1>2. CASE miner = "cpu"
    <2>1. CpuFileAtStart(a) = CpuFile(a)
      BY DEF CpuFileAtStart, CpuFile
    <2>2. CpuBinaryAtStart(a) = CpuBinary(a)
      BY DEF CpuBinaryAtStart, CpuBinary
    <2>3. CpuMinesAtStart(a) = CpuMines(a)
      <3>1. a \in (0 .. 14) \ {6}
        BY <1>2 DEF CopiesDiffer
      <3> DEFINE Same(b) == CpuMinesAtStart(b) = CpuMines(b)
      <3>2. /\ Same(0) /\ Same(1) /\ Same(2) /\ Same(3) /\ Same(4)
            /\ Same(5) /\ Same(7) /\ Same(8) /\ Same(9) /\ Same(10)
            /\ Same(11) /\ Same(12) /\ Same(13) /\ Same(14)
        BY DEF CpuMinesAtStart, CpuMines
      <3>3. a \in {0, 1, 2, 3, 4, 5, 7, 8, 9, 10, 11, 12, 13, 14}
        BY <3>1
      <3> HIDE DEF Same
      <3>4. Same(a)
        BY <3>2, <3>3
      <3> QED
        BY <3>4 DEF Same
    <2> QED
      BY <1>2, <2>1, <2>2, <2>3 DEF AtStart, ByButton
  <1>3. CASE miner \in {"asic", "cg"}
    BY <1>3 DEF AtStart, ByButton
  <1> QED
    BY <1>1, <1>2, <1>3, OptionsAssumption

(* The start with the application launches what the button would, for      *)
(* every algorithm of the menus but Yescrypt and X11.                      *)
THEOREM CopiesStartAlike == Spec => StartsAlike
  <1> DEFINE Alike == StartUp(TRUE) /\ <<miner, Algorithm(control')>> \notin CopiesDiffer =>
                        launch' = Started(ByButton(Algorithm(control')), control')
  <1>1. TypeOK /\ TypeOK' /\ [Next]_vars => [Alike]_vars
    <2> SUFFICES ASSUME TypeOK, TypeOK', StartUp(TRUE),
                        <<miner, Algorithm(control')>> \notin CopiesDiffer
                 PROVE  launch' = Started(ByButton(Algorithm(control')), control')
      OBVIOUS
    <2> DEFINE a == Algorithm(control')
    <2>1. launch' = Started(AtStart(a), control')
      BY DEF StartUp
    <2>2. miner = "cpu" => a \in 0 .. 14
      <3>1. miner' = miner
        BY DEF StartUp
      <3>2. "algo" \in DOMAIN control' => control'["algo"] \in Values(miner, "algo")
        BY <3>1 DEF TypeOK, Watched
      <3> QED
        BY <3>2, OptionsAssumption DEF Algorithm, Values, Tuning
    <2>3. AtStart(a) = ByButton(a)
      BY <2>2, CopiesAgree DEF TypeOK
    <2> QED
      BY <2>1, <2>3
  <1> QED
    BY <1>1, TypeCorrect, PTL DEF Spec, StartsAlike
=============================================================================
