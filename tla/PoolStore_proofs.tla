-------------------------- MODULE PoolStore_proofs --------------------------
(***************************************************************************)
(* What the module PoolStore promises for every menu of coins and whatever *)
(* the user types: the two copies of a pool agree, and the form never      *)
(* shows an account of another coin.                                       *)
(***************************************************************************)
EXTENDS PoolStore, TLAPS

USE PoolStoreAssumption

-----------------------------------------------------------------------------
(* The texts and accounts that the windows make are of the right kind.     *)
LEMMA FilledType ==
  ASSUME NEW entry \in Forms
  PROVE  Filled(entry) \in Contents \union {Blank}
  <1>1. /\ entry.pool \in FormPools /\ entry.user \in Names \union {""}
        /\ entry.pass \in FormPasswords
    BY DEF Forms, Entry
  <1>2. /\ WithoutSpaces(entry.pool) \in Stored(FormPools)
        /\ WithoutSpaces(entry.user) \in Stored(Names \union {""})
        /\ WithoutSpaces(entry.pass) \in Stored(FormPasswords)
    BY <1>1 DEF Stored
  <1> QED
    BY <1>2 DEF Filled, Contents, Entry

LEMMA AccountType ==
  ASSUME NEW entry \in Accounts,
         NEW wallet \in Names, NEW length
  PROVE  /\ Account(entry, wallet) \in Forms \intersect Contents
         /\ BitcoinAccount(entry, wallet, length) \in Forms \intersect Contents
         /\ ScryptText(entry, wallet, length) \in Contents
  <1>1. entry \in Forms /\ Account(entry, wallet) \in Forms
    BY DEF Entry, Accounts, Forms, FormPools, FormPasswords, Account
  <1>2. \A entry_ \in Forms : entry_ \in Contents /\ [entry_ EXCEPT !.pool = TemplatePool] \in Contents
    BY DEF Entry, Forms, Contents, FormPools, FormPasswords, Stored
  <1>3. /\ entry \in Contents /\ Account(entry, wallet) \in Contents
        /\ [Account(entry, wallet) EXCEPT !.pool = TemplatePool] \in Contents
    BY <1>1, <1>2
  <1> QED
    BY <1>1, <1>2, <1>3 DEF BitcoinAccount, ScryptText

LEMMA LoadedType ==
  ASSUME TypeOK, NEW c \in EditedCoins
  PROVE  Loaded(c) \in Contents \union {Blank}
  BY DEF TypeOK, Loaded, EditedCoins

LEMMA InitType == Init => TypeOK
  <1> SUFFICES ASSUME Init PROVE TypeOK
    OBVIOUS
  <1>1. form \in Forms
    BY DEF Init, NewForm, Forms, FormPools, FormPasswords, Entry
  <1>2. prefs \in [Coins -> Forms \union {Nothing}]
    BY DEF Init
  <1>3. file \in [Coins -> Contents \union {Missing, Blank}]
    BY DEF Init
  <1>4. editor \in [open : BOOLEAN, segment : EditedCoins, text : Contents \union {Blank}]
    BY DEF Init, EditedCoins
  <1> QED
    BY <1>1, <1>2, <1>3, <1>4 DEF Init, TypeOK, Makers

LEMMA SelectType ==
  ASSUME TypeOK, NEW c \in Coins, Select(c)
  PROVE  TypeOK'
  <1>1. form' \in Forms
    <2>1. CASE Known(c) /\ form' = prefs[c]
      BY <2>1 DEF TypeOK, Known
    <2>2. CASE form' = [form EXCEPT !.pool = Suggested(c)]
      BY <2>2 DEF TypeOK, Suggested, Forms, FormPools, Entry
    <2>3. CASE form' = [pool |-> Suggested(c), user |-> "", pass |-> ""]
      BY <2>3 DEF TypeOK, Suggested, Forms, FormPools, FormPasswords, Entry
    <2> QED
      BY <2>1, <2>2, <2>3 DEF Select
  <1> QED
    BY <1>1 DEF TypeOK, Select

LEMMA SetupType ==
  ASSUME TypeOK,
         NEW btc \in Accounts,
         NEW ltc \in Accounts,
         NEW wallet \in Names, NEW btcLength, NEW ltcLength,
         Setup(btc, ltc, wallet, wallet, btcLength, ltcLength)
  PROVE  TypeOK'
  <1>1. /\ BitcoinAccount(btc, wallet, btcLength) \in Forms \intersect Contents
        /\ Account(ltc, wallet) \in Forms
        /\ ScryptText(ltc, wallet, ltcLength) \in Contents
    BY AccountType
  <1>2. prefs' \in [Coins -> Forms \union {Nothing}]
    BY <1>1 DEF Setup, TypeOK
  <1>3. file' \in [Coins -> Contents \union {Missing, Blank}]
    BY <1>1 DEF Setup, TypeOK
  <1>4. maker' \in [Coins -> Makers]
    BY DEF Setup, TypeOK, Makers
  <1> QED
    BY <1>2, <1>3, <1>4 DEF Setup, TypeOK, window

(* The editor's three actions.                                             *)
LEMMA EditorType ==
  ASSUME TypeOK, NEW text \in Contents \union {Blank}
  PROVE  /\ \A c \in EditedCoins :
               [editor EXCEPT !.segment = c, !.text = text] \in
                  [open : BOOLEAN, segment : EditedCoins, text : Contents \union {Blank}]
         /\ \A open \in BOOLEAN :
               [editor EXCEPT !.open = open, !.text = text] \in
                  [open : BOOLEAN, segment : EditedCoins, text : Contents \union {Blank}]
         /\ [editor EXCEPT !.text = text] \in
                  [open : BOOLEAN, segment : EditedCoins, text : Contents \union {Blank}]
  BY DEF TypeOK

LEMMA NextType == TypeOK /\ [Next]_vars => TypeOK'
  <1> SUFFICES ASSUME TypeOK, [Next]_vars PROVE TypeOK'
    OBVIOUS
  <1>1. CASE UNCHANGED vars
    BY <1>1 DEF vars, window, TypeOK
  <1>2. ASSUME NEW c \in Coins, Select(c) PROVE TypeOK'
    BY <1>2, SelectType
  <1>3. ASSUME NEW p \in Pools, NEW u \in Names \union {""}, NEW w \in Passwords \union {""},
               Type(p, u, w)
        PROVE  TypeOK'
    <2>1. form' \in Forms
      BY <1>3 DEF Type, Forms, FormPools, FormPasswords, Entry
    <2> QED
      BY <1>3, <2>1 DEF Type, TypeOK
  <1>4. CASE Save
    <2>1. Filled(form) \in Contents \union {Blank}
      BY FilledType DEF TypeOK
    <2>2. maker' \in [Coins -> Makers]
      BY <1>4 DEF Save, TypeOK, Makers
    <2> QED
      BY <1>4, <2>1, <2>2 DEF Save, TypeOK, window
  <1>5. CASE Relaunch
    <2>1. form' \in Forms
      BY <1>5 DEF Relaunch, TypeOK, NewForm, Forms, FormPools, FormPasswords, Entry
    <2>2. editor' \in [open : BOOLEAN, segment : EditedCoins, text : Contents \union {Blank}]
      BY <1>5 DEF Relaunch, EditedCoins
    <2> QED
      BY <1>5, <2>1, <2>2 DEF Relaunch, TypeOK
  <1>6. ASSUME NEW btc \in Accounts,
               NEW ltc \in Accounts,
               NEW wallet \in Names, NEW btcLength \in Lengths, NEW ltcLength \in Lengths,
               Setup(btc, ltc, wallet, wallet, btcLength, ltcLength)
        PROVE  TypeOK'
    BY <1>6, SetupType
  <1>7. CASE ToggleEditor
    <2>1. editor.segment \in EditedCoins
      BY DEF TypeOK
    <2>2. Loaded(editor.segment) \in Contents \union {Blank}
      BY <2>1, LoadedType
    <2>3. editor' \in [open : BOOLEAN, segment : EditedCoins, text : Contents \union {Blank}]
      BY <1>7, <2>2, EditorType DEF ToggleEditor, TypeOK
    <2> QED
      BY <1>7, <2>3 DEF ToggleEditor, TypeOK, window
  <1>8. ASSUME NEW c \in EditedCoins, ShowSegment(c) PROVE TypeOK'
    <2>1. Loaded(c) \in Contents \union {Blank}
      BY LoadedType
    <2>2. editor' \in [open : BOOLEAN, segment : EditedCoins, text : Contents \union {Blank}]
      BY <1>8, <2>1, EditorType DEF ShowSegment
    <2> QED
      BY <1>8, <2>2 DEF ShowSegment, TypeOK, window
  <1>9. ASSUME NEW text \in Entry(Pools, Names, Passwords \union {""}), EditText(text) PROVE TypeOK'
    <2>1. text \in Contents \union {Blank}
      BY DEF Entry, Contents, Stored, FormPools, FormPasswords
    <2>2. editor' \in [open : BOOLEAN, segment : EditedCoins, text : Contents \union {Blank}]
      BY <1>9, <2>1, EditorType DEF EditText
    <2> QED
      BY <1>9, <2>2 DEF EditText, TypeOK, window
  <1>10. CASE SaveText
    <2>1. editor.segment \in EditedCoins /\ editor.text \in Contents \union {Blank}
      BY DEF TypeOK
    <2>2. maker' \in [Coins -> Makers]
      BY <1>10 DEF SaveText, TypeOK, Makers
    <2> QED
      BY <1>10, <2>1, <2>2 DEF SaveText, TypeOK, window
  <1> QED
    BY <1>1, <1>2, <1>3, <1>4, <1>5, <1>6, <1>7, <1>8, <1>9, <1>10 DEF Next

(* Preferences, files, form and editor hold what their windows can make:   *)
(* in particular no entry that was never saved ever reaches the form.      *)
THEOREM TypeCorrect == Spec => []TypeOK
  BY InitType, NextType, PTL DEF Spec

-----------------------------------------------------------------------------
(* The form.  Every action that changes the coin or the fields says whose  *)
(* account they are.                                                       *)
THEOREM FormBelongsToCoin == Spec => []FormIsOwn
  <1>1. Init => FormIsOwn
    BY DEF Init, FormIsOwn
  <1>2. FormIsOwn /\ [Next]_vars => FormIsOwn'
    <2> SUFFICES ASSUME FormIsOwn, [Next]_vars PROVE FormIsOwn'
      OBVIOUS
    <2>1. CASE UNCHANGED window
      BY <2>1 DEF window, FormIsOwn
    <2>2. ASSUME NEW c \in Coins, Select(c) PROVE FormIsOwn'
      BY <2>2 DEF Select, FormIsOwn
    <2>3. ASSUME NEW p, NEW u, NEW w, Type(p, u, w) PROVE FormIsOwn'
      BY <2>3 DEF Type, FormIsOwn
    <2>4. CASE Relaunch
      BY <2>4 DEF Relaunch, FormIsOwn
    <2> QED
      BY <2>1, <2>2, <2>3, <2>4
      DEF Next, vars, Save, Setup, ToggleEditor, ShowSegment, EditText, SaveText
  <1> QED
    BY <1>1, <1>2, PTL DEF Spec

(* What was saved for a coin comes back when the coin is chosen again,     *)
(* with the button or because the application starts with it.              *)
THEOREM SavedComesBack == Spec => SavedIsShown
  <1>1. ASSUME [Next]_vars, NEW c \in Coins, Misread(c) = {}, coin # c, coin' = c,
               prefs[c] # Nothing
        PROVE  form' = prefs[c]
    <2>1. ASSUME NEW d \in Coins, Select(d) PROVE form' = prefs[c]
      BY <1>1, <2>1 DEF Select, Known
    <2>2. CASE Relaunch
      BY <1>1, <2>2 DEF Relaunch
    <2>3. coin' = coin \/ Relaunch \/ \E d \in Coins : Select(d)
      BY <1>1 DEF Next, vars, window, Type, Save, Setup, ToggleEditor, ShowSegment, EditText,
                  SaveText
    <2> QED
      BY <1>1, <2>1, <2>2, <2>3
  <1>2. [Next]_vars
        => [\A c \in Coins :
              Misread(c) = {} /\ coin # c /\ coin' = c /\ prefs[c] # Nothing
                 => form' = prefs[c]]_vars
    BY <1>1
  <1> QED
    BY <1>2, PTL DEF Spec, SavedIsShown

-----------------------------------------------------------------------------
(* The two copies.  The property is inductive: whoever writes a file says  *)
(* so, and only the setup takes the template's pool.                       *)
Served(c) ==
    maker[c] # "editor" /\ prefs[c] # Nothing /\ prefs[c].user # "" =>
        /\ IsText(file[c].user, prefs[c].user)
        /\ \/ IsText(file[c].pool, prefs[c].pool)
           \/ maker[c] = "template" /\ file[c].pool = TemplatePool

LEMMA SetupServes ==
  ASSUME TypeOK, FileServesPrefs,
         NEW btc \in Accounts,
         NEW ltc \in Accounts,
         NEW wallet \in Names, NEW btcLength \in Lengths, NEW ltcLength \in Lengths,
         Setup(btc, ltc, wallet, wallet, btcLength, ltcLength),
         NEW c \in Coins
  PROVE  Served(c)'
  <1>1. CASE c = "bitcoin"
    BY <1>1 DEF Setup, TypeOK, Served, IsText
  <1>2. CASE c = "scrypt"
    <2>1. /\ prefs'[c] = Account(ltc, wallet)
          /\ file'[c] = ScryptText(ltc, wallet, ltcLength)
          /\ maker'[c] = IF ltcLength = "short" THEN "template" ELSE "form"
      BY <1>2, PoolStoreAssumption DEF Setup, TypeOK
    <2>2. IF ltcLength = "short"
            THEN /\ ScryptText(ltc, wallet, ltcLength).pool = TemplatePool
                 /\ ScryptText(ltc, wallet, ltcLength).user = Account(ltc, wallet).user
            ELSE ScryptText(ltc, wallet, ltcLength) = Account(ltc, wallet)
      BY DEF ScryptText, Account, Accounts, Entry
    <2> QED
      BY <1>2, <2>1, <2>2 DEF Served, IsText
  <1>3. CASE c \notin EditedCoins
    <2>1. prefs'[c] = prefs[c] /\ file'[c] = file[c] /\ maker'[c] = maker[c]
      BY <1>3 DEF Setup, TypeOK, EditedCoins
    <2> QED
      BY <2>1 DEF FileServesPrefs, Served
  <1> QED
    BY <1>1, <1>2, <1>3 DEF EditedCoins

(* The file a miner is started with has the pool and the user that were    *)
(* last saved for its coin, at most without their spaces, in whatever      *)
(* order the windows are used; the pool is the template's only while the   *)
(* last to write was a setup of Scrypt with a short wallet address.        *)
THEOREM FilesServe == Spec => []FileServesPrefs
  <1>1. Init => FileServesPrefs
    BY DEF Init, FileServesPrefs
  <1>2. TypeOK /\ FileServesPrefs /\ [Next]_vars => FileServesPrefs'
    <2> SUFFICES ASSUME TypeOK, FileServesPrefs, [Next]_vars, NEW c \in Coins
                 PROVE  Served(c)'
      BY DEF FileServesPrefs, Served
    <2>1. Served(c)
      BY DEF FileServesPrefs, Served
    <2>2. CASE UNCHANGED <<prefs, file, maker>>
      BY <2>1, <2>2 DEF Served
    <2>3. CASE Save
      <3>1. CASE c = coin
        <4>1. prefs'[c] = form /\ file'[c] = Filled(form)
          BY <2>3, <3>1 DEF Save, TypeOK
        <4>2. form.user # "" => /\ Filled(form).pool = WithoutSpaces(form.pool)
                                /\ Filled(form).user = WithoutSpaces(form.user)
          BY DEF Filled
        <4> QED
          BY <4>1, <4>2 DEF Served, IsText
      <3>2. CASE c # coin
        <4>1. prefs'[c] = prefs[c] /\ file'[c] = file[c] /\ maker'[c] = maker[c]
          BY <2>3, <3>2 DEF Save, TypeOK
        <4> QED
          BY <2>1, <4>1 DEF Served
      <3> QED
        BY <3>1, <3>2
    <2>4. ASSUME NEW btc \in Accounts,
                 NEW ltc \in Accounts,
                 NEW wallet \in Names, NEW btcLength \in Lengths, NEW ltcLength \in Lengths,
                 Setup(btc, ltc, wallet, wallet, btcLength, ltcLength)
          PROVE  Served(c)'
      BY <2>4, SetupServes
    <2>5. CASE SaveText
      <3>1. maker'[c] # "editor" => maker'[c] = maker[c] /\ prefs'[c] = prefs[c] /\ file'[c] = file[c]
        BY <2>5 DEF SaveText, TypeOK
      <3> QED
        BY <2>1, <3>1 DEF Served
    <2> QED
      BY <2>2, <2>3, <2>4, <2>5
      DEF Next, vars, Select, Type, Relaunch, ToggleEditor, ShowSegment, EditText
  <1> QED
    BY <1>1, <1>2, TypeCorrect, PTL DEF Spec
=============================================================================
