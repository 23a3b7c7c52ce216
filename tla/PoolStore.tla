----------------------------- MODULE PoolStore -----------------------------
(***************************************************************************)
(* Where MacMiner keeps the pools to mine at: twice.  The preferences hold *)
(* what the pool window shows, and one configuration file per coin holds   *)
(* what the miners are started with.  Three windows write them: the pool   *)
(* window (preferencesViewController: popUpButtonChanged:, savePool:), the *)
(* setup window (autoConfigViewViewController: writeFile) and the editor   *)
(* of the first two files (bfgConfigFileViewController).                   *)
(*                                                                         *)
(* Everything runs on the main thread; the windows are open side by side,  *)
(* so their actions interleave.                                            *)
(***************************************************************************)
EXTENDS Naturals

CONSTANTS
    Coins,        \* entries of the coin menu in play
    Pools,        \* pool addresses a user may type
    Names,        \* user names and wallet addresses a user may type
    Passwords,    \* passwords a user may type
    Stripped,     \* of the texts with spaces, what is left without them
    Lengths       \* "long" and "short": wallet addresses given to the setup

ASSUME PoolStoreAssumption ==
    /\ {"bitcoin", "scrypt"} \subseteq Coins
    /\ Lengths \subseteq {"long", "short"}
    /\ "" \notin Names
    /\ DOMAIN Stripped \subseteq Pools \union Names \union Passwords

VARIABLES
    coin,      \* popUpCoin
    form,      \* poolComboBox, userNameField, passwordField
    owner,     \* the coin whose user name and password the form shows: history
    prefs,     \* per coin, its three entries in the user's defaults
    file,      \* per coin, its configuration file
    editor,    \* the editor: is it open, which segment, which text
    maker      \* per coin, what wrote its file last: history

window == <<coin, form, owner>>
vars   == <<window, prefs, file, editor, maker>>

(* The pool of the template files, and the words that stand for the user   *)
(* and the password in them.                                               *)
TemplatePool == "http://pool.fabulouspanda.co.uk"

Entry(pools, users, passwords) == [pool : pools, user : users, pass : passwords]

(* A wallet address serves as a password too.                              *)
FormPools     == Pools \union {"", "suggested", TemplatePool}
FormPasswords == Names \union Passwords \union {""}

Forms == Entry(FormPools, Names \union {""}, FormPasswords)

(* stringByReplacingOccurrencesOfString:@" " withString:@"", which savePool:*)
(* does to each field on its way to the file, and only there.              *)
WithoutSpaces(text) == IF text \in DOMAIN Stripped THEN Stripped[text] ELSE text

Stored(texts) == texts \union {WithoutSpaces(t) : t \in texts}

Contents == Entry(Stored(FormPools), Stored(Names \union {""}), Stored(FormPasswords) \union {"pass1"})

(* Nothing was saved, there is no file, and the file is empty.             *)
Nothing == [pool |-> "nil", user |-> "nil", pass |-> "nil"]
Missing == [pool |-> "missing", user |-> "missing", pass |-> "missing"]
Blank   == [pool |-> "blank", user |-> "blank", pass |-> "blank"]

NewForm == [pool |-> "suggested", user |-> "", pass |-> ""]

(* The coins for which the pool window knows a pool to suggest.            *)
Suggesting == {"bitcoin", "scrypt", "vertcoin", "quarkcoin", "maxcoin"}

(* The entries that are read under another name than they are saved: of    *)
(* "credits" all of them, of "xmrlight" and "glc" the password.            *)
Misread(c) ==
    CASE c = "credits"               -> {"pool", "user", "pass"}
      [] c \in {"xmrlight", "glc"}   -> {"pass"}
      [] OTHER                       -> {}

(* The segments of the editor.                                             *)
EditedCoins == {"bitcoin", "scrypt"}

(* A file is from the form of one of the windows, from the template that   *)
(* the setup takes for a short Scrypt address, or from the editor.         *)
Makers == {"form", "template", "editor"}

TypeOK ==
    /\ coin \in Coins
    /\ form \in Forms
    /\ owner \in Coins
    /\ prefs \in [Coins -> Forms \union {Nothing}]
    /\ file \in [Coins -> Contents \union {Missing, Blank}]
    /\ editor \in [open : BOOLEAN, segment : EditedCoins, text : Contents \union {Blank}]
    /\ maker \in [Coins -> Makers]

Init ==
    /\ coin = "bitcoin"
    /\ form = NewForm
    /\ owner = "bitcoin"
    /\ prefs = [c \in Coins |-> Nothing]
    /\ file = [c \in Coins |-> Missing]
    /\ editor = [open |-> FALSE, segment |-> "bitcoin", text |-> Blank]
    /\ maker = [c \in Coins |-> "form"]

-----------------------------------------------------------------------------
(* The pool window.                                                        *)

(* The pool the form shows before the saved one is looked up.              *)
Suggested(c) == IF c \in Suggesting THEN "suggested" ELSE form.pool

(* The coin has a pool among the preferences, as far as the window reads.  *)
Known(c) == prefs[c] # Nothing /\ "pool" \notin Misread(c)

(* Slips: entries that are not there are taken for texts, the suggestion   *)
(* is put over the saved pool, or the fields are not cleared for a coin    *)
(* that was never saved.                                                   *)
SelectUnchecked(c) ==
    /\ c # coin
    /\ coin' = c
    /\ form' = IF Known(c) THEN [prefs[c] EXCEPT !.pass = IF "pass" \in Misread(c) THEN "nil" ELSE @]
                           ELSE [pool |-> Suggested(c), user |-> "", pass |-> ""]
    /\ owner' = c
    /\ UNCHANGED <<prefs, file, editor, maker>>

SelectSuggestsLast(c) ==
    /\ c # coin
    /\ coin' = c
    /\ form' = IF Known(c) THEN [prefs[c] EXCEPT !.pool = Suggested(c)]
                           ELSE [pool |-> Suggested(c), user |-> "", pass |-> ""]
    /\ owner' = c
    /\ UNCHANGED <<prefs, file, editor, maker>>

SelectKeepsFields(c) ==
    /\ c # coin
    /\ coin' = c
    /\ \/ Known(c) /\ form' = prefs[c] /\ owner' = c
       \/ ~ Known(c) /\ form' = [form EXCEPT !.pool = Suggested(c)] /\ UNCHANGED owner
    /\ UNCHANGED <<prefs, file, editor, maker>>

(* popUpButtonChanged: a coin that was saved fills the three fields, but   *)
(* only with all of its entries; one that was not saved clears the user    *)
(* and the password.                                                       *)
Select(c) ==
    /\ c # coin
    /\ coin' = c
    /\ \/ /\ Known(c) /\ Misread(c) = {}
          /\ form' = prefs[c]
          /\ owner' = c
       \/ /\ Known(c) /\ Misread(c) # {}
          /\ form' = [form EXCEPT !.pool = Suggested(c)]
          /\ UNCHANGED owner
       \/ /\ ~ Known(c)
          /\ form' = [pool |-> Suggested(c), user |-> "", pass |-> ""]
          /\ owner' = c
    /\ UNCHANGED <<prefs, file, editor, maker>>

(* The user fills in the form.                                             *)
Type(p, u, w) ==
    /\ form' = [pool |-> p, user |-> u, pass |-> w]
    /\ owner' = coin
    /\ UNCHANGED <<coin, prefs, file, editor, maker>>

(* The text savePool: writes: the template with the form filled in, each   *)
(* field without its spaces, and nothing at all without a user name.  The  *)
(* tests are of the fields as they were typed.                             *)
Filled(entry) ==
    IF entry.user = ""
      THEN Blank
      ELSE [pool |-> WithoutSpaces(entry.pool),
            user |-> WithoutSpaces(entry.user),
            pass |-> IF entry.pass = "" THEN "pass1" ELSE WithoutSpaces(entry.pass)]

(* A slip: the file of a coin that has one is left alone.                  *)
SaveOnce ==
    /\ prefs' = [prefs EXCEPT ![coin] = form]
    /\ file' = [file EXCEPT ![coin] = IF @ = Missing THEN Filled(form) ELSE @]
    /\ maker' = [maker EXCEPT ![coin] = "form"]
    /\ UNCHANGED <<window, editor>>

(* savePool: the entries of the coin as they were typed, and then its file.*)
Save ==
    /\ prefs' = [prefs EXCEPT ![coin] = form]
    /\ file' = [file EXCEPT ![coin] = Filled(form)]
    /\ maker' = [maker EXCEPT ![coin] = "form"]
    /\ UNCHANGED <<window, editor>>

(* awakeFromNib, when the application is started again.  Only the form of  *)
(* the first coin is filled in, and the editor is closed.                  *)
Relaunch ==
    /\ coin' = "bitcoin"
    /\ form' = IF prefs["bitcoin"] = Nothing THEN NewForm ELSE prefs["bitcoin"]
    /\ owner' = "bitcoin"
    /\ editor' = [open |-> FALSE, segment |-> "bitcoin", text |-> Blank]
    /\ UNCHANGED <<prefs, file, maker>>

-----------------------------------------------------------------------------
(* The setup window.                                                       *)

(* The account that the user enters for a coin.                            *)
Accounts == Entry(Pools \union {TemplatePool}, Names, Passwords \union {""})

(* What the setup knows of a coin: with the author's own pool the wallet   *)
(* address is the user, elsewhere the user has an account.                 *)
Account(entry, wallet) ==
    IF entry.pool = TemplatePool
      THEN [pool |-> TemplatePool, user |-> wallet, pass |-> wallet]
      ELSE entry

(* For Bitcoin with a short address the account is taken in any case.      *)
BitcoinAccount(entry, wallet, length) ==
    IF length = "short" THEN entry ELSE Account(entry, wallet)

(* For Scrypt with a short address the text is made from another template, *)
(* in which the pool is not filled in.                                     *)
ScryptText(entry, wallet, length) ==
    IF length = "short"
      THEN [Account(entry, wallet) EXCEPT !.pool = TemplatePool]
      ELSE Account(entry, wallet)

(* saveAndStart: with writeFile: the entries and the files of both coins,  *)
(* spaces and all.                                                         *)
Setup(btc, ltc, btcWallet, ltcWallet, btcLength, ltcLength) ==
    LET bitcoin == BitcoinAccount(btc, btcWallet, btcLength)
    IN  /\ prefs' = [prefs EXCEPT !["bitcoin"] = bitcoin, !["scrypt"] = Account(ltc, ltcWallet)]
        /\ file' = [file EXCEPT !["bitcoin"] = bitcoin,
                                !["scrypt"] = ScryptText(ltc, ltcWallet, ltcLength)]
        /\ maker' = [maker EXCEPT !["bitcoin"] = "form",
                                  !["scrypt"] = IF ltcLength = "short" THEN "template" ELSE "form"]
        /\ UNCHANGED <<window, editor>>

-----------------------------------------------------------------------------
(* The editor.                                                             *)

(* The text of a file is put into the editor.  Without a file that raises, *)
(* and the text of the other segment stays.                                *)
Loaded(c) == IF file[c] = Missing THEN editor.text ELSE file[c]

(* bfgConfigEditToggled:                                                   *)
ToggleEditor ==
    /\ editor' = IF editor.open
                   THEN [editor EXCEPT !.open = FALSE]
                   ELSE [editor EXCEPT !.open = TRUE, !.text = Loaded(editor.segment)]
    /\ UNCHANGED <<window, prefs, file, maker>>

(* bfgLTCConfigGetText: for a segment, bfgConfigGetText: to revert.        *)
ShowSegment(c) ==
    /\ editor.open
    /\ editor' = [editor EXCEPT !.segment = c, !.text = Loaded(c)]
    /\ UNCHANGED <<window, prefs, file, maker>>

EditText(text) ==
    /\ editor.open
    /\ editor' = [editor EXCEPT !.text = text]
    /\ UNCHANGED <<window, prefs, file, maker>>

(* bfgConfigSaveText: writes whatever it shows, over whatever is there.    *)
(* Before the first save there is no directory to write into.              *)
SaveText ==
    /\ editor.open
    /\ \E c \in Coins : file[c] # Missing
    /\ file' = [file EXCEPT ![editor.segment] = editor.text]
    /\ maker' = [maker EXCEPT ![editor.segment] = "editor"]
    /\ UNCHANGED <<window, prefs, editor>>

-----------------------------------------------------------------------------
Next ==
    \/ \E c \in Coins : Select(c)
    \/ \E p \in Pools, u \in Names \union {""}, w \in Passwords \union {""} : Type(p, u, w)
    \/ Save
    \/ Relaunch
    \/ \E btc, ltc \in Accounts, wallet \in Names : \E btcLength, ltcLength \in Lengths :
          Setup(btc, ltc, wallet, wallet, btcLength, ltcLength)
    \/ ToggleEditor
    \/ \E c \in EditedCoins : ShowSegment(c)
    \/ \E text \in Entry(Pools, Names, Passwords \union {""}) : EditText(text)
    \/ SaveText

Spec == Init /\ [][Next]_vars

-----------------------------------------------------------------------------
(* Properties.                                                             *)

(* What was saved for a coin in either window is what its miner is started *)
(* with: the pool and the user of the file are those of the preferences,   *)
(* or those without their spaces (preferencesViewController.m:1299-1302),  *)
(* until the file itself is edited or saved without a user.                *)
(* autoConfigViewViewController.m:439: "Your configuration has been        *)
(* saved."  Only after a setup of Scrypt with a short wallet address, and  *)
(* until the next save, the pool of the file is the template's (405).      *)
IsText(stored, typed) == stored \in {typed, WithoutSpaces(typed)}

FileServesPrefs ==
    \A c \in Coins :
        maker[c] # "editor" /\ prefs[c] # Nothing /\ prefs[c].user # "" =>
            /\ IsText(file[c].user, prefs[c].user)
            /\ \/ IsText(file[c].pool, prefs[c].pool)
               \/ maker[c] = "template" /\ file[c].pool = TemplatePool

(* The user name and the password in the form are those of the selected    *)
(* coin, so that saving never stores one coin's account for another        *)
(* (preferencesViewController.m:352-367), unless the coin is misread.      *)
FormIsOwn == Misread(coin) = {} => owner = coin

(* Coming back to a coin shows what was saved for it, whatever was shown,  *)
(* typed or saved since.  preferencesViewController.m:2925: "Your pool has *)
(* been saved."                                                            *)
SavedIsShown ==
    [][\A c \in Coins :
          Misread(c) = {} /\ coin # c /\ coin' = c /\ prefs[c] # Nothing => form' = prefs[c]]_vars
=============================================================================
