---------------------------- MODULE MCPoolStore ----------------------------
(* A small instance of PoolStore: the two coins of the editor and one      *)
(* whose password is misread.  What the user types has spaces in it; the   *)
(* only passwords are none and the wallet address, which the setup takes.  *)
EXTENDS PoolStore

ThreeCoins == {"bitcoin", "scrypt", "glc"}
OnePool    == {"a pool"}
OneName    == {"ann "}
NoPassword == {}

NoSpaces(t) == CASE t = "a pool" -> "apool" [] t = "ann " -> "ann"
Spaceless   == [t \in OnePool \union OneName |-> NoSpaces(t)]
AnyLength  == {"long", "short"}
=============================================================================
