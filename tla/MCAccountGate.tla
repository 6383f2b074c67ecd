--------------------------- MODULE MCAccountGate ---------------------------
(* AccountGate on small instances for TLC.  The first has three connections *)
(* on one account of a forge, and between them one on another forge, where  *)
(* the same logins are other accounts; the second has a pair on one account *)
(* and one on another of the same forge.                                    *)
EXTENDS AccountGate

CONSTANTS forge1, forge2, me, you, them

FourForges == <<forge1, forge1, forge2, forge1>>
FourAccounts == <<me, me, them, me>>

ThreeForges == <<forge1, forge1, forge1>>
ThreeAccounts == <<me, you, me>>
=============================================================================
