---------------------------- MODULE MCAccounts ----------------------------
EXTENDS Accounts, TLC

(* Two spellings of one address, neither with blanks around it. *)
MCLower == [e \in Emails |-> "ann"]
MCStrip == [e \in Emails |-> e]

Symmetric == Permutations(Keys) \cup Permutations(Handlers)
=============================================================================
