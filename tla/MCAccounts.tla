----------------------------- MODULE MCAccounts -----------------------------
(* Instances of Accounts for TLC: one address in two spellings and another, *)
(* wanted by two persons; the seed script has an account for each.          *)
EXTENDS Accounts, TLC

CanonicalSpelling(s) == IF s = "Ann@x" THEN "ann@x" ELSE s

DemoUsers ==
  [s \in Spellings |-> CASE s = "ann@x" -> "Ann" [] s = "bob@x" -> "Bob" [] OTHER -> NULL]
=============================================================================
