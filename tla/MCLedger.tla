------------------------------ MODULE MCLedger ------------------------------
(* The ledger with the hooks of two sessions of one provider.  Provider    *)
(* and session enter every key and every test of the code together, so a   *)
(* second session stands for a second provider as well.                    *)
EXTENDS Ledger, TLC

CONSTANTS codex, s1, s2, t1

MCProviders == {codex}
MCSessions  == {s1, s2}
MCTaskIds   == {t1}

\* Sessions are interchangeable in every action and property.
SessionSymmetry == Permutations(MCSessions)
=============================================================================
