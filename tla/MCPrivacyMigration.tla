------------------------ MODULE MCPrivacyMigration ------------------------
(* Small instances of PrivacyMigration for TLC.                            *)
EXTENDS PrivacyMigration, TLC

KeyCellSymmetry == Permutations(Keys) \cup Permutations(Cells)
=============================================================================
