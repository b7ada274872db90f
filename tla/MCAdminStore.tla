---------------------------- MODULE MCAdminStore ----------------------------
(* Instances of AdminStore for TLC.                                        *)
EXTENDS AdminStore, TLC

CONSTANTS Ann, Bob, RowX, RowY
Both == {Ann, Bob}
TwoRows == {RowX, RowY}
AllDocuments == {"models", "commands", "policy", "credentials"}
AllStores == {"blob", "file"}
TwoAdmins == Permutations(Both)
=============================================================================
