------------------------------ MODULE MCBackup ------------------------------
EXTENDS Backup, TLC

CONSTANT eolwatch

MCProjectOf == 1 :> eolwatch @@ 2 :> eolwatch @@ 3 :> eolwatch
MCTwo == 1 :> eolwatch @@ 2 :> eolwatch

\* The marker goes last, first, or in between.
MCOrderOf == 1 :> <<"dump", "uploads", "manifest", "COMPLETE">>
          @@ 2 :> <<"COMPLETE", "manifest", "dump", "uploads">>
          @@ 3 :> <<"uploads", "COMPLETE", "manifest", "dump">>
MCOrderOfTwo == [r \in {1, 2} |-> MCOrderOf[r]]
=============================================================================
