------------------------- MODULE MCExtractionWorker -------------------------
(* Small instances of ExtractionWorker for TLC.                            *)
EXTENDS ExtractionWorker, TLC

CONSTANTS w1, w2, g1, g2, dm, fpA, fpB

OneWorker  == {w1}
TwoWorkers == {w1, w2}

(* Every function is defined on the whole id range and cut to Raw.         *)
Ids == 1 .. 5
Cut(f) == [r \in Raw |-> f[r]]

OneConnection  == {1}
TwoConnections == {1, 2}
AllPrimary == Cut([r \in Ids |-> 1])
SecondOnSecondary == Cut([r \in Ids |-> IF r \in {2, 4} THEN 2 ELSE 1])

(* Rows 1, 2 and 3 are exact copies by one author, rows 4 and 5 of another  *)
(* text.                                                                   *)
CopiesAndOther == Cut(1 :> fpA @@ 2 :> fpA @@ 3 :> fpA @@ 4 :> fpB
                      @@ 5 :> fpB)
(* Row 2 is fetched by the other lane, beside the batch of rows 1 and 3.   *)
SplitLanes == Cut([r \in Ids |-> IF r = 2 THEN "backlog" ELSE "fast"])

InOneGroup == Cut([r \in Ids |-> g1])
TwoChats == Cut([r \in Ids |-> IF r \in {2, 4} THEN g2 ELSE g1])
GroupAndDm == Cut([r \in Ids |-> IF r = 2 THEN dm ELSE g1])

AllListings == Cut([r \in Ids |-> "extract"])
MixedVerdicts == Cut(1 :> "extract" @@ 2 :> "noise" @@ 3 :> "scope"
                     @@ 4 :> "blocked" @@ 5 :> "excluded")
=============================================================================
