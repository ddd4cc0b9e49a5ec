---------------------------- MODULE MCBatchedFree ----------------------------
(* Instances of BatchedFree for TLC.                                       *)
EXTENDS BatchedFree, TLC

CONSTANTS t1, t2, c1, c2, c3, p1, p2, p3

MCSlotOf == t1 :> 0 @@ t2 :> 1
MCSlotOf1 == t1 :> 0
MCOneSlotOf == t1 :> 0 @@ t2 :> 0
MCAllReused == c1 :> "reused" @@ c2 :> "reused"
MCAllReused3 == c1 :> "reused" @@ c2 :> "reused" @@ c3 :> "reused"
MCMixed == c1 :> "reused" @@ c2 :> "small" @@ c3 :> "small"
MCTwoPages == c1 :> p1 @@ c2 :> p2
MCThreePages == c1 :> p1 @@ c2 :> p2 @@ c3 :> p3
MCOnePage == c1 :> p1 @@ c2 :> p1
MCResvOne == "reused" :> 1 @@ "small" :> 1 @@ "large" :> 1
MCResvTwo == "reused" :> 2 @@ "small" :> 1 @@ "large" :> 1
MCNoPrefetch == "reused" :> {1} @@ "small" :> {1} @@ "large" :> {1}
MCPrefetch == "reused" :> {2} @@ "small" :> {2} @@ "large" :> {1}
=============================================================================
