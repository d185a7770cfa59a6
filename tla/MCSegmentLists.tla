--------------------------- MODULE MCSegmentLists ---------------------------
(* An instance of SegmentLists for TLC, and SegmentLayout's theorems on    *)
(* every file of five to seven pages.                                      *)
EXTENDS SegmentLists, TLC

(* The cleaner threads run the same code.                                  *)
Symmetry == Permutations(Cleaners)

Layout == INSTANCE SegmentLayout

ASSUME LayoutAgrees ==
    \A mapped \in 5 * 4096 .. 7 * 4096 + 300 : Layout!Accepted(mapped) =>
        \E n \in 1 .. 10 :
            /\ Layout!Laid(mapped, n)
            /\ Layout!LogSize + n * Layout!SEGMENT_SIZE <= mapped
            /\ n = Layout!Expected(mapped) <=> ~Layout!Disputed(mapped)
            /\ Layout!Threshold(mapped) + 1 + Layout!EMERGENCY_CLEANER_SEGMENT_COUNT <= n
=============================================================================
