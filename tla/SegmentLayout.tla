--------------------------- MODULE SegmentLayout ---------------------------
(***************************************************************************)
(* How many segments a mapped file has: init_log lays them out in a loop   *)
(* with one formula, check_consistency and the cleaners' start condition   *)
(* count them with others.  The sizes are those of the code.  init_log's   *)
(* index is an int, and pmem->size wraps for a file smaller than its       *)
(* header: what is stated here is for files in between.                    *)
(***************************************************************************)
EXTENDS Integers, TLAPS

SEGMENT_SIZE == 4096
LogSize == 128 \* sizeof(log_t)
MIN_LOG_LENGTH == 5 * SEGMENT_SIZE
EMERGENCY_CLEANER_SEGMENT_COUNT == 1

(* pmem->size.  init_pmem refuses smaller files.                           *)
Size(mapped) == mapped - LogSize
Accepted(mapped) == Size(mapped) >= MIN_LOG_LENGTH

(* What a loop for(i = 0; i < bound; i += SEGMENT_SIZE) does n times.      *)
Turns(n, bound) ==
    /\ n \in Nat
    /\ n * SEGMENT_SIZE >= bound
    /\ n = 0 \/ (n - 1) * SEGMENT_SIZE < bound

(* init_log: n segments in all, the emergency ones behind the others.      *)
Laid(mapped, n) ==
    Turns(n - EMERGENCY_CLEANER_SEGMENT_COUNT,
          Size(mapped) - SEGMENT_SIZE * (EMERGENCY_CLEANER_SEGMENT_COUNT + 1))

(* consistent_total_seg_count.  The header is subtracted a second time.    *)
Expected(mapped) == (Size(mapped) - LogSize) \div SEGMENT_SIZE

(* The used segments that a cleaner waits for.                             *)
Threshold(mapped) == (Size(mapped) \div SEGMENT_SIZE) \div 2

(* The files that the two formulas count differently.                      *)
Disputed(mapped) ==
    LogSize < mapped % SEGMENT_SIZE /\ mapped % SEGMENT_SIZE < 2 * LogSize

-----------------------------------------------------------------------------
(* A file is whole pages and a rest.                                       *)
PagesAndRest(mapped, k, r) == k \in Nat /\ r \in 0 .. 4095 /\ mapped = 4096 * k + r

LEMMA Pages ==
    ASSUME NEW mapped \in Nat
    PROVE  \E k, r : PagesAndRest(mapped, k, r)
<1>1. /\ mapped \div 4096 \in Nat /\ mapped % 4096 \in 0 .. 4095
      /\ mapped = 4096 * (mapped \div 4096) + (mapped % 4096)
    BY SMT
<1>2. PagesAndRest(mapped, mapped \div 4096, mapped % 4096)
    BY <1>1, SMT DEF PagesAndRest
<1>3. QED  BY <1>2

Solution(mapped, n, k, r) ==
    /\ PagesAndRest(mapped, k, r)
    /\ (r > 128 => n = k) /\ (r <= 128 => n = k - 1) /\ n >= 4

(* What the loops of init_log amount to.                                   *)
LEMMA SegmentsLaid ==
    ASSUME NEW mapped \in Nat, Accepted(mapped), NEW n \in Int, Laid(mapped, n)
    PROVE  \E k, r : Solution(mapped, n, k, r)
<1>1. PICK k, r : PagesAndRest(mapped, k, r)
    BY Pages
<1>2. /\ mapped >= 20608 /\ n - 1 \in Nat
      /\ (n - 1) * 4096 >= mapped - 8320
      /\ n - 1 = 0 \/ (n - 2) * 4096 < mapped - 8320
    BY SMT DEF Accepted, Laid, Turns, Size, SEGMENT_SIZE, LogSize,
              EMERGENCY_CLEANER_SEGMENT_COUNT, MIN_LOG_LENGTH
<1>3. n >= 4 /\ (n - 2) * 4096 < mapped - 8320
    BY <1>2, SMT
<1>4. (r > 128 => n = k) /\ (r <= 128 => n = k - 1) /\ n >= 4
    BY <1>1, <1>2, <1>3, SMT DEF PagesAndRest
<1>5. Solution(mapped, n, k, r)
    BY <1>1, <1>4 DEF Solution
<1>6. QED  BY <1>5

(* The segments init_log lays out end before the mapped file ends          *)
(* (log.c:36-61), so that no store to a segment leaves the mapping, and    *)
(* there are enough of them for a head, free segments and an emergency     *)
(* segment.                                                                *)
THEOREM SegmentsFit ==
    ASSUME NEW mapped \in Nat, Accepted(mapped), NEW n \in Int, Laid(mapped, n)
    PROVE  LogSize + n * SEGMENT_SIZE <= mapped /\ n >= 4
<1>1. PICK k, r : Solution(mapped, n, k, r)
    BY SegmentsLaid
<1>2. /\ k \in Nat /\ r \in 0 .. 4095 /\ mapped = 4096 * k + r
      /\ (r > 128 => n = k) /\ (r <= 128 => n = k - 1) /\ n >= 4
    BY <1>1 DEF Solution, PagesAndRest
<1>3. QED  BY <1>2, SMT DEF LogSize, SEGMENT_SIZE

(* A fresh heap is accepted by check_consistency (log.c:179-180) exactly   *)
(* if the file's last, incomplete page does not end within the header's    *)
(* size behind the header.                                                 *)
THEOREM FreshHeapAccepted ==
    ASSUME NEW mapped \in Nat, Accepted(mapped), NEW n \in Int, Laid(mapped, n)
    PROVE  n = Expected(mapped) <=> ~Disputed(mapped)
<1>1. PICK k, r : Solution(mapped, n, k, r)
    BY SegmentsLaid
<1>2. /\ k \in Nat /\ r \in 0 .. 4095 /\ mapped = 4096 * k + r
      /\ (r > 128 => n = k) /\ (r <= 128 => n = k - 1) /\ n >= 4
    BY <1>1 DEF Solution, PagesAndRest
<1>3. Disputed(mapped) <=> 128 < r /\ r < 256
    BY <1>2, SMT DEF Disputed, LogSize, SEGMENT_SIZE
<1>4. Expected(mapped) = (IF r >= 256 THEN k ELSE k - 1)
    BY <1>2, SMT DEF Expected, Size, LogSize, SEGMENT_SIZE
<1>5. QED  BY <1>2, <1>3, <1>4, SMT

(* The threads can begin to clean before the client has used up its        *)
(* segments (cleaner.c:165): the threshold leaves at least the head and    *)
(* the emergency segment aside.                                            *)
THEOREM ThresholdReached ==
    ASSUME NEW mapped \in Nat, Accepted(mapped), NEW n \in Int, Laid(mapped, n)
    PROVE  Threshold(mapped) + 1 + EMERGENCY_CLEANER_SEGMENT_COUNT <= n
<1>1. PICK k, r : Solution(mapped, n, k, r)
    BY SegmentsLaid
<1>2. /\ k \in Nat /\ r \in 0 .. 4095 /\ mapped = 4096 * k + r
      /\ (r > 128 => n = k) /\ (r <= 128 => n = k - 1) /\ n >= 4
    BY <1>1 DEF Solution, PagesAndRest
<1>3. (mapped - 128) \div 4096 \in 0 .. k
    BY <1>2, SMT
<1>4. Threshold(mapped) \in Nat /\ 2 * Threshold(mapped) <= k
    BY <1>2, <1>3, SMT DEF Threshold, Size, LogSize, SEGMENT_SIZE
<1>5. QED  BY <1>2, <1>4, SMT DEF EMERGENCY_CLEANER_SEGMENT_COUNT
=============================================================================
