--------------------------- MODULE FileTaskProofs ---------------------------
(***************************************************************************)
(* Theorems about FileTask, for every length of the file, every set of     *)
(* lengths HEAD may tell, and every number of threads and attempts.        *)
(***************************************************************************)
EXTENDS FileTask, TLAPS

-----------------------------------------------------------------------------
(* The layout, as ResumeProofs has it.                                     *)

LEMMA Times == \A a, b, q \in Nat : (a + b) * q = a * q + b * q /\ a * q \in Nat
OBVIOUS

LEMMA Divided ==
  ASSUME NEW p \in Nat, NEW q \in Nat \ {0}
  PROVE  \E d \in Nat : d * q <= p /\ p < d * q + q
<1>1. p \div q \in Nat /\ (p \div q) * q <= p /\ p < (p \div q) * q + q
  OBVIOUS
<1> QED BY <1>1

LEMMA PartLenType ==
  ASSUME NEW len \in Nat \ {0}, NEW n \in Nat \ {0}, NEW i \in 1..n
  PROVE  /\ PartStart(i, n, len) \in Nat /\ PartLen(i, n, len) \in Nat
         /\ PartStart(i, n, len) + PartLen(i, n, len) <= len
<1> DEFINE q == len \div n
<1>1. q \in Nat /\ n * q <= len
  OBVIOUS
<1>2. PICK a \in Nat : i = a + 1
  <2>1. i - 1 \in Nat /\ i = (i - 1) + 1
    OBVIOUS
  <2> QED BY <2>1
<1>3. PICK b \in Nat : n = i + b
  <2>1. n - i \in Nat /\ n = i + (n - i)
    OBVIOUS
  <2> QED BY <2>1
<1>4. a * q \in Nat /\ b * q \in Nat
  BY <1>1
<1>5. (i - 1) * q = a * q /\ i * q = a * q + q /\ n * q = i * q + b * q
  BY <1>1, <1>2, <1>3
<1> HIDE DEF q
<1> QED
  <2>1. PartStart(i, n, len) = a * q
    BY <1>5 DEF PartStart, q
  <2>2. PartEnd(i, n, len) = IF i < n THEN i * q ELSE len
    BY DEF PartEnd, q
  <2> QED BY <1>1, <1>4, <1>5, <2>1, <2>2 DEF PartLen

(* Every place of the file is in one of its parts.                         *)
LEMMA PartsCover ==
  ASSUME NEW len \in Nat \ {0}, NEW n \in Nat \ {0}, NEW p \in 0..(len - 1)
  PROVE  \E i \in 1..n : \E k \in Nat :
           k < PartLen(i, n, len) /\ p = PartStart(i, n, len) + k
<1> DEFINE q == len \div n
<1>1. q \in Nat /\ n * q <= len
  OBVIOUS
<1>2. PICK m \in Nat : n = m + 1
  <2>1. n - 1 \in Nat /\ n = (n - 1) + 1
    OBVIOUS
  <2> QED BY <2>1
<1>3. \A i \in 1..n : /\ PartStart(i, n, len) = (i - 1) * q
                       /\ PartEnd(i, n, len) = IF i < n THEN i * q ELSE len
  BY DEF PartStart, PartEnd
<1> HIDE DEF q
<1>4. m * q \in Nat
  BY <1>1, Times
<1>5. CASE p >= m * q
  <2>1. n \in 1..n /\ n - 1 = m
    BY <1>2
  <2>2. PartStart(n, n, len) = m * q /\ PartLen(n, n, len) = len - m * q
    BY <1>3, <2>1 DEF PartLen
  <2>3. p - m * q \in Nat /\ p - m * q < len - m * q /\ p = m * q + (p - m * q)
    BY <1>4, <1>5
  <2> QED BY <2>1, <2>2, <2>3
<1>6. CASE p < m * q
  <2>1. q > 0
    <3>1. q = 0 => m * q = 0
      BY <1>2
    <3> QED BY <1>1, <1>6, <3>1
  <2>2. PICK d \in Nat : d * q <= p /\ p < d * q + q
    <3>1. p \in Nat /\ q \in Nat \ {0}
      BY <1>1, <2>1
    <3> QED BY <3>1, Divided
  <2>3. d * q \in Nat /\ (d + 1) * q = d * q + 1 * q /\ 1 * q = q
    BY <1>1, Times
  <2>4. d < m
    <3> SUFFICES ASSUME d >= m PROVE FALSE
      BY <1>2
    <3>1. PICK e \in Nat : d = m + e
      <4>1. d - m \in Nat /\ d = m + (d - m)
        BY <1>2
      <4> QED BY <4>1
    <3>2. d * q = m * q + e * q /\ e * q \in Nat
      BY <1>1, <1>2, <3>1, Times
    <3> QED BY <1>4, <1>6, <2>2, <2>3, <3>2
  <2>5. d + 1 \in 1..n /\ d + 1 < n /\ (d + 1) - 1 = d
    BY <1>2, <2>4
  <2>6. PartStart(d + 1, n, len) = d * q /\ PartLen(d + 1, n, len) = q
    BY <1>1, <1>3, <2>3, <2>5 DEF PartLen
  <2>7. p - d * q \in Nat /\ p - d * q < q /\ p = d * q + (p - d * q)
    BY <1>1, <2>2, <2>3
  <2> QED BY <2>5, <2>6, <2>7
<1> QED BY <1>4, <1>5, <1>6

(* File_Init makes at least one part, and no part is empty.                *)
LEMMA PartsBound ==
  ASSUME NEW len \in Nat \ {0}, NEW range \in BOOLEAN
  PROVE  LET n == Parts(ThreadNum, range, len, MinPart)
         IN n \in 1..ThreadNum /\ n <= len
<1> DEFINE q == len \div MinPart
<1>1. q \in Nat /\ q <= len
  <2>1. q \in Nat /\ q * MinPart <= len
    BY FileTaskAssumption
  <2>2. PICK m \in Nat : MinPart = m + 1
    <3>1. MinPart - 1 \in Nat /\ MinPart = (MinPart - 1) + 1
      BY FileTaskAssumption
    <3> QED BY <3>1
  <2> HIDE DEF q
  <2>3. q * MinPart = q * m + q /\ q * m \in Nat
    BY <2>1, <2>2
  <2> QED BY <2>1, <2>2, <2>3
<1>2. Parts(ThreadNum, range, len, MinPart)
        = Smaller(IF range THEN ThreadNum ELSE 1, Larger(1, q))
  BY DEF Parts
<1> HIDE DEF q
<1> QED BY <1>1, <1>2, FileTaskAssumption DEF Smaller, Larger

-----------------------------------------------------------------------------
(* The invariant.                                                          *)

(* Where the thread stands before there is a list of chunks, and with one. *)
Probing    == {"enter", "init", "head", "range", "fallback"}
BeforeList == Probing \cup {"check", "layout", "initfailed"}
WithList   == {"begin", "spawn", "decide", "verify", "done"}

(* The list is there from File_Init on, and its parts are not empty.       *)
Listed ==
  /\ main \in BeforeList => m_thread_num = 0 /\ wrong = {}
  /\ main \in WithList => m_thread_num > 0 /\ file
  /\ m_thread_num <= m_fileLen

(* The last word on the length is said once.                               *)
LengthTold ==
  /\ main \in Probing => m_fileLen = 0
  /\ main \in {"check", "layout"} => m_fileLen > 0
  /\ told = "range" => m_fileLen = Body /\ main \notin Probing

(* A thread runs for a chunk RunChunks has come to, and while it waits;    *)
(* between its requests nothing is known of one.                           *)
Threads ==
  \A c \in Slots :
    /\ at[c] \in {"check", "perform"} => main = "spawn" /\ c \in Chunks /\ c < cur
    /\ at[c] # "perform" => http[c] = 0 /\ asked[c] = 0 /\ got[c] = 0

(* A body is no longer than the file the server has; one that was asked    *)
(* for as a range is read in step with its chunk.                          *)
InStep ==
  \A c \in Slots :
    /\ got[c] <= Body
    /\ m_range_supported /\ at[c] = "perform" => asked[c] + got[c] = offset[c]

Placed == m_range_supported => wrong = {}

AllFull == main \in {"verify", "done"} => \A c \in Chunks : Full(c)

(* A stop that keeps the file has saved how far it came, if anywhere.      *)
Kept ==
  main \in {"begin", "failed", "canceled"} /\ m_thread_num > 0 /\ m_range_supported =>
    /\ file
    /\ meta = "none" => \A c \in Chunks : offset[c] = 0

IInv ==
  /\ TypeOK /\ Listed /\ LengthTold /\ Threads
  /\ InStep /\ Placed /\ AllFull /\ Kept

-----------------------------------------------------------------------------
(* The steps.                                                              *)

LEMMA InitIInv == Init => IInv
<1> SUFFICES ASSUME Init PROVE IInv
  OBVIOUS
<1> USE FileTaskAssumption, ProbeAssumption DEF Init, ProbeInit
<1>1. TypeOK
  <2>1. ProbeTypeOK
    BY DEF ProbeTypeOK, Answers, NoHead
  <2>2. m_thread_num \in 0..ThreadNum /\ cur \in 1..(ThreadNum + 1) /\ Chunks = {}
    BY DEF Chunks
  <2>3. Zeros \in [Slots -> Nat] /\ Zeros \in [Slots -> 0..(MaxRetry - 1)]
        /\ Zeros \in [Slots -> 0..Larger(Body, m_fileLen)] /\ Zeros \in [Slots -> {0, 200, 206, 404}]
    BY DEF Zeros, Larger
  <2>4. at \in [Slots -> {"none", "check", "perform", "over"}]
    OBVIOUS
  <2> QED BY <2>1, <2>2, <2>3, <2>4 DEF TypeOK
<1> USE DEF ProbeTypeOK, Zeros, Slots, Chunks, Larger, Probing, BeforeList, WithList, NoHead,
            Answers, Full
<1>2. Listed
  BY DEF Listed
<1>3. LengthTold
  BY DEF LengthTold
<1>4. Threads
  BY DEF Threads
<1>5. InStep
  BY DEF InStep
<1>6. Placed
  BY DEF Placed
<1>7. AllFull
  BY DEF AllFull
<1>8. Kept
  BY DEF Kept
<1> QED BY <1>1, <1>2, <1>3, <1>4, <1>5, <1>6, <1>7, <1>8 DEF IInv

(* The probe writes nothing: what it changes is what it knows.             *)
LEMMA ProbeStep ==
  IInv /\ ProbeNext /\ UNCHANGED <<canceled, listVars, range_denied, diskVars>> => IInv'
<1> SUFFICES ASSUME IInv, ProbeNext, UNCHANGED <<canceled, listVars, range_denied, diskVars>>
             PROVE  IInv'
  OBVIOUS
<1> USE ProbeAssumption, FileTaskAssumption
<1> USE DEF IInv, Chunks, Probing, BeforeList, WithList, Known, listVars, chunkVars, requestVars, diskVars
<1>1. /\ main \in BeforeList /\ m_thread_num = 0 /\ Chunks' = {}
      /\ \A c \in Slots : at[c] \notin {"check", "perform"}
  BY DEF Listed, Threads, ProbeNext, BeginProbe, ProbeCanceled, HeadProbe, RangeConfirms,
         RangeUnclear, UseCandidate, NoLength, CheckRangeSupport
<1>2. InStep' /\ Placed' /\ Kept'
  BY <1>1 DEF InStep, Placed, Kept, Listed, Threads
<1> USE DEF TypeOK, ProbeTypeOK, Answers, NoHead
<1>3. CASE BeginProbe
  <2>1. ProbeTypeOK' /\ Listed' /\ LengthTold'
    BY <1>3 DEF BeginProbe, Listed, LengthTold
  <2>2. TypeOK'
    BY <1>1, <1>3, <2>1 DEF BeginProbe, Larger, LengthTold
  <2>3. Threads' /\ AllFull'
    BY <1>1, <1>3 DEF BeginProbe, Threads, AllFull
  <2> QED BY <1>2, <2>1, <2>2, <2>3
<1>4. CASE ProbeCanceled
  <2>1. ProbeTypeOK' /\ Listed' /\ LengthTold'
    BY <1>4 DEF ProbeCanceled, Listed, LengthTold
  <2>2. TypeOK'
    BY <1>1, <1>4, <2>1 DEF ProbeCanceled, Larger, LengthTold
  <2>3. Threads' /\ AllFull'
    BY <1>1, <1>4 DEF ProbeCanceled, Threads, AllFull
  <2> QED BY <1>2, <2>1, <2>2, <2>3
<1>5. ASSUME NEW answer \in Answers \cup {NoHead}, HeadProbe(answer) PROVE IInv'
  <2>1. ProbeTypeOK' /\ Listed' /\ LengthTold'
    BY <1>5 DEF HeadProbe, Listed, LengthTold
  <2>2. TypeOK'
    BY <1>1, <1>5, <2>1 DEF HeadProbe, Larger, LengthTold
  <2>3. Threads' /\ AllFull'
    BY <1>1, <1>5 DEF HeadProbe, Threads, AllFull
  <2> QED BY <1>2, <2>1, <2>2, <2>3
<1>6. CASE RangeConfirms
  <2>1. ProbeTypeOK' /\ Listed' /\ LengthTold'
    BY <1>6 DEF RangeConfirms, Listed, LengthTold
  <2>2. TypeOK'
    BY <1>1, <1>6, <2>1 DEF RangeConfirms, Larger, LengthTold
  <2>3. Threads' /\ AllFull'
    BY <1>1, <1>6 DEF RangeConfirms, Threads, AllFull
  <2> QED BY <1>2, <2>1, <2>2, <2>3
<1>7. CASE RangeUnclear
  <2>1. ProbeTypeOK' /\ Listed' /\ LengthTold'
    BY <1>7 DEF RangeUnclear, Listed, LengthTold
  <2>2. TypeOK'
    BY <1>1, <1>7, <2>1 DEF RangeUnclear, Larger, LengthTold
  <2>3. Threads' /\ AllFull'
    BY <1>1, <1>7 DEF RangeUnclear, Threads, AllFull
  <2> QED BY <1>2, <2>1, <2>2, <2>3
<1>8. CASE UseCandidate
  <2>1. ProbeTypeOK' /\ Listed' /\ LengthTold'
    BY <1>8 DEF UseCandidate, Listed, LengthTold
  <2>2. TypeOK'
    BY <1>1, <1>8, <2>1 DEF UseCandidate, Larger, LengthTold
  <2>3. Threads' /\ AllFull'
    BY <1>1, <1>8 DEF UseCandidate, Threads, AllFull
  <2> QED BY <1>2, <2>1, <2>2, <2>3
<1>9. CASE NoLength
  <2>1. ProbeTypeOK' /\ Listed' /\ LengthTold'
    BY <1>9 DEF NoLength, Listed, LengthTold
  <2>2. TypeOK'
    BY <1>1, <1>9, <2>1 DEF NoLength, Larger, LengthTold
  <2>3. Threads' /\ AllFull'
    BY <1>1, <1>9 DEF NoLength, Threads, AllFull
  <2> QED BY <1>2, <2>1, <2>2, <2>3
<1>10. ASSUME NEW got206 \in BOOLEAN, CheckRangeSupport(got206) PROVE IInv'
  <2>1. ProbeTypeOK' /\ Listed' /\ LengthTold'
    BY <1>10 DEF CheckRangeSupport, Listed, LengthTold
  <2>2. TypeOK'
    BY <1>1, <1>10, <2>1 DEF CheckRangeSupport, Larger, LengthTold
  <2>3. Threads' /\ AllFull'
    BY <1>1, <1>10 DEF CheckRangeSupport, Threads, AllFull
  <2> QED BY <1>2, <2>1, <2>2, <2>3
<1> QED BY <1>3, <1>4, <1>5, <1>6, <1>7, <1>8, <1>9, <1>10 DEF ProbeNext

LEMMA MainStep ==
  ASSUME IInv,
         \/ EnterTask \/ FileInitFails \/ BeginDownload
         \/ SkipChunk \/ SpawnFails \/ Join \/ DownloadComplete \/ DownloadIncomplete
         \/ \E bVerifySha256 \in BOOLEAN : ReportDone(bVerifySha256)
         \/ ReportInitFailed \/ ReportCanceled
         \/ \E deletePartial \in BOOLEAN : ReportFailed(deletePartial)
         \/ Cancel /\ ~Returned
  PROVE  IInv'
<1> USE DEF IInv, EnterTask, FileInitFails, BeginDownload, SkipChunk, SpawnFails, Join,
  DownloadComplete, DownloadIncomplete, ReportDone, ReportInitFailed, ReportCanceled,
  ReportFailed, Cancel, NextChunk, probeOnly, over, listVars, chunkVars, requestVars,
  Known, diskVars
<1>1. UNCHANGED <<m_fileLen, m_range_supported, m_range_known, told, candidate, m_thread_num,
                  offset, success, at, attempt, http, asked, got, wrong, download_len, range_denied>>
  OBVIOUS
<1>2. TypeOK'
  <2>1. ProbeTypeOK'
    <3>1. ProbeTypeOK
      BY DEF TypeOK
    <3>2. m_cancel' \in {m_cancel, TRUE}
      OBVIOUS
    <3> HIDE DEF IInv, EnterTask, FileInitFails, BeginDownload, SkipChunk, SpawnFails, Join,
      DownloadComplete, DownloadIncomplete, ReportDone, ReportInitFailed, ReportCanceled,
      ReportFailed, Cancel
    <3> QED BY <1>1, <3>1, <3>2 DEF ProbeTypeOK
  <2>2. cur' \in 1..(ThreadNum + 1)
    <3>1. cur \in Chunks => cur + 1 \in 1..(ThreadNum + 1)
      BY FileTaskAssumption DEF TypeOK, Chunks
    <3>2. cur' = cur \/ (cur \in Chunks /\ cur' = cur + 1)
      OBVIOUS
    <3> QED BY <3>1, <3>2 DEF TypeOK
  <2>3. canceled' \in BOOLEAN /\ file' \in BOOLEAN /\ meta' \in {"none", "earlier", "saved"}
    BY DEF TypeOK
  <2>4. main' \in {"enter", "init", "head", "range", "fallback", "check", "layout",
               "initfailed", "begin", "spawn", "decide", "verify", "failed",
               "done", "error", "canceled"}
    BY DEF TypeOK
  <2> QED BY <1>1, <2>1, <2>2, <2>3, <2>4 DEF TypeOK, Chunks, Size
<1>3. Listed' /\ LengthTold'
  BY <1>1 DEF Listed, LengthTold, BeforeList, Probing, WithList
<1>4. Threads'
  <2>1. main' # main => \A c \in Slots : at[c] \notin {"check", "perform"}
    BY DEF Threads, Joined
  <2>2. \A c \in Slots : c < cur => c < cur'
    <3>1. cur' = cur \/ cur' = cur + 1
      OBVIOUS
    <3>2. cur \in Nat
      BY FileTaskAssumption DEF TypeOK
    <3> HIDE DEF IInv
    <3> QED BY <3>1, <3>2, FileTaskAssumption DEF Slots
  <2> QED BY <1>1, <2>1, <2>2 DEF Threads, Chunks
<1>5. InStep' /\ Placed'
  BY <1>1 DEF InStep, Placed
<1>6. AllFull'
  BY <1>1 DEF AllFull, Chunks, Full, Size, Verified
<1>7. Kept'
  <2>1. main' \in {"begin", "failed", "canceled"} /\ main' # main =>
          \/ main = "enter" \/ main = "begin" \/ main = "failed" \/ (main = "decide" /\ meta' = "saved")
    OBVIOUS
  <2>2. main' \in {"begin", "failed", "canceled"} => file' = file
    OBVIOUS
  <2>3. main' \in {"begin", "failed", "canceled"} => meta' = meta \/ meta' = "saved"
    OBVIOUS
  <2> QED BY <1>1, <2>1, <2>2, <2>3 DEF Kept, Chunks, Listed, WithList, BeforeList, Probing
<1> QED BY <1>2, <1>3, <1>4, <1>5, <1>6, <1>7

(* A new list: whatever it resumes from, no part has more than its length. *)
LEMMA NewList ==
  ASSUME TypeOK, NEW n \in 1..ThreadNum, n <= m_fileLen, NEW w \in [Slots -> Nat], MakeList(n, w),
         \A c \in 1..n : w[c] <= PartLen(c, n, m_fileLen),
         \A c \in Slots \ (1..n) : w[c] = 0
  PROVE  /\ offset' \in [Slots -> Nat] /\ \A c \in 1..n : offset'[c] <= PartLen(c, n, m_fileLen)
         /\ success' \in SUBSET Slots /\ attempt' \in [Slots -> 0..(MaxRetry - 1)]
         /\ download_len' \in [Slots -> 0..Larger(Body, m_fileLen)]
         /\ wrong' = {} /\ m_thread_num' = n /\ cur' = 1 /\ at' = [c \in Slots |-> "none"]
         /\ UNCHANGED requestVars
<1> USE DEF MakeList
<1>1. m_fileLen \in Nat /\ Body \in Nat
  BY ProbeAssumption DEF TypeOK, ProbeTypeOK
<1>2. \A c \in Slots : w[c] <= m_fileLen
  <2>1. ASSUME NEW c \in 1..n PROVE w[c] <= m_fileLen
    <3>1. PartStart(c, n, m_fileLen) \in Nat /\ PartLen(c, n, m_fileLen) \in Nat
          /\ PartStart(c, n, m_fileLen) + PartLen(c, n, m_fileLen) <= m_fileLen
      BY <1>1, PartLenType
    <3> QED BY <1>1, <2>1, <3>1, FileTaskAssumption DEF Slots
  <2> QED BY <1>1, <2>1
<1>3. \A c \in Slots : w[c] \in 0..Larger(Body, m_fileLen)
  BY <1>1, <1>2 DEF Larger
<1>4. attempt' \in [Slots -> 0..(MaxRetry - 1)]
  BY FileTaskAssumption DEF Zeros
<1>5. success' \in SUBSET Slots
  BY FileTaskAssumption DEF Slots
<1> QED BY <1>3, <1>4, <1>5

LEMMA FileInitStep == IInv /\ FileInit => IInv'
<1> SUFFICES ASSUME IInv, FileInit PROVE IInv'
  OBVIOUS
<1> USE DEF IInv
<1> DEFINE n == Parts(ThreadNum, m_range_supported, m_fileLen, MinPart)
<1>1. m_fileLen \in Nat \ {0} /\ m_range_supported \in BOOLEAN
  BY ProbeAssumption DEF TypeOK, ProbeTypeOK, LengthTold, FileInit
<1>2. n \in 1..ThreadNum /\ n <= m_fileLen
  BY <1>1, PartsBound
<1>3. /\ main = "layout" /\ main' = "begin" /\ file' = TRUE
      /\ UNCHANGED <<m_fileLen, m_range_supported, m_range_known, told, candidate, m_cancel,
                     canceled, range_denied>>
  BY DEF FileInit, Known
<1>4. PICK w \in [Slots -> Nat] :
        /\ MakeList(n, w)
        /\ \A c \in 1..n : w[c] <= PartLen(c, n, m_fileLen)
        /\ \A c \in Slots \ (1..n) : w[c] = 0
        /\ \/ w = Zeros /\ meta' = "none"
           \/ meta' = "earlier"
  <2>1. CASE MakeList(n, Zeros) /\ meta' = "none"
    <3>1. Zeros \in [Slots -> Nat] /\ \A c \in Slots : Zeros[c] = 0
      BY DEF Zeros
    <3>2. \A c \in 1..n : PartLen(c, n, m_fileLen) \in Nat
      BY <1>1, <1>2, PartLenType
    <3> HIDE DEF n
    <3>3. \A c \in 1..n : Zeros[c] <= PartLen(c, n, m_fileLen)
      BY <1>2, <3>1, <3>2, FileTaskAssumption DEF Slots
    <3> QED BY <2>1, <3>1, <3>3
  <2>2. CASE (\E w \in Written(n) : MakeList(n, w)) /\ meta' = "earlier"
    <3> HIDE DEF n
    <3>1. PICK w \in Written(n) : MakeList(n, w)
      BY <2>2
    <3>2. w \in [Slots -> Nat] /\ \A c \in 1..n : w[c] <= PartLen(c, n, m_fileLen)
      <4>1. w \in [Slots -> 0..m_fileLen] /\ \A c \in Slots : c <= n => w[c] <= PartLen(c, n, m_fileLen)
        BY DEF Written
      <4>2. \A c \in 1..n : c \in Slots /\ c <= n
        BY <1>2, FileTaskAssumption DEF Slots
      <4> QED BY <1>1, <4>1, <4>2
    <3>3. \A c \in Slots \ (1..n) : w[c] = 0
      <4>1. \A c \in Slots : w[c] \in Nat /\ (~(c <= n) => w[c] <= 0)
        BY <1>1, <1>2 DEF Written
      <4> QED BY <4>1, <1>2 DEF Slots
    <3> QED BY <2>2, <3>1, <3>2, <3>3
  <2> QED BY <2>1, <2>2 DEF FileInit
<1> HIDE DEF n
<1>5. /\ offset' \in [Slots -> Nat] /\ \A c \in 1..n : offset'[c] <= PartLen(c, n, m_fileLen)
      /\ success' \in SUBSET Slots /\ attempt' \in [Slots -> 0..(MaxRetry - 1)]
      /\ download_len' \in [Slots -> 0..Larger(Body, m_fileLen)]
      /\ wrong' = {} /\ m_thread_num' = n /\ cur' = 1 /\ at' = [c \in Slots |-> "none"]
      /\ UNCHANGED requestVars
  BY <1>2, <1>4, NewList
<1>6. TypeOK'
  BY <1>2, <1>3, <1>4, <1>5, FileTaskAssumption
  DEF TypeOK, ProbeTypeOK, Chunks, Size, requestVars
<1>7. Listed' /\ LengthTold'
  BY <1>1, <1>2, <1>3, <1>5 DEF Listed, LengthTold, BeforeList, Probing, WithList
<1>8. Threads' /\ InStep'
  BY <1>3, <1>5 DEF Threads, InStep, requestVars
<1>9. Placed' /\ AllFull'
  BY <1>3, <1>5 DEF Placed, AllFull
<1>10. Kept'
  <2>1. w = Zeros => \A c \in 1..n : offset'[c] = 0
    BY <1>2, <1>4, FileTaskAssumption DEF MakeList, Zeros, Slots
  <2> QED BY <1>3, <1>4, <1>5, <2>1 DEF Kept, Chunks
<1> QED BY <1>6, <1>7, <1>8, <1>9, <1>10

LEMMA DegradeStep == IInv /\ Degrade => IInv'
<1> SUFFICES ASSUME IInv, Degrade PROVE IInv'
  OBVIOUS
<1> USE DEF IInv
<1>1. /\ main = "decide" /\ m_range_supported' = FALSE /\ range_denied' = FALSE /\ meta' = "none"
      /\ UNCHANGED <<m_fileLen, m_range_known, told, candidate, m_cancel, canceled, file>>
  BY DEF Degrade
<1>2. m_thread_num \in 1..ThreadNum /\ m_fileLen \in Nat \ {0} /\ file /\ m_thread_num <= m_fileLen
  BY <1>1, ProbeAssumption DEF TypeOK, ProbeTypeOK, Listed, WithList
<1>3. \A c \in Slots : at[c] \notin {"check", "perform"}
  BY <1>1 DEF Threads
<1>4. CASE main' = "spawn" /\ MakeList(1, Zeros)
  <2>1. Zeros \in [Slots -> Nat] /\ \A c \in Slots : Zeros[c] = 0
    BY DEF Zeros
  <2>2. \A c \in 1..1 : Zeros[c] <= PartLen(c, 1, m_fileLen)
    BY <1>2, <2>1, FileTaskAssumption, PartLenType DEF Slots
  <2>3. /\ offset' \in [Slots -> Nat] /\ \A c \in 1..1 : offset'[c] <= PartLen(c, 1, m_fileLen)
        /\ success' \in SUBSET Slots /\ attempt' \in [Slots -> 0..(MaxRetry - 1)]
        /\ download_len' \in [Slots -> 0..Larger(Body, m_fileLen)]
        /\ wrong' = {} /\ m_thread_num' = 1 /\ cur' = 1 /\ at' = [c \in Slots |-> "none"]
        /\ UNCHANGED requestVars
    BY <1>2, <1>4, <2>1, <2>2, FileTaskAssumption, NewList
  <2>4. TypeOK'
    <3>1. ProbeTypeOK'
      BY <1>1 DEF TypeOK, ProbeTypeOK
    <3>2. Chunks' = 1..1 /\ m_thread_num' \in 0..ThreadNum /\ cur' \in 1..(ThreadNum + 1)
      BY <2>3, FileTaskAssumption DEF Chunks
    <3>3. at' \in [Slots -> {"none", "check", "perform", "over"}] /\ wrong' \in SUBSET Slots
      BY <2>3
    <3> QED BY <1>1, <1>4, <2>3, <3>1, <3>2, <3>3 DEF TypeOK, Size, requestVars
  <2>5. Listed' /\ LengthTold'
    BY <1>1, <1>2, <1>4, <2>3 DEF Listed, LengthTold, BeforeList, Probing, WithList
  <2>6. Threads' /\ InStep' /\ Placed' /\ AllFull' /\ Kept'
    BY <1>1, <1>3, <1>4, <2>3 DEF Threads, InStep, Placed, AllFull, Kept, requestVars
  <2> QED BY <2>4, <2>5, <2>6
<1>5. CASE main' = "failed" /\ DestoryUnlocked
  <2> USE DEF DestoryUnlocked, chunkVars, requestVars
  <2>1. TypeOK'
    <3>1. ProbeTypeOK'
      BY <1>1 DEF TypeOK, ProbeTypeOK
    <3>2. Chunks' = {} /\ m_thread_num' \in 0..ThreadNum
      BY <1>5, FileTaskAssumption DEF Chunks
    <3> QED BY <1>1, <1>5, <3>1, <3>2 DEF TypeOK
  <2>2. Listed' /\ LengthTold'
    BY <1>1, <1>2, <1>5 DEF Listed, LengthTold, BeforeList, Probing, WithList
  <2>3. Threads' /\ InStep' /\ Placed' /\ AllFull' /\ Kept'
    BY <1>1, <1>3, <1>5 DEF Threads, InStep, Placed, AllFull, Kept
  <2> QED BY <2>1, <2>2, <2>3
<1> QED BY <1>4, <1>5 DEF Degrade

(* A chunk of the list has a place in the file.                            *)
LEMMA ChunkSize ==
  ASSUME IInv, NEW c \in Chunks
  PROVE  /\ c \in Slots /\ m_fileLen \in Nat \ {0} /\ offset[c] \in Nat /\ offset[c] <= Size(c)
         /\ First(c) \in Nat /\ Size(c) \in Nat /\ First(c) + Size(c) <= m_fileLen
<1>1. /\ m_fileLen \in Nat /\ m_thread_num \in 0..ThreadNum /\ m_thread_num <= m_fileLen
      /\ offset \in [Slots -> Nat] /\ \A d \in Chunks : offset[d] <= Size(d)
  BY ProbeAssumption DEF IInv, TypeOK, ProbeTypeOK, Listed
<1>2. m_thread_num \in Nat \ {0} /\ m_fileLen \in Nat \ {0} /\ c \in 1..m_thread_num /\ c \in Slots
  BY <1>1, FileTaskAssumption DEF Chunks, Slots
<1>3. First(c) \in Nat /\ Size(c) \in Nat /\ First(c) + Size(c) <= m_fileLen
  BY <1>2, PartLenType DEF First, Size
<1> QED BY <1>1, <1>2, <1>3

LEMMA SpawnStep == IInv /\ SpawnChunk => IInv'
<1> SUFFICES ASSUME IInv, SpawnChunk PROVE IInv'
  OBVIOUS
<1> USE DEF IInv, SpawnChunk, NextChunk, probeOnly, Known, requestVars, diskVars
<1>1. cur \in Slots /\ cur' = cur + 1 /\ cur \in Nat /\ at[cur] \notin {"check", "perform"}
  BY FileTaskAssumption DEF TypeOK, Chunks, Slots, Threads
<1>4. TypeOK'
  <2>1. cur' \in 1..(ThreadNum + 1) /\ ProbeTypeOK'
    BY <1>1, FileTaskAssumption DEF TypeOK, ProbeTypeOK, Slots
  <2>2. at' \in [Slots -> {"none", "check", "perform", "over"}]
    BY DEF TypeOK
  <2> QED BY <2>1, <2>2 DEF TypeOK, Chunks, Size
<1>2. Listed' /\ LengthTold' /\ Placed' /\ AllFull' /\ Kept'
  BY DEF Listed, LengthTold, Placed, AllFull, Kept, Chunks
<1>3. Threads' /\ InStep'
  BY <1>1, FileTaskAssumption DEF TypeOK, Threads, InStep, Chunks, Slots
<1> QED BY <1>2, <1>3, <1>4

(* What a chunk's thread cannot disturb.                                   *)
LEMMA ThreadFrame ==
  ASSUME IInv, UNCHANGED threadOnly, UNCHANGED <<m_range_known, m_range_supported>>, main = "spawn"
  PROVE  Listed' /\ LengthTold' /\ AllFull' /\ Kept'
  BY DEF threadOnly, IInv, Listed, LengthTold, AllFull, Kept, WithList, BeforeList, Probing, Known,
         diskVars, Chunks

(* A request begins or ends, and a body's headers come.                    *)
LEMMA RequestStep ==
  ASSUME IInv, NEW c \in Slots,
         \/ Request(c) \/ NoRequest(c) \/ Progress(c)
         \/ \E status \in {200, 206, 404} : Header(c, status)
         \/ \E res \in Results : Performed(c, res)
  PROVE  IInv'
<1> USE DEF IInv, Request, NoRequest, Progress, Header, Performed, Forget, Ends, requestVars, Known
<1>1. /\ UNCHANGED threadOnly /\ UNCHANGED <<offset, wrong, m_range_known, m_range_supported>>
      /\ at[c] \in {"check", "perform"}
  BY DEF threadOnly
<1>2. main = "spawn" /\ c \in Chunks
  BY <1>1 DEF Threads
<1>3. Listed' /\ LengthTold' /\ AllFull' /\ Kept'
  BY <1>1, <1>2, ThreadFrame
<1>4. TypeOK'
  <2>1. m_cancel' \in BOOLEAN /\ range_denied' \in BOOLEAN
    BY DEF TypeOK, ProbeTypeOK
  <2>6. ProbeTypeOK'
    BY <1>1, <2>1 DEF TypeOK, ProbeTypeOK, threadOnly
  <2>2. success' \in SUBSET Slots /\ at' \in [Slots -> {"none", "check", "perform", "over"}]
    BY DEF TypeOK
  <2>3. attempt' \in [Slots -> 0..(MaxRetry - 1)]
    <3>1. ASSUME NEW res \in Results, Performed(c, res), Judge(c, res) = "again"
          PROVE  attempt[c] + 1 \in 0..(MaxRetry - 1)
      BY <3>1, FileTaskAssumption DEF TypeOK, Judge
    <3> QED BY <3>1 DEF TypeOK
  <2>4. http' \in [Slots -> {0, 200, 206, 404}] /\ asked' \in [Slots -> Nat] /\ got' \in [Slots -> Nat]
    BY DEF TypeOK
  <2>5. download_len' \in [Slots -> 0..Larger(Body, m_fileLen)]
    <3>1. got[c] \in 0..Larger(Body, m_fileLen)
      BY ProbeAssumption DEF TypeOK, ProbeTypeOK, InStep, Larger
    <3> QED BY <3>1 DEF TypeOK
  <2> QED BY <1>1, <2>1, <2>2, <2>3, <2>4, <2>5, <2>6 DEF TypeOK, threadOnly, Chunks, Size, diskVars
<1>5. Threads'
  BY <1>1, <1>2 DEF TypeOK, Threads, threadOnly, Chunks
<1>6. InStep'
  BY <1>1, ProbeAssumption DEF TypeOK, Threads, InStep
<1>7. Placed'
  BY <1>1 DEF Placed
<1> QED BY <1>3, <1>4, <1>5, <1>6, <1>7

LEMMA WriteStep == ASSUME IInv, NEW c \in Slots, Write(c) PROVE IInv'
<1> USE DEF IInv
<1>1. /\ UNCHANGED threadOnly
      /\ UNCHANGED <<m_cancel, range_denied, success, at, attempt, http, asked, download_len>>
      /\ UNCHANGED <<m_range_known, m_range_supported>>
      /\ at[c] = "perform" /\ MoreToCome(c) /\ got' = [got EXCEPT ![c] = @ + 1]
  BY DEF Write, threadOnly, Known
<1>2. main = "spawn" /\ c \in Chunks
  BY <1>1 DEF Threads
<1>3. Listed' /\ LengthTold' /\ AllFull' /\ Kept'
  BY <1>1, <1>2, ThreadFrame
<1>4. /\ got[c] \in Nat /\ asked[c] \in Nat /\ Body \in Nat
      /\ offset[c] \in Nat /\ offset[c] <= Size(c)
      /\ First(c) \in Nat /\ Size(c) \in Nat
  BY <1>2, ChunkSize, ProbeAssumption DEF TypeOK
<1>5. got[c] + 1 <= Body
  <2>1. CASE http[c] = 206
    BY <1>1, <1>4, <2>1 DEF MoreToCome, Source, Smaller
  <2>2. CASE http[c] = 200
    BY <1>1, <1>4, <2>2 DEF MoreToCome, Source
  <2>3. CASE http[c] = 404
    BY <1>1, <1>4, <2>3, ProbeAssumption DEF MoreToCome
  <2> QED BY <1>1, <2>1, <2>2, <2>3 DEF MoreToCome
<1>6. m_range_supported =>
        http[c] = 206 /\ ~Full(c) /\ Source(c) = First(c) + offset[c] /\ asked[c] + got[c] = offset[c]
  <2> SUFFICES ASSUME m_range_supported
      PROVE http[c] = 206 /\ ~Full(c) /\ Source(c) = First(c) + offset[c] /\ asked[c] + got[c] = offset[c]
    OBVIOUS
  <2>1. http[c] = 206 /\ asked[c] + got[c] = offset[c]
    BY <1>1 DEF MoreToCome, InStep
  <2>2. Source(c) = First(c) + offset[c]
    BY <1>4, <2>1 DEF Source
  <2>3. Source(c) < Smaller(Body, First(c) + Size(c))
    BY <1>1, <2>1 DEF MoreToCome
  <2> QED BY <1>4, <2>1, <2>2, <2>3 DEF Full, Smaller
<1>7. \/ offset' = offset /\ wrong' = wrong /\ ~m_range_supported
      \/ /\ ~Full(c) /\ offset' = [offset EXCEPT ![c] = @ + 1]
         /\ wrong' \in {wrong, wrong \cup {c}} /\ (m_range_supported => wrong' = wrong)
  BY <1>6 DEF Write
<1>8. TypeOK'
  <2>1. offset' \in [Slots -> Nat] /\ \A d \in Chunks : offset'[d] <= Size(d)
    <3>1. ~Full(c) => offset[c] + 1 <= Size(c)
      BY <1>4 DEF Full
    <3>2. CASE offset' = offset
      BY <3>2 DEF TypeOK
    <3>3. CASE ~Full(c) /\ offset' = [offset EXCEPT ![c] = @ + 1]
      <4>1. offset' \in [Slots -> Nat] /\ offset'[c] = offset[c] + 1
            /\ \A d \in Slots \ {c} : offset'[d] = offset[d]
        BY <1>4, <3>3 DEF TypeOK
      <4> HIDE DEF Size
      <4>2. \A d \in Chunks : offset'[d] <= Size(d)
        <5>1. Chunks \subseteq Slots
          BY FileTaskAssumption DEF TypeOK, Chunks, Slots
        <5> QED BY <3>1, <3>3, <4>1, <5>1 DEF TypeOK
      <4> QED BY <4>1, <4>2
    <3> QED BY <1>7, <3>2, <3>3
  <2>2. got' \in [Slots -> Nat] /\ wrong' \in SUBSET Slots
    BY <1>1, <1>7 DEF TypeOK
  <2> QED BY <1>1, <2>1, <2>2 DEF TypeOK, ProbeTypeOK, threadOnly, Known, Chunks, Size, diskVars
<1>9. Threads'
  BY <1>1 DEF Threads, threadOnly, Chunks
<1>10. InStep'
  BY <1>1, <1>4, <1>5, <1>6, <1>7 DEF TypeOK, InStep
<1>11. Placed'
  BY <1>1, <1>7 DEF Placed
<1> QED BY <1>3, <1>8, <1>9, <1>10, <1>11

LEMMA NextIInv == IInv /\ [Next]_vars => IInv'
<1> SUFFICES ASSUME IInv, [Next]_vars PROVE IInv'
  OBVIOUS
<1>1. CASE RunFileExec
  BY <1>1, ProbeStep, FileInitStep, MainStep, SpawnStep, DegradeStep DEF RunFileExec
<1>2. ASSUME NEW c \in Slots,
             \/ Downloading(c)
             \/ \E status \in {200, 206, 404} : Header(c, status)
             \/ Write(c) \/ Progress(c)
      PROVE  IInv'
  BY <1>2, RequestStep, WriteStep DEF Downloading
<1>3. CASE Cancel /\ ~Returned
  BY <1>3, MainStep
<1>4. CASE UNCHANGED vars
  BY <1>4 DEF vars, probeVars, Known, listVars, chunkVars, requestVars, diskVars, IInv, TypeOK, ProbeTypeOK,
     Listed, LengthTold, Threads, InStep, Placed, AllFull, Kept, Chunks, Full, Size
<1> QED BY <1>1, <1>2, <1>3, <1>4 DEF Next

LEMMA Invariance == Spec => []IInv
  BY InitIInv, NextIInv, PTL DEF Spec

-----------------------------------------------------------------------------
(* The theorems.                                                           *)

(* No thread outlives RunChunks and none leaves its attempts, its chunk or *)
(* its part of the file, whatever the server, the pool and the user do.    *)
THEOREM NoThreadLeft == Spec => []ThreadsJoined
<1>1. IInv => ThreadsJoined
  BY DEF IInv, TypeOK, Threads, ThreadsJoined
<1> QED BY Invariance, <1>1, PTL

(* Full chunks cover the file.                                             *)
LEMMA FullCovers ==
  ASSUME IInv, m_thread_num > 0, \A c \in Chunks : Full(c)
  PROVE  Covered = 0..(m_fileLen - 1)
<1>1. m_thread_num \in Nat \ {0} /\ m_fileLen \in Nat \ {0} /\ Chunks = 1..m_thread_num
  BY ProbeAssumption DEF IInv, TypeOK, ProbeTypeOK, Listed, Chunks
<1>2. ASSUME NEW c \in Chunks, NEW k \in 0..(offset[c] - 1)
      PROVE  First(c) + k \in 0..(m_fileLen - 1)
  <2>1. /\ offset[c] \in Nat /\ offset[c] <= Size(c) /\ First(c) \in Nat
        /\ Size(c) \in Nat /\ First(c) + Size(c) <= m_fileLen
    BY ChunkSize
  <2> QED BY <1>1, <2>1
<1>3. ASSUME NEW p \in 0..(m_fileLen - 1)
      PROVE  \E c \in Chunks : offset[c] > 0 /\ \E k \in 0..(offset[c] - 1) : p = First(c) + k
  <2>1. PICK i \in 1..m_thread_num, k \in Nat :
          k < PartLen(i, m_thread_num, m_fileLen) /\ p = PartStart(i, m_thread_num, m_fileLen) + k
    BY <1>1, PartsCover
  <2>2. i \in Chunks /\ offset[i] \in Nat /\ k < offset[i] /\ p = First(i) + k
    BY <1>1, <2>1, ChunkSize DEF Full, First, Size
  <2> QED BY <2>2
<1> QED BY <1>2, <1>3 DEF Covered

(* A task that reports a file complete has all of it, each byte in its     *)
(* place, when it was downloaded in ranges and a 206 told its length: for  *)
(* any number of threads, and whatever else fails or comes short.          *)
THEOREM CompleteIsWhole == Spec => []CompleteIsBody
<1>1. IInv => CompleteIsBody
  <2> SUFFICES ASSUME IInv, main \in {"verify", "done"}, told = "range", m_range_supported
               PROVE  file /\ wrong = {} /\ Covered = 0..(Body - 1)
    BY DEF CompleteIsBody
  <2>1. m_thread_num > 0 /\ file /\ wrong = {} /\ m_fileLen = Body
    BY DEF IInv, Listed, WithList, LengthTold, Placed
  <2>2. \A c \in Chunks : Full(c)
    BY DEF IInv, AllFull
  <2> QED BY <2>1, <2>2, FullCovers
<1> QED BY Invariance, <1>1, PTL

(* What a canceled task leaves can be resumed from: taskexec.cpp:132.      *)
THEOREM StopKeeps == Spec => []KeptForResume
<1>1. IInv => KeptForResume
  BY DEF IInv, Kept, Placed, KeptForResume
<1> QED BY Invariance, <1>1, PTL

-----------------------------------------------------------------------------
(* The refinement: each step of the task is a step of Download.            *)

(* What is seen of it.                                                     *)
Len  == IF m_thread_num > 0 THEN m_fileLen ELSE 0
Have == IF file THEN Covered ELSE {}
Seen == <<Outcome, Len, Have, m_thread_num > 0 /\ m_range_supported, wrong = {}, m_cancel>>

(* Range was only denied where it was asked for: a task starts over from   *)
(* its parts, never from a stream.                                         *)
DeniedInRange == range_denied => m_range_supported /\ main \notin BeforeList

LEMMA DeniedStep == IInv /\ DeniedInRange /\ [Next]_vars => DeniedInRange'
<1> SUFFICES ASSUME IInv, DeniedInRange, [Next]_vars PROVE DeniedInRange'
  OBVIOUS
<1> USE DEF DeniedInRange, BeforeList, Probing, Known
<1>1. CASE ProbeNext /\ UNCHANGED <<canceled, listVars, range_denied, diskVars>>
  BY <1>1 DEF ProbeNext, BeginProbe, ProbeCanceled, HeadProbe, RangeConfirms, RangeUnclear,
              UseCandidate, NoLength, CheckRangeSupport
<1>2. CASE EnterTask \/ FileInit \/ FileInitFails \/ BeginDownload
  BY <1>2 DEF EnterTask, FileInit, FileInitFails, BeginDownload
<1>3. CASE SkipChunk \/ SpawnChunk \/ SpawnFails \/ Join
  BY <1>3 DEF SkipChunk, SpawnChunk, SpawnFails, Join, NextChunk, probeOnly
<1>4. CASE Degrade \/ DownloadComplete \/ DownloadIncomplete
  BY <1>4 DEF Degrade, DownloadComplete, DownloadIncomplete
<1>5. CASE \/ \E bVerifySha256 \in BOOLEAN : ReportDone(bVerifySha256)
           \/ ReportInitFailed \/ ReportCanceled
           \/ \E deletePartial \in BOOLEAN : ReportFailed(deletePartial)
  BY <1>5 DEF ReportDone, ReportInitFailed, ReportCanceled, ReportFailed, over
<1>6. ASSUME NEW c \in Slots,
             \/ Downloading(c)
             \/ \E status \in {200, 206, 404} : Header(c, status)
             \/ Write(c) \/ Progress(c)
      PROVE  DeniedInRange'
  <2>1. main = "spawn" \/ ~range_denied'
    BY <1>6 DEF IInv, Threads, Downloading, Request, NoRequest, Performed, Header, Write, Progress
  <2>2. UNCHANGED <<main, m_range_supported>>
    BY <1>6 DEF Downloading, Request, NoRequest, Performed, Header, Write, Progress, threadOnly
  <2>3. range_denied' => m_range_supported
    BY <1>6 DEF Downloading, Request, NoRequest, Performed, Header, Write, Progress, Denied
  <2> QED BY <2>1, <2>2, <2>3
<1>7. CASE Cancel \/ UNCHANGED vars
  BY <1>7 DEF Cancel, vars, probeVars
<1> QED BY <1>1, <1>2, <1>3, <1>4, <1>5, <1>6, <1>7 DEF Next, RunFileExec

LEMMA DeniedInvariance == Spec => []DeniedInRange
<1>1. Init => DeniedInRange
  BY DEF Init, DeniedInRange
<1> QED BY <1>1, DeniedStep, Invariance, PTL DEF Spec

(* What is written is in the file.                                         *)
LEMMA CoveredPlaces == IInv => Covered \subseteq 0..(m_fileLen - 1)
<1> SUFFICES ASSUME IInv, NEW p \in Covered PROVE p \in 0..(m_fileLen - 1)
  OBVIOUS
<1>1. PICK c \in Chunks : \E k \in 0..(offset[c] - 1) : p = First(c) + k
  BY DEF Covered
<1>2. PICK k \in 0..(offset[c] - 1) : p = First(c) + k
  BY <1>1
<1> QED BY <1>2, ChunkSize

(* With no list nothing is written; nor is it where nothing was resumed.   *)
LEMMA NoneCovered ==
  m_thread_num = 0 \/ (Chunks \subseteq Slots /\ offset = Zeros) => Covered = {}
<1>1. m_thread_num = 0 => Chunks = {}
  BY DEF Chunks
<1>2. Chunks \subseteq Slots /\ offset = Zeros => {c \in Chunks : offset[c] > 0} = {}
  BY DEF Zeros
<1> QED BY <1>1, <1>2 DEF Covered

LEMMA Unseen ==
  /\ UNCHANGED <<m_thread_num, m_fileLen, m_range_supported, offset, wrong, file, m_cancel>>
  /\ Outcome' = Outcome
  => UNCHANGED Seen
BY DEF Seen, Len, Have, Covered, Chunks, First

(* The probe, and the first layout.                                        *)
LEMMA BeforeIsDownload ==
  ASSUME IInv,
         \/ EnterTask
         \/ ProbeNext /\ UNCHANGED <<canceled, listVars, range_denied, diskVars>>
         \/ FileInitFails
  PROVE  [Promise!Next]_Seen
<1>1. m_thread_num = 0 /\ wrong = {} /\ UNCHANGED <<m_thread_num, wrong>> /\ Outcome = "probing"
  BY DEF IInv, Listed, BeforeList, Probing, EnterTask, ProbeNext, BeginProbe, ProbeCanceled,
         HeadProbe, RangeConfirms, RangeUnclear, UseCandidate, NoLength, CheckRangeSupport,
         FileInitFails, listVars, chunkVars, Outcome
<1>2. Covered = {} /\ Covered' = {}
  <2>1. (m_thread_num = 0 \/ (Chunks \subseteq Slots /\ offset = Zeros) => Covered = {})'
    BY NoneCovered, PTL
  <2> QED BY <1>1, <2>1, NoneCovered
<1>3. UNCHANGED <<Len, Have, m_thread_num > 0 /\ m_range_supported, wrong = {}>>
  BY <1>1, <1>2 DEF Len, Have
<1>4. \/ Outcome' = "probing" /\ UNCHANGED m_cancel
      \/ Outcome' = "probing" /\ m_cancel' = FALSE
      \/ Outcome' = "broken" /\ UNCHANGED m_cancel
  BY DEF EnterTask, ProbeNext, BeginProbe, ProbeCanceled, HeadProbe, RangeConfirms,
         RangeUnclear, UseCandidate, NoLength, CheckRangeSupport, FileInitFails, Outcome
<1>5. CASE Outcome' = "probing" /\ m_cancel' = FALSE
  BY <1>1, <1>3, <1>5 DEF Promise!Next, Promise!Forget, Len, Have
<1>6. CASE Outcome' = "broken" /\ UNCHANGED m_cancel
  BY <1>1, <1>3, <1>6 DEF Promise!Next, Promise!GiveUp, Len, Have
<1> QED BY <1>1, <1>3, <1>4, <1>5, <1>6 DEF Seen

LEMMA LayoutIsDownload ==
  ASSUME IInv, FileInit
  PROVE  [Promise!Next]_Seen
<1>1. IInv'
  BY FileInitStep
<1>2. /\ main = "layout" /\ main' = "begin" /\ ~m_cancel /\ file' = TRUE
      /\ UNCHANGED <<m_fileLen, m_range_supported, m_cancel>>
  BY DEF FileInit, Known
<1>3. wrong = {} /\ m_fileLen \in Nat \ {0}
  BY <1>2, ProbeAssumption
     DEF IInv, Listed, BeforeList, LengthTold, TypeOK, ProbeTypeOK
<1>4. wrong' = {}
  BY DEF FileInit, MakeList
<1>5. m_thread_num' > 0
  BY <1>1, <1>2 DEF IInv, Listed, WithList
<1>6. Covered' \subseteq 0..(m_fileLen - 1)
  <2>1. (IInv => Covered \subseteq 0..(m_fileLen - 1))'
    BY CoveredPlaces, PTL
  <2> QED BY <1>1, <1>2, <2>1
<1>7. ~m_range_supported => Covered' = {}
  <2>1. ~m_range_supported => offset' = Zeros
    BY DEF FileInit, MakeList
  <2>2. (m_thread_num = 0 \/ (Chunks \subseteq Slots /\ offset = Zeros) => Covered = {})'
    BY NoneCovered, PTL
  <2>3. Zeros' = Zeros
    BY DEF Zeros
  <2>4. (Chunks \subseteq Slots)'
    BY <1>1, FileTaskAssumption DEF IInv, TypeOK, Chunks, Slots
  <2> QED BY <2>1, <2>2, <2>3, <2>4
<1>8. Outcome = "probing" /\ Outcome' = "writing"
  BY <1>2 DEF Outcome
<1> QED BY <1>2, <1>3, <1>4, <1>5, <1>6, <1>7, <1>8
        DEF Promise!Next, Promise!LayOut, Promise!LaidOut, Promise!Places, Len, Have

(* Download_Task, in its own thread.                                       *)
LEMMA TaskIsDownload ==
  ASSUME IInv, DeniedInRange,
         \/ BeginDownload \/ SkipChunk \/ SpawnChunk \/ SpawnFails \/ Join
         \/ Degrade \/ DownloadComplete \/ DownloadIncomplete
  PROVE  [Promise!Next]_Seen
<1> USE DEF Known, listVars, chunkVars, diskVars, probeOnly
<1>0. /\ m_thread_num > 0 /\ m_fileLen \in Nat /\ Outcome = "writing"
      /\ main \in {"begin", "decide"} \/ main = "spawn"
      /\ main # "spawn" => file
  BY ProbeAssumption
     DEF IInv, Listed, WithList, TypeOK, ProbeTypeOK, Outcome, BeginDownload, SkipChunk,
         SpawnChunk, SpawnFails, Join, Degrade, DownloadComplete, DownloadIncomplete
<1>1. CASE SkipChunk \/ SpawnChunk \/ SpawnFails \/ Join
  <2>1. UNCHANGED <<m_thread_num, m_fileLen, m_range_supported, offset, wrong, file, m_cancel>>
    BY <1>1 DEF SkipChunk, SpawnChunk, SpawnFails, Join, NextChunk
  <2>2. Outcome' = Outcome
    BY <1>1 DEF SkipChunk, SpawnChunk, SpawnFails, Join, NextChunk, Outcome
  <2> QED BY <2>1, <2>2, Unseen
<1>2. CASE BeginDownload \/ DownloadIncomplete
  <2>1. UNCHANGED <<m_thread_num, m_fileLen, m_range_supported, offset, wrong, file, m_cancel>>
    BY <1>2 DEF BeginDownload, DownloadIncomplete
  <2>2. Outcome' \in {"writing", "broken"}
    BY <1>2 DEF BeginDownload, DownloadIncomplete, Outcome
  <2>3. UNCHANGED <<Len, Have>>
    BY <2>1 DEF Len, Have, Covered, Chunks, First
  <2>4. CASE Outcome' = "broken"
    BY <1>0, <2>1, <2>3, <2>4 DEF Promise!Next, Promise!GiveUp, Len, Have
  <2> QED BY <1>0, <2>1, <2>2, <2>4, Unseen
<1>3. CASE DownloadComplete
  <2>1. /\ UNCHANGED <<m_thread_num, m_fileLen, m_range_supported, offset, wrong, file, m_cancel>>
        /\ ~m_cancel /\ Verified /\ main = "decide" /\ main' = "verify"
    BY <1>3 DEF DownloadComplete
  <2>2. Covered = 0..(m_fileLen - 1) /\ file
    BY <1>0, <2>1, FullCovers DEF Verified
  <2>3. UNCHANGED <<Len, Have>> /\ Outcome' = "whole"
    BY <2>1 DEF Len, Have, Covered, Chunks, First, Outcome
  <2> QED BY <1>0, <2>1, <2>2, <2>3
          DEF Promise!Next, Promise!Finish, Promise!Places, Len, Have
<1>4. CASE Degrade
  <2>1. /\ m_range_supported /\ m_range_supported' = FALSE /\ main = "decide" /\ file
        /\ UNCHANGED <<m_fileLen, m_cancel, file>>
    BY <1>0, <1>4 DEF Degrade, DeniedInRange
  <2>2. (m_thread_num = 0 \/ (Chunks \subseteq Slots /\ offset = Zeros) => Covered = {})'
    BY NoneCovered, PTL
  <2>3. CASE main' = "failed"
    <3>1. m_thread_num' = 0 /\ UNCHANGED wrong
      BY <1>4, <2>3 DEF Degrade, DestoryUnlocked
    <3>2. Covered' = {} /\ Outcome' = "broken"
      BY <2>2, <2>3, <3>1 DEF Outcome
    <3> QED BY <1>0, <2>1, <3>1, <3>2 DEF Promise!Next, Promise!GiveUp, Len, Have
  <2>4. CASE main' # "failed"
    <3>1. /\ ~m_cancel /\ main' = "spawn"
          /\ m_thread_num' = 1 /\ offset' = Zeros /\ wrong' = {}
      BY <1>4, <2>4 DEF Degrade, MakeList
    <3>2. Zeros' = Zeros /\ (Chunks \subseteq Slots)'
      BY <3>1, FileTaskAssumption DEF Zeros, Chunks, Slots
    <3>3. Covered' = {} /\ Outcome' = "writing"
      BY <2>2, <3>1, <3>2 DEF Outcome
    <3> QED BY <1>0, <2>1, <3>1, <3>3 DEF Promise!Next, Promise!StartOver, Len, Have
  <2> QED BY <2>3, <2>4
<1> QED BY <1>1, <1>2, <1>3, <1>4

(* The end of RunFileExec.  The digest can be taken: a list is there.      *)
LEMMA EndIsDownload ==
  ASSUME IInv,
         \/ \E bVerifySha256 \in BOOLEAN : ReportDone(bVerifySha256)
         \/ ReportInitFailed \/ ReportCanceled
         \/ \E deletePartial \in BOOLEAN : ReportFailed(deletePartial)
  PROVE  [Promise!Next]_Seen
<1> USE DEF over, Known, listVars, chunkVars, diskVars
<1>1. /\ UNCHANGED <<m_thread_num, m_fileLen, m_range_supported, offset, wrong, m_cancel>>
      /\ file' = file \/ file' = FALSE
  BY DEF ReportDone, ReportInitFailed, ReportCanceled, ReportFailed
<1>2. CASE \E bVerifySha256 \in BOOLEAN : ReportDone(bVerifySha256)
  <2>1. main = "verify" /\ m_thread_num > 0 /\ m_thread_num <= m_fileLen
    BY <1>2 DEF ReportDone, IInv, Listed, WithList
  <2>2. m_thread_num \in Nat /\ m_fileLen \in Nat
    BY ProbeAssumption, FileTaskAssumption DEF IInv, TypeOK, ProbeTypeOK
  <2>3. VerifySha256
    BY <2>1, <2>2 DEF VerifySha256
  <2>4. main' = "done" /\ file' = file
    BY <1>2, <2>3 DEF ReportDone
  <2>5. Outcome' = Outcome
    BY <2>1, <2>4 DEF Outcome
  <2> QED BY <1>1, <2>4, <2>5, Unseen
<1>3. CASE \/ ReportInitFailed \/ ReportCanceled
           \/ \E deletePartial \in BOOLEAN : ReportFailed(deletePartial)
  <2>1. Outcome = "broken" /\ Outcome' = "broken"
    BY <1>3 DEF ReportInitFailed, ReportCanceled, ReportFailed, Outcome
  <2>2. CASE file' = file
    BY <1>1, <2>1, <2>2, Unseen
  <2>3. CASE file' = FALSE
    <3>1. UNCHANGED Len /\ Have' = {}
      BY <1>1, <2>3 DEF Len, Have
    <3> QED BY <1>1, <2>1, <3>1 DEF Promise!Next, Promise!Discard, Len, Have
  <2> QED BY <1>1, <2>2, <2>3
<1> QED BY <1>2, <1>3

(* A byte is written while the task waits for its threads.                 *)
LEMMA WriteIsDownload ==
  ASSUME IInv, NEW c \in Slots, Write(c)
  PROVE  [Promise!Next]_Seen
<1>1. /\ UNCHANGED <<m_thread_num, m_fileLen, m_range_supported, file, main, m_cancel>>
      /\ ~m_cancel /\ at[c] = "perform"
  BY DEF Write, threadOnly, Known, diskVars
<1>2. main = "spawn" /\ m_thread_num > 0 /\ file
  BY <1>1 DEF IInv, Threads, Listed, WithList
<1>3. Outcome = "writing" /\ Outcome' = Outcome
  BY <1>1, <1>2 DEF Outcome
<1>4. /\ \A d \in Slots : offset[d] \in Nat /\ offset'[d] \in Nat /\ offset[d] <= offset'[d]
      /\ wrong \subseteq wrong'
  <2>1. offset \in [Slots -> Nat]
    BY DEF IInv, TypeOK
  <2>2. offset' = offset \/ offset' = [offset EXCEPT ![c] = @ + 1]
    BY DEF Write
  <2>3. wrong \subseteq wrong'
    BY DEF Write
  <2> QED BY <2>1, <2>2, <2>3
<1>5. UNCHANGED <<Chunks, Len>> /\ \A d \in Chunks : First(d)' = First(d)
  BY <1>1 DEF Chunks, First, Len
<1>6. Covered \subseteq Covered'
  <2> SUFFICES ASSUME NEW p \in Covered PROVE p \in Covered'
    OBVIOUS
  <2>1. PICK d \in {e \in Chunks : offset[e] > 0} :
          \E k \in 0..(offset[d] - 1) : p = First(d) + k
    BY DEF Covered
  <2>2. PICK k \in 0..(offset[d] - 1) : p = First(d) + k
    BY <2>1
  <2>3. d \in Chunks' /\ offset'[d] > 0 /\ k \in 0..(offset'[d] - 1) /\ p = First(d)' + k
    <3>1. d \in Slots
      BY <2>1, ChunkSize
    <3> QED BY <1>4, <1>5, <2>1, <2>2, <3>1
  <2> QED BY <2>3 DEF Covered
<1>7. IInv'
  BY WriteStep
<1>8. Covered' \subseteq 0..(m_fileLen - 1)
  <2>1. (IInv => Covered \subseteq 0..(m_fileLen - 1))'
    BY CoveredPlaces, PTL
  <2> QED BY <1>1, <1>7, <2>1
<1>9. /\ (wrong = {})' => (wrong = {})
      /\ m_thread_num > 0 /\ m_range_supported => (wrong = {})' = (wrong = {})
  BY <1>1, <1>4, <1>7 DEF IInv, Placed
<1> QED BY <1>1, <1>2, <1>3, <1>5, <1>6, <1>8, <1>9
        DEF Promise!Next, Promise!Write, Promise!Places, Len, Have

LEMMA NextIsDownload == IInv /\ DeniedInRange /\ [Next]_vars => [Promise!Next]_Seen
<1> SUFFICES ASSUME IInv, DeniedInRange, [Next]_vars PROVE [Promise!Next]_Seen
  OBVIOUS
<1> USE DEF Known, listVars, chunkVars, requestVars, diskVars, threadOnly
<1>1. ASSUME UNCHANGED <<m_thread_num, m_fileLen, m_range_supported, offset, wrong, file, main>>,
             m_cancel' = m_cancel \/ m_cancel' = TRUE
      PROVE  [Promise!Next]_Seen
  <2>1. UNCHANGED <<Outcome, Len, Have, m_thread_num > 0 /\ m_range_supported, wrong = {}>>
    BY <1>1 DEF Outcome, Len, Have, Covered, Chunks, First
  <2>2. CASE m_cancel' = TRUE
    BY <2>1, <2>2 DEF Promise!Next, Promise!Stop, Len, Have
  <2> QED BY <1>1, <2>1, <2>2 DEF Seen
<1>2. CASE RunFileExec
  BY <1>2, BeforeIsDownload, LayoutIsDownload, TaskIsDownload, EndIsDownload DEF RunFileExec
<1>3. ASSUME NEW c \in Slots,
             Downloading(c) \/ \E status \in {200, 206, 404} : Header(c, status)
      PROVE  [Promise!Next]_Seen
  <2>1. UNCHANGED <<m_thread_num, m_fileLen, m_range_supported, offset, wrong, file, main, m_cancel>>
    BY <1>3 DEF Downloading, Request, NoRequest, Performed, Header
  <2> QED BY <1>1, <2>1
<1>4. ASSUME NEW c \in Slots, Progress(c) PROVE [Promise!Next]_Seen
  BY <1>1, <1>4 DEF Progress, IInv, TypeOK, ProbeTypeOK
<1>5. CASE Cancel
  BY <1>1, <1>5 DEF Cancel
<1>6. CASE UNCHANGED vars
  BY <1>1, <1>6 DEF vars, probeVars
<1> QED BY <1>2, <1>3, <1>4, <1>5, <1>6, WriteIsDownload DEF Next

(* A task that downloads with a thread for each chunk is a download as its *)
(* callers know one, from the probe to what becomes of a broken file: no   *)
(* byte is written once it was canceled or has ended, or before a restart  *)
(* was laid out; and it ends whole only with every byte of its length.     *)
THEOREM IsDownload == Spec => ImplementsDownload
<1>1. Init => Promise!Init
  <2>1. Init => Covered = {}
    BY NoneCovered DEF Init
  <2> QED BY <2>1 DEF Init, ProbeInit, Promise!Init, Outcome
<1> QED BY <1>1, NextIsDownload, Invariance, DeniedInvariance, PTL
        DEF Spec, ImplementsDownload, Promise!Spec, Promise!vars, Seen, Len, Have
=============================================================================
