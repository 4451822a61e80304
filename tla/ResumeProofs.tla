---------------------------- MODULE ResumeProofs ----------------------------
(***************************************************************************)
(* Theorems about Resume, for all contents of any lengths, any number of   *)
(* threads and sessions and any order of kills and power losses.  What is  *)
(* on the disk is right provided that the validators tell apart what the   *)
(* URL may serve; that a stopped download goes on needs no such thing.     *)
(***************************************************************************)
EXTENDS Resume, TLAPS

(* What the proofs ask of the server: contents of one length differ in the *)
(* validator it sends for both, and it does not switch between the two.    *)
ValidatorsTell ==
  /\ StableHeaders
  /\ \A v, w \in Versions :
       v # w /\ FileLen[v] = FileLen[w] /\ (ETag[v] = None <=> ETag[w] = None) =>
         \/ ETag[v] # None /\ ETag[w] # None /\ ETag[v] # ETag[w]
         \/ /\ ETag[v] = None /\ LastModified[v] # None /\ LastModified[w] # None
            /\ LastModified[v] # LastModified[w]

-----------------------------------------------------------------------------
(* The layout.                                                             *)

LEMMA Times == \A a, b, q \in Nat : (a + b) * q = a * q + b * q /\ a * q \in Nat
OBVIOUS

LEMMA Divided ==
  ASSUME NEW p \in Nat, NEW q \in Nat \ {0}
  PROVE  \E d \in Nat : d * q <= p /\ p < d * q + q
<1>1. p \div q \in Nat /\ (p \div q) * q <= p /\ p < (p \div q) * q + q
  OBVIOUS
<1> QED BY <1>1

LEMMA PartLenType ==
  ASSUME NEW len \in Nat \ {0}, NEW n \in Nat \ {0}, NEW i \in 1..n
  PROVE  /\ PartStart(i, n, len) \in Nat /\ PartLen(i, n, len) \in Nat
         /\ PartStart(i, n, len) + PartLen(i, n, len) <= len
<1> DEFINE q == len \div n
<1>1. q \in Nat /\ n * q <= len
  OBVIOUS
<1>2. PICK a \in Nat : i = a + 1
  <2>1. i - 1 \in Nat /\ i = (i - 1) + 1
    OBVIOUS
  <2> QED BY <2>1
<1>3. PICK b \in Nat : n = i + b
  <2>1. n - i \in Nat /\ n = i + (n - i)
    OBVIOUS
  <2> QED BY <2>1
<1>4. a * q \in Nat /\ b * q \in Nat
  BY <1>1
<1>5. (i - 1) * q = a * q /\ i * q = a * q + q /\ n * q = i * q + b * q
  BY <1>1, <1>2, <1>3
<1> HIDE DEF q
<1> QED
  <2>1. PartStart(i, n, len) = a * q
    BY <1>5 DEF PartStart, q
  <2>2. PartEnd(i, n, len) = IF i < n THEN i * q ELSE len
    BY DEF PartEnd, q
  <2> QED BY <1>1, <1>4, <1>5, <2>1, <2>2 DEF PartLen

(* Every place of the file is in one of its parts.                         *)
LEMMA PartsCover ==
  ASSUME NEW len \in Nat \ {0}, NEW n \in Nat \ {0}, NEW p \in 0..(len - 1)
  PROVE  \E i \in 1..n : \E k \in Nat :
           k < PartLen(i, n, len) /\ p = PartStart(i, n, len) + k
<1> DEFINE q == len \div n
<1>1. q \in Nat /\ n * q <= len
  OBVIOUS
<1>2. PICK m \in Nat : n = m + 1
  <2>1. n - 1 \in Nat /\ n = (n - 1) + 1
    OBVIOUS
  <2> QED BY <2>1
<1>3. \A i \in 1..n : /\ PartStart(i, n, len) = (i - 1) * q
                       /\ PartEnd(i, n, len) = IF i < n THEN i * q ELSE len
  BY DEF PartStart, PartEnd
<1> HIDE DEF q
<1>4. m * q \in Nat
  BY <1>1, Times
<1>5. CASE p >= m * q
  <2>1. n \in 1..n /\ n - 1 = m
    BY <1>2
  <2>2. PartStart(n, n, len) = m * q /\ PartLen(n, n, len) = len - m * q
    BY <1>3, <2>1 DEF PartLen
  <2>3. p - m * q \in Nat /\ p - m * q < len - m * q /\ p = m * q + (p - m * q)
    BY <1>4, <1>5
  <2> QED BY <2>1, <2>2, <2>3
<1>6. CASE p < m * q
  <2>1. q > 0
    <3>1. q = 0 => m * q = 0
      BY <1>2
    <3> QED BY <1>1, <1>6, <3>1
  <2>2. PICK d \in Nat : d * q <= p /\ p < d * q + q
    <3>1. p \in Nat /\ q \in Nat \ {0}
      BY <1>1, <2>1
    <3> QED BY <3>1, Divided
  <2>3. d * q \in Nat /\ (d + 1) * q = d * q + 1 * q /\ 1 * q = q
    BY <1>1, Times
  <2>4. d < m
    <3> SUFFICES ASSUME d >= m PROVE FALSE
      BY <1>2
    <3>1. PICK e \in Nat : d = m + e
      <4>1. d - m \in Nat /\ d = m + (d - m)
        BY <1>2
      <4> QED BY <4>1
    <3>2. d * q = m * q + e * q /\ e * q \in Nat
      BY <1>1, <1>2, <3>1, Times
    <3> QED BY <1>4, <1>6, <2>2, <2>3, <3>2
  <2>5. d + 1 \in 1..n /\ d + 1 < n /\ (d + 1) - 1 = d
    BY <1>2, <2>4
  <2>6. PartStart(d + 1, n, len) = d * q /\ PartLen(d + 1, n, len) = q
    BY <1>1, <1>3, <2>3, <2>5 DEF PartLen
  <2>7. p - d * q \in Nat /\ p - d * q < q /\ p = d * q + (p - d * q)
    BY <1>1, <2>2, <2>3
  <2> QED BY <2>5, <2>6, <2>7
<1> QED BY <1>4, <1>5, <1>6

-----------------------------------------------------------------------------
(* The invariant.                                                          *)

Sent(v) == ETag[v] # None        \* an ETag comes with version v

(* The place of the k-th byte of part i, and whether the bytes a part list *)
(* counts are there, the last place of the file left out.                  *)
Place(i, k, written, len) == PartStart(i, Len(written), len) + k
Holds(bytes, written, len, v) ==
  \A i \in DOMAIN written : \A k \in Nat :
    k < written[i] /\ Place(i, k, written, len) # len - 1 =>
      bytes[Place(i, k, written, len)] = v

(* A list of parts of a file of length len.                                *)
PartList(written, len) ==
  /\ written \in Seq(Nat)
  /\ \A i \in DOMAIN written : written[i] <= PartLen(i, Len(written), len)

Types ==
  /\ remote \in Versions /\ probed \in Versions
  /\ cache \in [Positions -> Content] /\ disk \in [Positions -> Content]
  /\ size \in Positions
  /\ meta = NoMeta \/ (meta.schema \in {1, 2} /\ meta.of \in Versions)
  /\ phase \in {"idle", "transfer", "saving"}
  /\ ranges \in BOOLEAN
  /\ outcome \in {"none", "complete", "stopped", "lost"}
  /\ sessions \in 0..MaxSessions
  /\ outdated \in BOOLEAN /\ misled \in BOOLEAN

(* The meta that LoadPartMeta would trust.                                 *)
MetaShape ==
  meta.schema = 2 =>
    /\ meta.of \in Versions
    /\ meta.filelen = FileLen[meta.of] /\ meta.filelen <= size
    /\ meta.etag = ETag[meta.of] /\ meta.last_modified = LastModified[meta.of]
    /\ PartList(meta.written, meta.filelen)
    /\ Sent(meta.of) = Sent(remote)

SessionShape ==
  /\ PartList(done, FileLen[probed])
  /\ Sent(probed) = Sent(remote)
  /\ phase # "idle" => Len(done) > 0 /\ FileLen[probed] <= size
  /\ phase = "saving" => disk = cache /\ outdated = misled

(* What a trusted meta counts is there, in the pages and on the disk, and  *)
(* a session only adds to it.                                              *)
MetaHolds ==
  meta.schema = 2 /\ ~outdated =>
    /\ Holds(cache, meta.written, meta.filelen, meta.of)
    /\ Holds(disk, meta.written, meta.filelen, meta.of)
    /\ phase = "transfer" => meta.of = probed

SessionHolds ==
  phase # "idle" /\ ~misled => Holds(cache, done, FileLen[probed], probed)

CompleteHolds ==
  outcome = "complete" => phase = "idle" /\ CompleteButLastByte

ResumeIInv ==
  Types /\ MetaShape /\ SessionShape /\ MetaHolds /\ SessionHolds /\ CompleteHolds

-----------------------------------------------------------------------------
LEMMA Known ==
  /\ \A v \in Versions : FileLen[v] \in Nat \ {0} /\ 0..FileLen[v] \subseteq Positions
  /\ ForeignSizes \subseteq Positions /\ Positions \subseteq Nat
  /\ \A n \in Positions : 0..n \subseteq Positions
<1> DEFINE top == CHOOSE n \in Lengths : \A m \in Lengths : m <= n
<1>1. top \in Lengths /\ \A m \in Lengths : m <= top
  BY ResumeAssumption
<1>2. Lengths \subseteq Nat
  BY ResumeAssumption DEF Lengths
<1>3. Positions = 0..top
  BY DEF Positions
<1>4. ForeignSizes \subseteq Lengths /\ \A v \in Versions : FileLen[v] \in Lengths
  BY DEF Lengths
<1>5. \A v \in Versions : FileLen[v] \in Nat \ {0}
  BY ResumeAssumption
<1> HIDE DEF top
<1> QED BY <1>1, <1>2, <1>3, <1>4, <1>5

(* A counted byte lies in the file.                                        *)
LEMMA PlaceType ==
  ASSUME NEW len \in Nat \ {0}, NEW written, PartList(written, len),
         NEW i \in DOMAIN written, NEW k \in Nat, k < PartLen(i, Len(written), len)
  PROVE  Place(i, k, written, len) \in 0..(len - 1)
<1>1. Len(written) \in Nat \ {0} /\ i \in 1..Len(written)
  BY DEF PartList
<1>2. /\ PartStart(i, Len(written), len) \in Nat
      /\ PartStart(i, Len(written), len) + PartLen(i, Len(written), len) <= len
      /\ PartLen(i, Len(written), len) \in Nat
  BY <1>1, PartLenType
<1> QED BY <1>2 DEF Place

LEMMA CountedPlace ==
  ASSUME NEW len \in Nat \ {0}, NEW written, PartList(written, len),
         NEW i \in DOMAIN written, NEW k \in Nat, k < written[i]
  PROVE  Place(i, k, written, len) \in 0..(len - 1)
<1>1. /\ written[i] \in Nat /\ written[i] <= PartLen(i, Len(written), len)
      /\ Len(written) \in Nat \ {0} /\ i \in 1..Len(written)
  BY DEF PartList
<1>2. PartLen(i, Len(written), len) \in Nat
  BY <1>1, PartLenType
<1>3. k < PartLen(i, Len(written), len)
  BY <1>1, <1>2
<1> QED BY <1>3, PlaceType

(* Counted bytes stay where the bytes below the last one stay.             *)
LEMMA HoldsKept ==
  ASSUME NEW len \in Nat \ {0}, NEW written, PartList(written, len), NEW v,
         NEW bytes, NEW later, Holds(bytes, written, len, v),
         \A p \in 0..(len - 2) : bytes[p] = v => later[p] = v
  PROVE  Holds(later, written, len, v)
<1> SUFFICES ASSUME NEW i \in DOMAIN written, NEW k \in Nat, k < written[i],
                    Place(i, k, written, len) # len - 1
             PROVE  later[Place(i, k, written, len)] = v
  BY DEF Holds
<1>1. Place(i, k, written, len) \in 0..(len - 1)
  BY CountedPlace
<1>2. Place(i, k, written, len) \in 0..(len - 2)
  BY <1>1
<1> QED BY <1>2 DEF Holds

(* With such validators a meta that LoadPartMeta trusts is of the version  *)
(* that is served.                                                         *)
LEMMA TrustedIsServed ==
  ASSUME ValidatorsTell, NEW m, NEW v \in Versions, NEW w \in Versions,
         m.filelen = FileLen[v], m.etag = ETag[v], m.last_modified = LastModified[v],
         Sent(v) = Sent(w), LoadPartMeta(m, w) = "Ok"
  PROVE  v = w
BY DEF ValidatorsTell, Sent, LoadPartMeta, Unusable, Changed

LEMMA InitIInv == Init => ResumeIInv
<1> SUFFICES ASSUME Init PROVE ResumeIInv
  OBVIOUS
<1>1. meta = NoMeta \/ (meta.schema = 1 /\ meta.of \in Versions)
  BY DEF Init, MetaOf
<1>2. meta.schema # 2
  BY <1>1 DEF NoMeta
<1>3. Types
  BY <1>1, Known, ResumeAssumption DEF Init, Types, Content
<1>4. done = <<>> /\ phase = "idle" /\ outcome = "none" /\ probed = remote
  BY DEF Init
<1>5. PartList(done, FileLen[probed])
  BY <1>4 DEF PartList
<1> QED BY <1>2, <1>3, <1>4, <1>5 DEF ResumeIInv, MetaShape, SessionShape, MetaHolds,
           SessionHolds, CompleteHolds

(* Steps that leave the bytes, the list of parts and the meta alone, or    *)
(* take the meta away.                                                     *)
LEMMA KillStep == ResumeIInv /\ Kill => ResumeIInv'
BY DEF ResumeIInv, Kill, history, Types, MetaShape, SessionShape, MetaHolds, SessionHolds,
       CompleteHolds, CompleteButLastByte

LEMMA FlushStep == ResumeIInv /\ Flush => ResumeIInv'
BY DEF ResumeIInv, Flush, history, Types, MetaShape, SessionShape, MetaHolds, SessionHolds,
       CompleteHolds, CompleteButLastByte

LEMMA ServerStep == ResumeIInv /\ ValidatorsTell /\ ServerChanges => ResumeIInv'
BY DEF ResumeIInv, ServerChanges, ValidatorsTell, Sent, history, Types, MetaShape,
       SessionShape, MetaHolds, SessionHolds, CompleteHolds, CompleteButLastByte

LEMMA PowerLossStep == ResumeIInv /\ PowerLoss => ResumeIInv'
<1> SUFFICES ASSUME ResumeIInv, PowerLoss PROVE ResumeIInv'
  OBVIOUS
<1>1. PICK kept \in SUBSET {p \in Positions : cache[p] # disk[p]} :
        disk' = [p \in Positions |-> IF p \in kept THEN cache[p] ELSE disk[p]]
  BY DEF PowerLoss
<1>2. /\ cache' = disk' /\ phase' = "idle" /\ outcome' = "lost"
      /\ UNCHANGED <<remote, size, meta, probed, ranges, done, sessions, outdated, misled>>
  BY DEF PowerLoss, history
<1>3. Types'
  BY <1>1, <1>2 DEF ResumeIInv, Types
<1>4. MetaShape' /\ SessionShape' /\ SessionHolds' /\ CompleteHolds'
  BY <1>2 DEF ResumeIInv, MetaShape, SessionShape, SessionHolds, CompleteHolds
<1>5. MetaHolds'
  <2> SUFFICES ASSUME meta.schema = 2, ~outdated
               PROVE  Holds(disk', meta.written, meta.filelen, meta.of)
    BY <1>2 DEF MetaHolds
  <2>1. /\ PartList(meta.written, meta.filelen) /\ meta.filelen \in Nat \ {0}
        /\ 0..meta.filelen \subseteq Positions
    BY Known DEF ResumeIInv, MetaShape
  <2>2. /\ Holds(cache, meta.written, meta.filelen, meta.of)
        /\ Holds(disk, meta.written, meta.filelen, meta.of)
    BY DEF ResumeIInv, MetaHolds
  <2> SUFFICES ASSUME NEW i \in DOMAIN meta.written, NEW k \in Nat,
                      k < meta.written[i],
                      Place(i, k, meta.written, meta.filelen) # meta.filelen - 1
               PROVE  disk'[Place(i, k, meta.written, meta.filelen)] = meta.of
    BY DEF Holds
  <2>3. Place(i, k, meta.written, meta.filelen) \in 0..(meta.filelen - 1)
    BY <2>1, CountedPlace
  <2>4. Place(i, k, meta.written, meta.filelen) \in Positions
    BY <2>1, <2>3
  <2> QED BY <1>1, <2>2, <2>4 DEF Holds
<1> QED BY <1>3, <1>4, <1>5 DEF ResumeIInv

(* A list with one byte more in part i.                                    *)
Grown(list, i, more) == more = [list EXCEPT ![i] = @ + 1]

LEMMA OneMore ==
  ASSUME NEW len \in Nat \ {0}, NEW list, PartList(list, len), NEW i \in DOMAIN list,
         list[i] # PartLen(i, Len(list), len), NEW more, Grown(list, i, more)
  PROVE  PartList(more, len) /\ Len(more) = Len(list)
<1>1. /\ list \in Seq(Nat) /\ list[i] \in Nat /\ list[i] <= PartLen(i, Len(list), len)
      /\ Len(list) \in Nat \ {0} /\ i \in 1..Len(list)
  BY DEF PartList
<1>2. more \in Seq(Nat) /\ Len(more) = Len(list) /\ DOMAIN more = DOMAIN list
  BY <1>1 DEF Grown
<1>3. ASSUME NEW j \in DOMAIN list PROVE more[j] <= PartLen(j, Len(list), len)
  <2>1. j \in 1..Len(list) /\ list[j] <= PartLen(j, Len(list), len)
    BY DEF PartList
  <2>2. PartLen(j, Len(list), len) \in Nat
    BY <1>1, <2>1, PartLenType
  <2> QED BY <1>1, <2>1, <2>2 DEF Grown
<1> QED BY <1>2, <1>3 DEF PartList

(* One byte of the served version, below the ones that are there.          *)
LEMMA WriteStep == ASSUME ResumeIInv, NEW i, Write(i) PROVE ResumeIInv'
<1> DEFINE len == FileLen[probed]
           new == Place(i, done[i], done, len)
<1>1. /\ phase = "transfer" /\ i \in DOMAIN done /\ done[i] # PartLen(i, Len(done), len)
      /\ cache' = [cache EXCEPT ![new] = probed]
      /\ done' = [done EXCEPT ![i] = @ + 1]
      /\ UNCHANGED <<remote, disk, size, meta, phase, probed, ranges, outcome, sessions,
                     outdated, misled>>
  BY DEF Write, Written, Parted, Place, history
<1>2. /\ len \in Nat \ {0} /\ 0..len \subseteq Positions /\ probed \in Versions
      /\ PartList(done, len)
  BY Known DEF ResumeIInv, Types, SessionShape
<1> HIDE DEF len
<1>3. /\ done \in Seq(Nat) /\ done[i] \in Nat /\ done[i] < PartLen(i, Len(done), len)
      /\ Len(done) \in Nat \ {0} /\ i \in 1..Len(done)
  <2>1. /\ done \in Seq(Nat) /\ done[i] \in Nat /\ done[i] <= PartLen(i, Len(done), len)
        /\ Len(done) \in Nat \ {0} /\ i \in 1..Len(done)
    BY <1>1, <1>2 DEF PartList
  <2>2. PartLen(i, Len(done), len) \in Nat
    BY <1>2, <2>1, PartLenType
  <2> QED BY <1>1, <2>1, <2>2
<1>4. new \in 0..(len - 1) /\ new \in Positions
  <2>1. new \in 0..(len - 1)
    BY <1>1, <1>2, <1>3, PlaceType
  <2> QED BY <1>2, <2>1
<1>5. Len(done') = Len(done) /\ done' \in Seq(Nat) /\ DOMAIN done' = DOMAIN done
  BY <1>1, <1>3
<1>6. PartList(done', len)
  <2>1. Grown(done, i, done')
    BY <1>1 DEF Grown
  <2> QED BY <1>1, <1>2, <2>1, OneMore
<1>7. cache \in [Positions -> Content] /\ cache'[new] = probed
      /\ \A p \in Positions : p # new => cache'[p] = cache[p]
  BY <1>1, <1>4 DEF ResumeIInv, Types
<1> HIDE DEF new
<1>8. Types' /\ MetaShape' /\ CompleteHolds'
  <2>1. cache' \in [Positions -> Content]
    BY <1>1, <1>2, <1>7 DEF Content
  <2>2. outcome # "complete"
    BY <1>1 DEF ResumeIInv, CompleteHolds
  <2> QED BY <1>1, <2>1, <2>2 DEF ResumeIInv, Types, MetaShape, CompleteHolds
<1>9. SessionShape'
  BY <1>1, <1>5, <1>6 DEF ResumeIInv, SessionShape, len
<1>10. MetaHolds'
  <2> SUFFICES ASSUME meta.schema = 2, ~outdated
               PROVE  Holds(cache', meta.written, meta.filelen, meta.of)
    BY <1>1 DEF ResumeIInv, MetaHolds
  <2>1. /\ PartList(meta.written, meta.filelen) /\ meta.filelen \in Nat \ {0}
        /\ 0..meta.filelen \subseteq Positions
    BY Known DEF ResumeIInv, MetaShape
  <2>2. Holds(cache, meta.written, meta.filelen, meta.of) /\ meta.of = probed
    BY <1>1 DEF ResumeIInv, MetaHolds
  <2>3. \A p \in 0..(meta.filelen - 2) : cache[p] = meta.of => cache'[p] = meta.of
    <3> SUFFICES ASSUME NEW p \in 0..(meta.filelen - 2), cache[p] = meta.of
                 PROVE  cache'[p] = meta.of
      OBVIOUS
    <3>1. p \in Positions
      BY <2>1
    <3> QED BY <1>7, <2>2, <3>1
  <2> QED BY <2>1, <2>2, <2>3, HoldsKept
<1>11. SessionHolds'
  <2> SUFFICES ASSUME ~misled PROVE Holds(cache', done', len, probed)
    BY <1>1 DEF SessionHolds, len
  <2>1. Holds(cache, done, len, probed)
    BY <1>1 DEF ResumeIInv, SessionHolds, len
  <2> SUFFICES ASSUME NEW j \in DOMAIN done, NEW k \in Nat, k < done'[j],
                      Place(j, k, done', len) # len - 1
               PROVE  cache'[Place(j, k, done', len)] = probed
    BY <1>5 DEF Holds
  <2>2. Place(j, k, done', len) = Place(j, k, done, len)
    BY <1>5 DEF Place
  <2>3. Place(j, k, done, len) \in Positions
    <3>1. Place(j, k, done', len) \in 0..(len - 1)
      BY <1>2, <1>5, <1>6, CountedPlace
    <3> QED BY <1>2, <2>2, <3>1
  <2>4. CASE j = i /\ k = done[i]
    BY <1>7, <2>2, <2>4 DEF new
  <2>5. CASE ~(j = i /\ k = done[i])
    <3>1. done[j] \in Nat /\ k < done[j]
      BY <1>1, <1>3, <2>5
    <3>2. cache[Place(j, k, done, len)] = probed
      BY <2>1, <2>2, <3>1 DEF Holds
    <3> QED BY <1>7, <2>2, <2>3, <3>2
  <2> QED BY <2>4, <2>5
<1> QED BY <1>8, <1>9, <1>10, <1>11 DEF ResumeIInv

LEMMA PartsType ==
  ASSUME NEW threads \in Nat \ {0}, NEW range \in BOOLEAN, NEW len \in Nat \ {0}
  PROVE  Parts(threads, range, len, MinPart) \in Nat \ {0}
<1>1. len \div MinPart \in Nat
  BY ResumeAssumption
<1> QED BY <1>1 DEF Parts, Smaller, Larger

LEMMA ExtendedType ==
  ASSUME cache \in [Positions -> Content], NEW trunc \in BOOLEAN, NEW len
  PROVE  Extended(trunc, len) \in [Positions -> Content]
BY DEF Extended, Content

LEMMA DegradeStep == ResumeIInv /\ Degrade => ResumeIInv'
<1> SUFFICES ASSUME ResumeIInv, Degrade PROVE ResumeIInv'
  OBVIOUS
<1>1. /\ ranges' = FALSE /\ meta' = NoMeta /\ done' = <<0>>
      /\ cache' = Extended(FALSE, FileLen[probed])
      /\ outdated' = FALSE /\ misled' = FALSE /\ phase = "transfer"
      /\ UNCHANGED <<remote, disk, size, phase, probed, outcome, sessions>>
  BY DEF Degrade
<1>2. meta'.schema # 2
  BY <1>1 DEF NoMeta
<1>3. cache' \in [Positions -> Content]
  BY <1>1, ExtendedType DEF ResumeIInv, Types
<1>4. PartList(done', FileLen[probed])
  <2>1. PartLen(1, 1, FileLen[probed]) \in Nat
    BY Known, PartLenType DEF ResumeIInv, Types
  <2>2. done' \in Seq(Nat) /\ Len(done') = 1 /\ DOMAIN done' = {1} /\ done'[1] = 0
    BY <1>1
  <2> QED BY <2>1, <2>2 DEF PartList
<1>5. Types' /\ MetaShape' /\ MetaHolds' /\ CompleteHolds'
  BY <1>1, <1>2, <1>3 DEF ResumeIInv, Types, MetaShape, MetaHolds, CompleteHolds
<1>6. SessionShape'
  BY <1>1, <1>4 DEF ResumeIInv, SessionShape
<1>7. SessionHolds'
  BY <1>1 DEF SessionHolds, Holds
<1> QED BY <1>5, <1>6, <1>7 DEF ResumeIInv

(* All parts are written, and they cover the file.                         *)
LEMMA CompleteStep == ResumeIInv /\ Complete => ResumeIInv'
<1> SUFFICES ASSUME ResumeIInv, Complete PROVE ResumeIInv'
  OBVIOUS
<1> DEFINE len == FileLen[probed]
<1>1. /\ phase = "transfer" /\ meta' = NoMeta /\ phase' = "idle"
      /\ outcome' = "complete" /\ outdated' = FALSE
      /\ \A i \in DOMAIN done : done[i] = PartLen(i, Len(done), len)
      /\ UNCHANGED <<remote, cache, disk, size, probed, ranges, done, sessions, misled>>
  BY DEF Complete, Written, Parted
<1>2. meta'.schema # 2
  BY <1>1 DEF NoMeta
<1>3. Types' /\ MetaShape' /\ MetaHolds' /\ SessionShape' /\ SessionHolds'
  BY <1>1, <1>2 DEF ResumeIInv, Types, MetaShape, MetaHolds, SessionShape, SessionHolds
<1>4. CompleteHolds'
  <2> SUFFICES ASSUME ~misled, NEW p \in 0..(len - 2) PROVE cache[p] = probed
    BY <1>1 DEF CompleteHolds, CompleteButLastByte
  <2>1. /\ len \in Nat \ {0} /\ Len(done) \in Nat \ {0} /\ DOMAIN done = 1..Len(done)
        /\ Holds(cache, done, len, probed)
    BY <1>1, Known DEF ResumeIInv, Types, SessionShape, SessionHolds, PartList
  <2> HIDE DEF len
  <2>2. p \in 0..(len - 1) /\ p # len - 1
    BY <2>1
  <2>3. PICK i \in 1..Len(done), k \in Nat :
          k < PartLen(i, Len(done), len) /\ p = PartStart(i, Len(done), len) + k
    BY <2>1, <2>2, PartsCover
  <2>4. k < done[i] /\ p = Place(i, k, done, len)
    BY <1>1, <2>1, <2>3 DEF Place
  <2> QED BY <2>1, <2>2, <2>3, <2>4 DEF Holds
<1> QED BY <1>3, <1>4 DEF ResumeIInv

(* What is saved as written has been flushed before.                       *)
LEMMA StopStep == ResumeIInv /\ Stop => ResumeIInv'
<1> SUFFICES ASSUME ResumeIInv, Stop PROVE ResumeIInv'
  OBVIOUS
<1>1. /\ phase = "transfer" /\ disk' = cache
      /\ UNCHANGED <<remote, cache, size, probed, ranges, done, sessions, misled>>
  BY DEF Stop
<1>2. CASE phase' = "saving" /\ meta' = MetaOf(probed, <<>>) /\ outdated' = misled
           /\ UNCHANGED outcome
  <2>1. /\ meta'.schema = 2 /\ meta'.of = probed /\ meta'.filelen = FileLen[probed]
        /\ meta'.etag = ETag[probed] /\ meta'.last_modified = LastModified[probed]
        /\ meta'.written = <<>>
    BY <1>2 DEF MetaOf
  <2>2. PartList(<<>>, FileLen[probed])
    BY DEF PartList
  <2>3. Types' /\ MetaShape' /\ SessionShape' /\ CompleteHolds' /\ SessionHolds'
    BY <1>1, <1>2, <2>1, <2>2 DEF ResumeIInv, Types, MetaShape, SessionShape,
       CompleteHolds, SessionHolds
  <2>4. MetaHolds'
    BY <1>2, <2>1 DEF MetaHolds, Holds
  <2> QED BY <2>3, <2>4 DEF ResumeIInv
<1>3. CASE phase' = "idle" /\ outcome' = "lost" /\ UNCHANGED <<meta, outdated>>
  BY <1>1, <1>3 DEF ResumeIInv, Types, MetaShape, SessionShape, MetaHolds, SessionHolds,
     CompleteHolds
<1> QED BY <1>2, <1>3 DEF Stop

LEMMA SaveStep == ResumeIInv /\ SavePartMeta => ResumeIInv'
<1> SUFFICES ASSUME ResumeIInv, SavePartMeta PROVE ResumeIInv'
  OBVIOUS
<1>1. /\ phase = "saving" /\ meta' = MetaOf(probed, done) /\ phase' = "idle"
      /\ outcome' = "stopped"
      /\ UNCHANGED <<remote, cache, disk, size, probed, ranges, done, sessions,
                     outdated, misled>>
  BY DEF SavePartMeta, history
<1>2. /\ meta'.schema = 2 /\ meta'.of = probed /\ meta'.filelen = FileLen[probed]
      /\ meta'.etag = ETag[probed] /\ meta'.last_modified = LastModified[probed]
      /\ meta'.written = done
  BY <1>1 DEF MetaOf
<1>3. Types' /\ MetaShape' /\ SessionShape' /\ CompleteHolds' /\ SessionHolds'
  BY <1>1, <1>2 DEF ResumeIInv, Types, MetaShape, SessionShape, CompleteHolds, SessionHolds
<1>4. MetaHolds'
  BY <1>1, <1>2 DEF ResumeIInv, SessionShape, SessionHolds, MetaHolds
<1> QED BY <1>3, <1>4 DEF ResumeIInv

LEMMA ListIsSeq ==
  ASSUME NEW n \in Nat, NEW f \in [1..n -> Nat]
  PROVE  f \in Seq(Nat) /\ Len(f) = n /\ DOMAIN f = 1..n
OBVIOUS

(* A session that takes a meta over lays the file out as the last one did, *)
(* over the bytes the meta counts; any other starts from nothing.          *)
LEMMA StartStep ==
  ASSUME ResumeIInv, ValidatorsTell, NEW threads \in 1..MaxThreads,
         NEW range \in BOOLEAN, NEW ok \in BOOLEAN, StartSession(threads, range, ok)
  PROVE  ResumeIInv'
<1> DEFINE len   == FileLen[remote]
           res   == IF size > 0 THEN LoadPartMeta(meta, remote) ELSE "None"
           trunc == res = "Ok" /\ ~range
           n     == Parts(threads, range, len, MinPart)
           have  == res = "Ok" /\ range /\ Len(meta.written) = n
<1>1. /\ phase = "idle" /\ sessions < MaxSessions
      /\ sessions' = sessions + 1 /\ probed' = remote /\ ranges' = range
      /\ meta' = IF have \/ res = "None" THEN meta ELSE NoMeta
      /\ cache' = Extended(trunc, len)
      /\ size' = IF trunc THEN len ELSE Larger(size, len)
      /\ done' = [i \in 1..n |->
                    IF have THEN Smaller(meta.written[i], PartLen(i, n, len)) ELSE 0]
      /\ phase' = IF ok THEN "transfer" ELSE "idle"
      /\ outcome' = IF ok THEN "none" ELSE "lost"
      /\ outdated' = (meta' # NoMeta /\ (outdated \/ ~have))
      /\ misled' = (have /\ outdated)
      /\ UNCHANGED <<remote, disk>>
  BY DEF StartSession
<1>2. have => res = "Ok" /\ range
  OBVIOUS
<1>3. /\ len \in Nat \ {0} /\ len \in Positions /\ size \in Positions /\ size \in Nat
      /\ remote \in Versions /\ cache \in [Positions -> Content]
      /\ MaxSessions \in Nat /\ sessions \in 0..MaxSessions
  BY Known, ResumeAssumption DEF ResumeIInv, Types
<1>4. n \in Nat \ {0}
  <2>1. threads \in Nat \ {0}
    BY ResumeAssumption
  <2> QED BY <1>3, <2>1, PartsType
<1>5. res = "Ok" => meta.schema = 2 /\ LoadPartMeta(meta, remote) = "Ok"
  BY DEF LoadPartMeta, Changed
<1>6. have => /\ meta.of = remote /\ meta.filelen = len /\ len <= size
              /\ PartList(meta.written, len) /\ Len(meta.written) = n
  <2> SUFFICES ASSUME have PROVE /\ meta.of = remote /\ meta.filelen = len /\ len <= size
                                 /\ PartList(meta.written, len)
    OBVIOUS
  <2>1. meta.schema = 2 /\ LoadPartMeta(meta, remote) = "Ok"
    BY <1>5
  <2>2. meta.of = remote
    BY <1>3, <2>1, TrustedIsServed DEF ResumeIInv, MetaShape
  <2> QED BY <2>1, <2>2 DEF ResumeIInv, MetaShape
<1>7. trunc \in BOOLEAN /\ have \in BOOLEAN /\ (have => ~trunc)
  OBVIOUS
<1> HIDE DEF n, res, trunc, have
<1>8. \A i \in 1..n : PartLen(i, n, len) \in Nat
  BY <1>3, <1>4, PartLenType
<1>9. /\ done' \in Seq(Nat) /\ Len(done') = n /\ DOMAIN done' = 1..n
      /\ \A i \in 1..n : /\ done'[i] <= PartLen(i, n, len)
                         /\ have => done'[i] = meta.written[i]
                         /\ ~have => done'[i] = 0
  <2>1. have => \A i \in 1..n : meta.written[i] \in Nat /\ meta.written[i] <= PartLen(i, n, len)
    BY <1>6 DEF PartList
  <2>2. /\ done' \in [1..n -> Nat]
        /\ \A i \in 1..n : /\ done'[i] <= PartLen(i, n, len)
                           /\ have => done'[i] = meta.written[i]
                           /\ ~have => done'[i] = 0
    <3>1. CASE have
      <4>1. \A i \in 1..n : Smaller(meta.written[i], PartLen(i, n, len)) = meta.written[i]
        BY <1>8, <2>1, <3>1 DEF Smaller
      <4>2. done' = [i \in 1..n |-> meta.written[i]]
        BY <1>1, <3>1, <4>1
      <4> QED BY <2>1, <3>1, <4>2
    <3>2. CASE ~have
      <4>1. done' = [i \in 1..n |-> 0]
        BY <1>1, <3>2
      <4> QED BY <1>8, <3>2, <4>1
    <3> QED BY <3>1, <3>2
  <2> QED BY <1>4, <2>2, ListIsSeq
<1>10. PartList(done', len)
  BY <1>9 DEF PartList
<1>11. /\ size' \in Positions /\ size' \in Nat /\ len <= size'
       /\ meta' = meta /\ meta.schema = 2 => size <= size'
  <2>1. Larger(size, len) \in {size, len} /\ size <= Larger(size, len) /\ len <= Larger(size, len)
    BY <1>3 DEF Larger
  <2>2. trunc /\ meta.schema = 2 => meta' # meta
    BY <1>1, <1>7 DEF NoMeta, trunc
  <2> QED BY <1>1, <1>3, <1>7, <2>1, <2>2
<1>12. Types'
  <2>1. cache' \in [Positions -> Content]
    BY <1>1, <1>3, <1>7, ExtendedType
  <2>2. meta' = NoMeta \/ meta' = meta
    BY <1>1
  <2>3. outdated' \in BOOLEAN /\ misled' \in BOOLEAN
    BY <1>1, <1>7
  <2> QED BY <1>1, <1>3, <1>11, <2>1, <2>2, <2>3 DEF ResumeIInv, Types
<1>13. MetaShape'
  <2> SUFFICES ASSUME meta'.schema = 2 PROVE MetaShape'
    BY DEF MetaShape
  <2>1. meta' = meta
    BY <1>1 DEF NoMeta
  <2>2. meta.filelen \in Nat
    BY <2>1, Known DEF ResumeIInv, MetaShape
  <2> QED BY <1>1, <1>3, <1>11, <2>1, <2>2 DEF ResumeIInv, MetaShape
<1>14. SessionShape'
  BY <1>1, <1>4, <1>9, <1>10, <1>11 DEF SessionShape
<1>15. have /\ ~outdated => \A p \in 0..(len - 2) : cache[p] = remote => cache'[p] = remote
  <2> SUFFICES ASSUME have, ~outdated, NEW p \in 0..(len - 2), cache[p] = remote
               PROVE  cache'[p] = remote
    OBVIOUS
  <2>1. p \in Positions
    <3>1. 0..len \subseteq Positions
      BY <1>3, Known
    <3> QED BY <1>3, <3>1
  <2>2. ~(p >= size) /\ p # len - 1
    BY <1>3, <1>6
  <2> QED BY <1>1, <1>7, <2>1, <2>2 DEF Extended
<1>16. MetaHolds'
  <2> SUFFICES ASSUME meta'.schema = 2, ~outdated' PROVE MetaHolds'
    BY DEF MetaHolds
  <2>1. meta' = meta /\ meta.schema = 2 /\ have /\ ~outdated
    <3>1. meta' # NoMeta
      BY DEF NoMeta
    <3>2. meta' = meta
      BY <1>1, <3>1
    <3>3. outdated' <=> meta' # NoMeta /\ (outdated \/ ~have)
      BY <1>1, Zenon
    <3> QED BY <3>1, <3>2, <3>3
  <2>2. /\ Holds(cache, meta.written, len, remote) /\ Holds(disk, meta.written, len, remote)
        /\ PartList(meta.written, len) /\ meta.of = remote /\ meta.filelen = len
    BY <1>6, <2>1 DEF ResumeIInv, MetaHolds
  <2>3. Holds(cache', meta.written, len, remote)
    BY <1>3, <1>15, <2>1, <2>2, HoldsKept
  <2> QED BY <1>1, <2>1, <2>2, <2>3 DEF MetaHolds
<1>17. SessionHolds'
  <2>1. CASE have /\ ~outdated
    <3>1. Holds(cache, meta.written, len, remote) /\ PartList(meta.written, len)
      BY <1>5, <1>6, <2>1 DEF ResumeIInv, MetaHolds, have
    <3>2. Holds(cache', meta.written, len, remote)
      BY <1>3, <1>15, <2>1, <3>1, HoldsKept
    <3>3. DOMAIN meta.written = 1..n /\ Len(meta.written) = n
      BY <1>6, <2>1, <3>1 DEF PartList
    <3>4. Holds(cache', done', len, remote)
      BY <1>9, <2>1, <3>2, <3>3 DEF Holds, Place
    <3> QED BY <1>1, <3>4 DEF SessionHolds
  <2>2. CASE ~have
    <3>1. Holds(cache', done', len, remote)
      BY <1>9, <2>2 DEF Holds
    <3> QED BY <1>1, <3>1 DEF SessionHolds
  <2>3. CASE have /\ outdated
    BY <1>1, <2>3 DEF SessionHolds
  <2> QED BY <1>7, <2>1, <2>2, <2>3
<1>18. CompleteHolds'
  BY <1>1 DEF CompleteHolds
<1> QED BY <1>12, <1>13, <1>14, <1>16, <1>17, <1>18 DEF ResumeIInv

-----------------------------------------------------------------------------
LEMMA NextIInv == ValidatorsTell /\ ResumeIInv /\ [Next]_vars => ResumeIInv'
<1> SUFFICES ASSUME ValidatorsTell, ResumeIInv, [Next]_vars PROVE ResumeIInv'
  OBVIOUS
<1>1. ASSUME NEW threads \in 1..MaxThreads, NEW range \in BOOLEAN, NEW ok \in BOOLEAN,
             StartSession(threads, range, ok)
      PROVE  ResumeIInv'
  BY <1>1, StartStep
<1>2. ASSUME NEW i \in 1..MaxThreads, Write(i) PROVE ResumeIInv'
  BY <1>2, WriteStep
<1>3. CASE Flush \/ Degrade \/ Complete \/ Stop \/ SavePartMeta
  BY <1>3, FlushStep, DegradeStep, CompleteStep, StopStep, SaveStep
<1>4. CASE Kill \/ PowerLoss \/ ServerChanges
  BY <1>4, KillStep, PowerLossStep, ServerStep
<1>5. CASE UNCHANGED vars
  BY <1>5 DEF vars, history, ResumeIInv, Types, MetaShape, SessionShape, MetaHolds,
     SessionHolds, CompleteHolds, CompleteButLastByte
<1> QED BY <1>1, <1>2, <1>3, <1>4, <1>5 DEF Next, Session

LEMMA ResumeInvariance == ASSUME ValidatorsTell PROVE Spec => []ResumeIInv
<1>1. ResumeIInv /\ [Next]_vars => ResumeIInv'
  BY NextIInv
<1> QED BY <1>1, InitIInv, PTL DEF Spec

(* The meta is only ever behind the file, whatever is killed or loses its  *)
(* power, and whatever the URL serves from one session to the next.        *)
THEOREM MetaIsTrue == ASSUME ValidatorsTell PROVE Spec => []MetaTrue
<1>1. ResumeIInv => MetaTrue
  <2> SUFFICES ASSUME ResumeIInv PROVE MetaTrue
    OBVIOUS
  <2>1. TypeOK
    <3> SUFFICES ASSUME NEW i \in DOMAIN done
                 PROVE  done[i] \in 0..PartLen(i, Len(done), FileLen[probed])
      BY DEF ResumeIInv, Types, TypeOK, Parted
    <3>1. /\ Len(done) \in Nat \ {0} /\ i \in 1..Len(done) /\ done[i] \in Nat
          /\ done[i] <= PartLen(i, Len(done), FileLen[probed])
      BY DEF ResumeIInv, SessionShape, PartList
    <3>2. PartLen(i, Len(done), FileLen[probed]) \in Nat
      BY <3>1, Known, PartLenType DEF ResumeIInv, Types
    <3> QED BY <3>1, <3>2
  <2>2. ASSUME meta.schema = 2, ~outdated, NEW p \in Counted(meta) \ {meta.filelen - 1}
        PROVE  disk[p] = meta.of
    <3>a. PICK i \in DOMAIN meta.written :
            p \in {PartStart(i, Len(meta.written), meta.filelen) + k :
                    k \in 0..(meta.written[i] - 1)}
      BY <2>2 DEF Counted
    <3>1. PICK k \in 0..(meta.written[i] - 1) :
            p = PartStart(i, Len(meta.written), meta.filelen) + k
      BY <3>a
    <3>2. meta.written[i] \in Nat
      BY <2>2 DEF ResumeIInv, MetaShape, PartList
    <3>3. k \in Nat /\ k < meta.written[i]
      BY <3>1, <3>2
    <3>4. p = Place(i, k, meta.written, meta.filelen)
      BY <3>1 DEF Place
    <3> QED BY <2>2, <3>3, <3>4 DEF ResumeIInv, MetaHolds, Holds
  <2> QED BY <2>1, <2>2 DEF MetaTrue
<1> QED BY <1>1, ResumeInvariance, PTL

(* What is reported complete is, but for its last byte, what was asked     *)
(* for, in however many sessions it came.                                  *)
THEOREM CompleteIsServed == ASSUME ValidatorsTell PROVE Spec => []CompleteButLastByte
<1>1. ResumeIInv => CompleteButLastByte
  BY DEF ResumeIInv, CompleteHolds, CompleteButLastByte
<1> QED BY <1>1, ResumeInvariance, PTL

-----------------------------------------------------------------------------
(* Going on where a download stopped, whatever the validators tell: a meta *)
(* of the version that was probed says what was written when it stopped.   *)

StopIInv ==
  /\ remote \in Versions /\ probed \in Versions /\ size \in Nat
  /\ meta.schema = 2 => meta.written \in Seq(Nat)
  /\ PartList(done, FileLen[probed])
  /\ phase # "idle" => Len(done) > 0 /\ FileLen[probed] <= size
  /\ outcome = "stopped" =>
       /\ phase = "idle" /\ meta = MetaOf(probed, done)
       /\ Len(done) > 0 /\ FileLen[probed] <= size

LEMMA InitStop == Init => StopIInv
<1> SUFFICES ASSUME Init PROVE StopIInv
  OBVIOUS
<1>1. meta.schema # 2
  BY DEF Init, MetaOf, NoMeta
<1>2. size \in Nat
  BY ResumeAssumption DEF Init
<1>3. PartList(<<>>, FileLen[probed])
  BY DEF PartList
<1> QED BY <1>1, <1>2, <1>3 DEF Init, StopIInv

(* A session lays out some list of parts, and takes over the one that was  *)
(* saved if it is for the same version and parts.                          *)
LEMMA StartStop ==
  ASSUME StopIInv, NEW threads \in 1..MaxThreads, NEW range \in BOOLEAN, NEW ok \in BOOLEAN,
         StartSession(threads, range, ok)
  PROVE  /\ StopIInv'
         /\ outcome = "stopped" /\ range /\ probed' = probed /\ Len(done') = Len(done) =>
              done' = done
<1> DEFINE len   == FileLen[remote]
           res   == IF size > 0 THEN LoadPartMeta(meta, remote) ELSE "None"
           trunc == res = "Ok" /\ ~range
           n     == Parts(threads, range, len, MinPart)
           have  == res = "Ok" /\ range /\ Len(meta.written) = n
<1>1. /\ phase = "idle" /\ probed' = remote
      /\ meta' = IF have \/ res = "None" THEN meta ELSE NoMeta
      /\ size' = IF trunc THEN len ELSE Larger(size, len)
      /\ done' = [i \in 1..n |->
                    IF have THEN Smaller(meta.written[i], PartLen(i, n, len)) ELSE 0]
      /\ outcome' # "stopped" /\ remote' = remote
  BY DEF StartSession
<1>2. len \in Nat \ {0} /\ size \in Nat /\ remote \in Versions
  BY Known DEF StopIInv
<1>3. n \in Nat \ {0}
  <2>1. threads \in Nat \ {0}
    BY ResumeAssumption
  <2> QED BY <1>2, <2>1, PartsType
<1>4. have => meta.schema = 2 /\ Len(meta.written) = n
  BY DEF LoadPartMeta, Changed
<1>5. have => \A i \in 1..n : meta.written[i] \in Nat
  <2>1. have => meta.written \in Seq(Nat) /\ Len(meta.written) = n
    BY <1>4 DEF StopIInv
  <2> HIDE DEF have, n, res
  <2> QED BY <2>1
<1>6. outcome = "stopped" /\ range /\ probed' = probed /\ n = Len(done) => have /\ meta.written = done
  <2> SUFFICES ASSUME outcome = "stopped", range, probed' = probed, n = Len(done)
               PROVE  have /\ meta.written = done
    OBVIOUS
  <2>1. /\ meta = MetaOf(remote, done) /\ len <= size /\ done \in Seq(Nat) /\ Len(done) > 0
    BY <1>1 DEF StopIInv, PartList
  <2>2. /\ meta.schema = 2 /\ meta.filelen = len /\ meta.etag = ETag[remote]
        /\ meta.last_modified = LastModified[remote] /\ meta.written = done
    BY <2>1 DEF MetaOf
  <2>3. meta # NoMeta /\ meta.written # <<>>
    BY <2>1, <2>2 DEF NoMeta
  <2>4. LoadPartMeta(meta, remote) = "Ok"
    BY <2>2, <2>3 DEF LoadPartMeta, Unusable, Changed
  <2>5. size > 0
    BY <1>2, <2>1
  <2> QED BY <2>2, <2>4, <2>5
<1>7. size' \in Nat /\ len <= size'
  <2>1. Larger(size, len) \in {size, len} /\ len <= Larger(size, len)
    BY <1>2 DEF Larger
  <2> QED BY <1>1, <1>2, <2>1
<1> HIDE DEF n, res, trunc, have
<1>8. \A i \in 1..n : PartLen(i, n, len) \in Nat
  BY <1>2, <1>3, PartLenType
<1>9. /\ done' \in [1..n -> Nat]
      /\ \A i \in 1..n : /\ done'[i] <= PartLen(i, n, len)
                         /\ have /\ meta.written[i] <= PartLen(i, n, len) =>
                              done'[i] = meta.written[i]
  <2>1. CASE have
    <3>1. \A i \in 1..n : /\ Smaller(meta.written[i], PartLen(i, n, len)) \in Nat
                          /\ Smaller(meta.written[i], PartLen(i, n, len)) <= PartLen(i, n, len)
                          /\ meta.written[i] <= PartLen(i, n, len) =>
                               Smaller(meta.written[i], PartLen(i, n, len)) = meta.written[i]
      BY <1>5, <1>8, <2>1 DEF Smaller
    <3>2. done' = [i \in 1..n |-> Smaller(meta.written[i], PartLen(i, n, len))]
      BY <1>1, <2>1
    <3> QED BY <3>1, <3>2
  <2>2. CASE ~have
    <3>1. done' = [i \in 1..n |-> 0]
      BY <1>1, <2>2
    <3> QED BY <1>8, <2>2, <3>1
  <2> QED BY <2>1, <2>2
<1>10. done' \in Seq(Nat) /\ Len(done') = n /\ DOMAIN done' = 1..n
  BY <1>3, <1>9, ListIsSeq
<1>11. PartList(done', len)
  BY <1>9, <1>10 DEF PartList
<1>12. meta'.schema = 2 => meta'.written \in Seq(Nat)
  <2>1. meta' = meta \/ meta'.schema # 2
    BY <1>1 DEF NoMeta
  <2> QED BY <2>1 DEF StopIInv
<1>13. StopIInv'
  BY <1>1, <1>2, <1>3, <1>7, <1>10, <1>11, <1>12 DEF StopIInv
<1>14. ASSUME outcome = "stopped", range, probed' = probed, Len(done') = Len(done)
       PROVE  done' = done
  <2>1. have /\ meta.written = done /\ Len(done) = n
    BY <1>6, <1>10, <1>14
  <2>2. PartList(done, len)
    BY <1>1, <1>14 DEF StopIInv
  <2>3. done \in Seq(Nat) /\ DOMAIN done = 1..n /\ \A i \in 1..n : done[i] <= PartLen(i, n, len)
    BY <2>1, <2>2 DEF PartList
  <2>4. \A i \in 1..n : done'[i] = done[i]
    BY <1>9, <2>1, <2>3
  <2> QED BY <1>10, <2>1, <2>3, <2>4
<1> QED BY <1>13, <1>14

LEMMA NextStop == StopIInv /\ [Next]_vars => StopIInv'
<1> SUFFICES ASSUME StopIInv, [Next]_vars PROVE StopIInv'
  OBVIOUS
<1>1. ASSUME NEW threads \in 1..MaxThreads, NEW range \in BOOLEAN, NEW ok \in BOOLEAN,
             StartSession(threads, range, ok)
      PROVE  StopIInv'
  BY <1>1, StartStop
<1>2. ASSUME NEW i, Write(i) PROVE StopIInv'
  <2>1. /\ i \in DOMAIN done /\ done[i] # PartLen(i, Len(done), FileLen[probed])
        /\ done' = [done EXCEPT ![i] = @ + 1] /\ phase = "transfer"
        /\ UNCHANGED <<remote, size, meta, phase, probed, outcome>>
    BY <1>2 DEF Write, Written, Parted
  <2>3. FileLen[probed] \in Nat \ {0} /\ PartList(done, FileLen[probed])
    BY Known DEF StopIInv
  <2>2. PartList(done', FileLen[probed]) /\ Len(done') = Len(done)
    <3> DEFINE len == FileLen[probed]
    <3>1. len \in Nat \ {0} /\ PartList(done, len) /\ done[i] # PartLen(i, Len(done), len)
      BY <2>1, <2>3
    <3>3. Grown(done, i, done')
      BY <2>1 DEF Grown
    <3> HIDE DEF len
    <3>2. PartList(done', len) /\ Len(done') = Len(done)
      BY <2>1, <3>1, <3>3, OneMore
    <3> QED BY <3>2 DEF len
  <2> QED BY <2>1, <2>2 DEF StopIInv
<1>3. CASE Degrade
  <2>1. /\ meta' = NoMeta /\ done' = <<0>> /\ phase = "transfer"
        /\ UNCHANGED <<remote, size, phase, probed, outcome>>
    BY <1>3 DEF Degrade
  <2>5. FileLen[probed] \in Nat \ {0}
    BY Known DEF StopIInv
  <2>2. PartLen(1, 1, FileLen[probed]) \in Nat
    BY <2>5, PartLenType
  <2>3. done' \in Seq(Nat) /\ Len(done') = 1 /\ DOMAIN done' = {1} /\ done'[1] = 0
    BY <2>1
  <2>4. PartList(done', FileLen[probed])
    BY <2>2, <2>3 DEF PartList
  <2> QED BY <2>1, <2>3, <2>4 DEF StopIInv, NoMeta
<1>4. CASE Flush
  BY <1>4 DEF StopIInv, Flush
<1>5. CASE Complete
  BY <1>5 DEF StopIInv, Complete, NoMeta
<1>6. CASE Stop
  <2>1. MetaOf(probed, <<>>).written = <<>> /\ <<>> \in Seq(Nat)
    BY DEF MetaOf
  <2> QED BY <1>6, <2>1 DEF StopIInv, Stop
<1>7. CASE SavePartMeta
  <2>1. MetaOf(probed, done).written = done /\ done \in Seq(Nat)
    BY DEF MetaOf, StopIInv, PartList
  <2> QED BY <1>7, <2>1 DEF StopIInv, SavePartMeta
<1>8. CASE Kill \/ PowerLoss
  BY <1>8 DEF StopIInv, Kill, PowerLoss
<1>9. CASE ServerChanges
  BY <1>9 DEF StopIInv, ServerChanges
<1>10. CASE UNCHANGED vars
  BY <1>10 DEF StopIInv, vars
<1> QED BY <1>1, <1>2, <1>3, <1>4, <1>5, <1>6, <1>7, <1>8, <1>9, <1>10 DEF Next, Session

(* A stopped download goes on where it stopped, for every server and every *)
(* layout, when the same content is served and the file is parted the same *)
(* way: README.md:242, LoadPartMeta and File_Init.                         *)
THEOREM GoesOn == Spec => ResumesWhereStopped
<1> DEFINE Same == outcome = "stopped" /\ phase' = "transfer" /\ ranges /\ ranges'
                     /\ probed' = probed /\ Len(done') = Len(done) => done' = done
<1>1. StopIInv /\ [Next]_vars => StopIInv'
  BY NextStop
<1>2. ASSUME StopIInv, [Next]_vars PROVE [Same]_vars
  <2> SUFFICES ASSUME outcome = "stopped", phase' = "transfer", ranges', probed' = probed,
                      Len(done') = Len(done), Next
               PROVE  done' = done
    BY <1>2
  <2>1. phase = "idle"
    BY <1>2 DEF StopIInv
  <2>2. PICK threads \in 1..MaxThreads, range, ok \in BOOLEAN : StartSession(threads, range, ok)
    BY <2>1 DEF Next, Session, Write, Flush, Degrade, Complete, Stop, SavePartMeta, Kill,
       PowerLoss, ServerChanges
  <2>3. range
    BY <2>2 DEF StartSession
  <2> QED BY <1>2, <2>2, <2>3, StartStop
<1> QED BY <1>1, <1>2, InitStop, PTL DEF Spec, ResumesWhereStopped
=============================================================================
