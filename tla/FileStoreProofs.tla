---------------------------- MODULE FileStoreProofs ----------------------------
(***************************************************************************)
(* The volume implements FileStore, for any files, sizes of sectors and    *)
(* clusters, writes, offsets and power failures.                           *)
(*                                                                         *)
(* Every step keeps FilesInv of VolumeProofs: within f_read(), f_lseek()   *)
(* and f_write(), at the start and the return of a call, at a change of an *)
(* entry, and at a restart.  A call that returns is then a step of         *)
(* FileStore, and every other step but the start of a call and a power     *)
(* failure is one that it does not see.                                    *)
(***************************************************************************)
EXTENDS VolumeProofs

-----------------------------------------------------------------------------
(* f_read().                                                               *)

(* InCluster further in the cluster of the position.                           *)
LEMMA Along ==
  ASSUME FatInv, NEW f \in Names, Ahead(fil[f], Line[f]), NEW j \in Nat, (fil[f].fptr % ClusterUnits) + j < ClusterUnits
  PROVE  /\ fil[f].fptr + j \in Span(f) /\ ((fil[f].fptr + j) \div ClusterUnits) = (fil[f].fptr \div ClusterUnits)
         /\ ((fil[f].fptr + j) % ClusterUnits) = (fil[f].fptr % ClusterUnits) + j /\ fil[f].fptr + j + 1 <= Extent(f)
<1>0. ClusterUnits \in Nat /\ ClusterUnits > 0 /\ fil[f].fptr \in Nat /\ Len(Line[f]) \in Nat
  BY FatConstants, LineFacts DEF WholeFile, FilType
<1>1. PICK p, q, r, L : p = fil[f].fptr /\ q = (p \div ClusterUnits) /\ r = (p % ClusterUnits) /\ L = Len(Line[f])
  OBVIOUS
<1>2. q \in Nat /\ r \in Nat /\ r < ClusterUnits /\ p = q * ClusterUnits + r /\ q * ClusterUnits \in Nat /\ L \in Nat
  BY <1>0, <1>1, DivMod
<1>3. q < L
  BY <1>1, <1>2 DEF Ahead
<1>4. (q + 1) * ClusterUnits <= L * ClusterUnits /\ (q + 1) * ClusterUnits = q * ClusterUnits + ClusterUnits
      /\ L * ClusterUnits \in Nat
  BY <1>0, <1>2, <1>3, Times
<1>5. r + j \in Nat /\ r + j < ClusterUnits
  BY <1>1, <1>2
<1>6. PICK x, y : x = q * ClusterUnits /\ y = L * ClusterUnits
  OBVIOUS
<1>7. p + j \in Nat /\ p + j = x + (r + j) /\ p + j < y /\ y \in Nat /\ p + j + 1 <= y
  BY <1>0, <1>2, <1>4, <1>5, <1>6
<1>8. ((p + j) \div ClusterUnits) = q /\ ((p + j) % ClusterUnits) = r + j
  BY <1>0, <1>2, <1>5, <1>6, <1>7, DivIs
<1>9. p + j \in Span(f) /\ p + j + 1 <= Extent(f)
  BY <1>1, <1>6, <1>7 DEF Span, Extent
<1> QED
  BY <1>1, <1>8, <1>9

(* InCluster further in the sector of unit p.                                  *)
LEMMA AlongSector ==
  ASSUME NEW p \in Nat, NEW j \in Nat, (p % SectorSize) + j < SectorSize
  PROVE  ((p + j) \div SectorSize) = (p \div SectorSize) /\ ((p + j) % SectorSize) = (p % SectorSize) + j
<1>0. SectorSize \in Nat /\ SectorSize > 0
  BY FatConstants
<1>1. PICK q, r : q = (p \div SectorSize) /\ r = (p % SectorSize)
  OBVIOUS
<1>2. q \in Nat /\ r \in Nat /\ p = q * SectorSize + r /\ q * SectorSize \in Nat
  BY <1>0, <1>1, DivMod
<1>3. PICK x : x = q * SectorSize
  OBVIOUS
<1>4. p = x + r /\ x \in Nat /\ r + j < SectorSize
  BY <1>1, <1>2, <1>3
<1>5. p + j \in Nat /\ r + j \in Nat /\ p + j = x + (r + j)
  BY <1>2, <1>4
<1> QED
  BY <1>0, <1>1, <1>2, <1>3, <1>4, <1>5, DivIs

(* The sectors that are read past the buffer.                              *)
LEMMA FetchedIs ==
  ASSUME FatInv, NEW f \in Names, cur.call.f = f, Ahead(fil[f], Line[f]), AtSector,
         NEW n \in Nat, (fil[f].fptr % ClusterUnits) + n <= ClusterUnits
  PROVE  /\ DOMAIN Fetched(n) = 1 .. n
         /\ \A j \in 1 .. n : Fetched(n)[j] = Mem[f][fil[f].fptr + j - 1] /\ fil[f].fptr + j - 1 \in Span(f)
<1>0. File = fil[f] /\ fil[f].fptr \in Nat /\ (fil[f].fptr % SectorSize) = 0 /\ SectorSize \in Nat /\ ClusterUnits \in Nat
  BY LineFacts, FatConstants DEF File, WholeFile, FilType, AtSector
<1>1. ASSUME NEW j \in 1 .. n PROVE Fetched(n)[j] = Mem[f][fil[f].fptr + j - 1] /\ fil[f].fptr + j - 1 \in Span(f)
  <2>1. PICK p, k : p = fil[f].fptr /\ k = j - 1
    OBVIOUS
  <2>2. k \in Nat /\ k < n /\ p \in Nat /\ p + j - 1 = p + k /\ (p % ClusterUnits) \in Nat
    BY <1>0, <2>1, DivMod, FatConstants
  <2>3. (p % ClusterUnits) + k < ClusterUnits
    BY <1>0, <2>1, <2>2
  <2>4. p + k \in Span(f) /\ ((p + k) \div ClusterUnits) = (p \div ClusterUnits)
        /\ ((p + k) % ClusterUnits) = (p % ClusterUnits) + k
    BY <2>1, <2>2, <2>3, Along
  <2>5. /\ Sector[1] = Line[f][(p \div ClusterUnits) + 1]
        /\ Sector[2] * SectorSize = (p % ClusterUnits)
    <3>1. (p % ClusterUnits) = ((p \div SectorSize) % ClusterSize) * SectorSize + (p % SectorSize)
          /\ ((p \div SectorSize) % ClusterSize) \in Nat
      BY <2>2, Digits
    <3>2. ((p \div SectorSize) % ClusterSize) * SectorSize \in Nat
      BY <1>0, <3>1, Times, FatConstants
    <3>3. Sector[1] = fil[f].clust /\ Sector[2] = ((p \div SectorSize) % ClusterSize)
      BY <1>0, <2>1 DEF Sector, SectorInCluster
    <3>4. PICK x : x = ((p \div SectorSize) % ClusterSize) * SectorSize
      OBVIOUS
    <3>5. x = (p % ClusterUnits)
      BY <1>0, <2>1, <3>1, <3>2, <3>4
    <3> QED
      BY <2>1, <3>3, <3>4, <3>5 DEF Ahead
  <2>6. PICK o : o = Sector[2] * SectorSize + j - 1
    OBVIOUS
  <2>7. o = ((p + k) % ClusterUnits)
    BY <2>1, <2>2, <2>4, <2>5, <2>6
  <2>8. /\ (o \div SectorSize) = (((p + k) \div SectorSize) % ClusterSize)
        /\ (o % SectorSize) = ((p + k) % SectorSize)
        /\ (((p + k) \div SectorSize) \div ClusterSize) = ((p + k) \div ClusterUnits)
    <3>1. p + k \in Nat
      BY <2>2
    <3> QED
      BY <2>7, <3>1, Digits
  <2>9. <<Sector[1], o \div SectorSize>> = SectorAt(Line[f], (p + k) \div SectorSize)
    BY <2>4, <2>5, <2>8 DEF SectorAt
  <2>10. Fetched(n)[j] = IF fil[f].dirty /\ fil[f].dsect = <<Sector[1], o \div SectorSize>>
                         THEN fil[f].buf[o % SectorSize] ELSE data[Sector[1]][o]
    BY <1>0, <2>6 DEF Fetched
  <2>11. Raw[f][p + k] = data[Sector[1]][o]
    BY <2>4, <2>5, <2>7 DEF Raw
  <2>12. Mem[f][p + k] = Fetched(n)[j]
    BY <2>4, <2>8, <2>9, <2>10, <2>11 DEF Mem, InBuffer
  <2> QED
    BY <2>1, <2>2, <2>4, <2>12
<1>2. DOMAIN Fetched(n) = 1 .. n
  BY DEF Fetched
<1> QED
  BY <1>1, <1>2

(* n more units are read.                                                  *)
LEMMA ReadingMore ==
  ASSUME FatInv, NEW f \in Names, Reading(f), cur'.call = cur.call, NEW n \in Nat, n <= cur.left, cur.left \in Nat,
         before' = before, before.handles[f].pos \in Nat, fil'[f].fsize = fil[f].fsize,
         fil'[f].fptr = fil[f].fptr + n, cur'.left = cur.left - n,
         NEW x \in Seq(Values), Len(x) = n, cur'.out = cur.out \o x,
         \A j \in 1 .. n : x[j] = Mem[f][fil[f].fptr + j - 1] /\ fil[f].fptr + j - 1 \in Span(f),
         fil[f].fptr <= Extent(f), \A i \in Span(f) : Mem'[f][i] = Mem[f][i]
  PROVE  Reading(f)'
<1> DEFINE at == before.handles[f].pos
<1>1. fil[f].fptr \in Nat /\ at \in Nat /\ at <= fil[f].fptr /\ Extent(f) \in Nat
  BY LineFacts, SizeIs DEF WholeFile, FilType, Reading
<1>2. cur.out \in Seq(Values) /\ Len(cur.out) = fil[f].fptr - at
      /\ (\A i \in 1 .. fil[f].fptr - at : cur.out[i] = Mem[f][at + i - 1])
      /\ fil[f].fptr + cur.left = Lesser(at + cur.call.n, fil[f].fsize)
  BY DEF Reading
<1> HIDE DEF at
<1>d. PICK d : d = fil[f].fptr - at
  OBVIOUS
<1>e. d \in Nat /\ fil[f].fptr = at + d
  BY <1>1, <1>d
<1>3. cur'.out \in Seq(Values) /\ Len(cur'.out) = d + n
      /\ \A i \in 1 .. d + n : cur'.out[i] = IF i <= d THEN cur.out[i] ELSE x[i - d]
  <2>1. cur.out \in Seq(Values) /\ Len(cur.out) = d
    BY <1>2, <1>d
  <2>2. PICK s : s = cur.out
    OBVIOUS
  <2>3. /\ s \o x \in Seq(Values) /\ Len(s \o x) = d + n
        /\ \A i \in 1 .. d + n : (s \o x)[i] = IF i <= d THEN s[i] ELSE x[i - d]
    <3>1. s \in Seq(Values) /\ Len(s) = d /\ x \in Seq(Values) /\ Len(x) = n
      BY <2>1, <2>2
    <3> QED
      BY ONLY <3>1, ConcatProperties
  <2> QED
    BY <2>2, <2>3
<1>4. ASSUME NEW i \in 1 .. (fil[f].fptr + n) - at PROVE cur'.out[i] = Mem'[f][at + i - 1]
  <2>0. i \in 1 .. d + n /\ i \in Nat
    BY <1>1, <1>e
  <2>1. CASE i <= d
    <3>1. at + i - 1 \in Span(f) /\ i \in 1 .. d
      <4>1. PICK e : e = Extent(f)
        OBVIOUS
      <4>2. at \in Nat /\ d \in Nat /\ e \in Nat /\ i \in 1 .. d /\ at + d <= e
        BY <1>1, <1>e, <2>0, <2>1, <4>1
      <4>3. at + i - 1 \in 0 .. e - 1
        BY ONLY <4>2
      <4> QED
        BY <4>1, <4>2, <4>3 DEF Span
    <3> QED
      BY <1>2, <1>3, <1>d, <2>0, <2>1, <3>1
  <2>2. CASE ~ (i <= d)
    <3>1. PICK j : j = i - d
      OBVIOUS
    <3>2. j \in 1 .. n /\ fil[f].fptr + j - 1 = at + i - 1
      BY <1>1, <1>e, <2>0, <2>2, <3>1
    <3>3. cur'.out[i] = x[j]
      BY <1>3, <2>0, <2>2, <3>1
    <3> QED
      BY <3>2, <3>3
  <2> QED
    BY <2>1, <2>2
<1>5. before'.handles[f].pos = at
  BY DEF at
<1>6. at <= fil[f].fptr + n /\ (fil[f].fptr + n) + (cur.left - n) = fil[f].fptr + cur.left /\ d + n = (fil[f].fptr + n) - at
  BY <1>1, <1>e
<1> QED
  BY <1>2, <1>3, <1>4, <1>5, <1>6 DEF Reading, at

LEMMA ReadChunkFiles ==
  ASSUME FilesInv, FatInv', NEW f \in Names, Now(f, Line), ReadChunk
  PROVE  FilesInv'
<1>1. step = "read" /\ AtSector /\ step' = "fetch" /\ cur' = cur /\ UNCHANGED <<data, fsiVars, historyVars>> /\ cur.left > 0
  BY DEF ReadChunk, Go
<1>2. cur.call.op = "read" /\ fil[f].open
  BY <1>1, CallKind
<1>3. /\ FatInv /\ ~ Idle /\ cur.call.f = f /\ File = fil[f] /\ FilType(fil[f]) /\ (fil[f].fptr % SectorSize) = 0
      /\ CurType(cur) /\ data' = data /\ ViewOf(f) /\ fil[f].fptr \in Nat /\ cur.left \in Nat /\ Len(Line[f]) \in Nat
      /\ fil[f].fptr <= Extent(f) /\ before.handles[f].pos \in Nat /\ Line \in Families
  BY <1>1, <1>2, NowFacts, LineIs DEF AtSector, Now
<1>4. Quiet /\ \E h : Becomes(f, h) /\ Alike(fil[f], h) /\ h.sclust = fil[f].sclust /\ h.fptr = fil[f].fptr
  <2>1. CASE AtCluster /\ File.fptr # 0
    <3>1. get_fat(fil[f].clust) /\ SetFile([fil[f] EXCEPT !.clust = fat[fil[f].clust]])
      BY <1>3, <2>1 DEF ReadChunk
    <3>2. fil[f].clust \in Clusters
      <4>1. fil[f].fptr <= Len(Line[f]) * ClusterUnits /\ Behind(fil[f], Line[f]) /\ \A i \in 1 .. Len(Line[f]) : Line[f][i] \in Clusters
        BY <1>1, <1>3, ReadingFacts DEF ReadSteps
      <4>2. AtEdge(fil[f]) /\ fil[f].fptr > 0
        BY <1>1, <1>3, <2>1, ChunkFacts
      <4> QED
        BY <1>3, <4>1, <4>2, AtEnd
    <3>3. Quiet
      BY <1>1, <1>3, <3>1, <3>2, QuietGet
    <3>4. Becomes(f, [fil[f] EXCEPT !.clust = fat[fil[f].clust]])
      BY <1>3, <3>1, BecomesFacts
    <3> QED
      BY <1>3, <3>3, <3>4 DEF Alike, FilType, FilFields
  <2>2. CASE ~ (AtCluster /\ File.fptr # 0)
    <3> DEFINE c == IF AtCluster THEN fil[f].sclust ELSE fil[f].clust
    <3>1. UNCHANGED windowVars /\ SetFile([fil[f] EXCEPT !.clust = c])
      BY <1>3, <2>2 DEF ReadChunk
    <3>2. Quiet
      BY <1>1, <1>3, <3>1, QuietSame
    <3>3. Becomes(f, [fil[f] EXCEPT !.clust = c])
      BY <1>3, <3>1, BecomesFacts
    <3> HIDE DEF c
    <3> QED
      BY <1>3, <3>2, <3>3 DEF Alike, FilType, FilFields
  <2> QED
    BY <2>1, <2>2
<1>5. PICK h : Becomes(f, h) /\ Alike(fil[f], h) /\ h.sclust = fil[f].sclust /\ h.fptr = fil[f].fptr
  BY <1>4
<1>6. ~ NeedsSector(f)' /\ ~ Idle'
  BY <1>1, <1>3, <1>5 DEF NeedsSector, Becomes, Idle
<1>7. Calm(f)
  BY <1>1, <1>2, <1>3, <1>4, <1>5, <1>6, CalmIs DEF Quiet
<1>8. Reading(f)'
  <2>1. \A i \in Span(f) : Mem'[f][i] = Mem[f][i]
    BY <1>7, CalmSame DEF SameUnits
  <2> QED
    BY <1>1, <1>2, <1>3, <1>5, <2>1, ReadingCalm DEF ViewOf, historyVars, Becomes, Alike
<1> QED
  BY <1>2, <1>7, <1>8, CalmStep

(* n units are read, the buffer stays.                                     *)
LEMMA ReadOn ==
  ASSUME FilesInv, FatInv', NEW f \in Names, Now(f, Line), step \in {"read", "fetch", "pick"}, step' = "read",
         NEW n \in Nat, n <= cur.left, SetFile([fil[f] EXCEPT !.fptr = fil[f].fptr + n]),
         NEW x \in Seq(Values), Len(x) = n, cur' = [cur EXCEPT !.left = cur.left - n, !.out = cur.out \o x],
         \A j \in 1 .. n : x[j] = Mem[f][fil[f].fptr + j - 1] /\ fil[f].fptr + j - 1 \in Span(f),
         ((fil[f].fptr + n) % SectorSize) # 0 => Held(f, (fil[f].fptr + n) \div SectorSize),
         UNCHANGED <<windowVars, data, historyVars>>
  PROVE  FilesInv'
<1>2. cur.call.op = "read" /\ fil[f].open
  BY CallKind
<1>3. /\ FatInv /\ ~ Idle /\ cur.call.f = f /\ File = fil[f] /\ FilType(fil[f])
      /\ CurType(cur) /\ ViewOf(f) /\ fil[f].fptr \in Nat /\ cur.left \in Nat
      /\ fil[f].fptr <= Extent(f) /\ before.handles[f].pos \in Nat /\ fat' = fat /\ dir' = dir /\ DiskStep
  BY <1>2, NowFacts DEF Now, windowVars, DiskStep
<1>4. PICK p : p = fil[f].fptr + n
  OBVIOUS
<1>5. PICK h : h = [fil[f] EXCEPT !.fptr = p]
  OBVIOUS
<1>6. Becomes(f, h) /\ Alike(fil[f], h) /\ h.sclust = fil[f].sclust /\ h.fptr = p
  <2>1. Becomes(f, h)
    BY <1>3, <1>4, <1>5, BecomesFacts
  <2> QED
    BY <1>3, <1>5, <2>1 DEF Alike, FilType, FilFields
<1>7. cur'.call = cur.call /\ cur'.left = cur.left - n /\ cur'.out = cur.out \o x
  BY <1>3 DEF CurType
<1>8. ~ Idle' /\ (NeedsSector(f)' => Held(f, p \div SectorSize))
  BY <1>4, <1>6 DEF NeedsSector, Becomes, Idle
<1>9. Calm(f)
  BY <1>2, <1>3, <1>6, <1>7, <1>8, CalmIs
<1>10. Reading(f)'
  <2>1. \A i \in Span(f) : Mem'[f][i] = Mem[f][i]
    BY <1>9, CalmSame DEF SameUnits
  <2>2. fil'[f].fsize = fil[f].fsize /\ fil'[f].fptr = fil[f].fptr + n /\ before' = before
    BY <1>4, <1>6 DEF Becomes, Alike, historyVars
  <2> QED
    <3>1. Reading(f)
      BY <1>2, <1>3 DEF ViewOf
    <3> QED
      BY <1>3, <1>7, <2>1, <2>2, <3>1, ReadingMore
<1> QED
  BY <1>2, <1>9, <1>10, CalmStep

LEMMA FunctionIsSeq ==
  ASSUME NEW n \in Nat, NEW S, NEW x \in [1 .. n -> S]
  PROVE  x \in Seq(S) /\ Len(x) = n
<1>1. x \in Seq(S)
  BY DEF Seq
<1> QED
  BY <1>1, LenProperties

LEMMA ReadFetchFiles ==
  ASSUME FilesInv, FatInv', NEW f \in Names, Now(f, Line), ReadFetch
  PROVE  FilesInv'
<1>1. step = "fetch" /\ UNCHANGED <<windowVars, fsiVars, historyVars>>
  BY DEF ReadFetch
<1>2. cur.call.op = "read" /\ fil[f].open
  BY <1>1, CallKind
<1>3. /\ FatInv /\ DataInv /\ ~ Idle /\ cur.call.f = f /\ File = fil[f] /\ FilType(fil[f]) /\ Line \in Families
      /\ CurType(cur) /\ fil[f].fptr \in Nat /\ cur.left \in Nat /\ AtSector /\ cur.left > 0
  BY <1>1, <1>2, NowFacts, LineIs DEF Now, ProgressInv, LeftInv, SectorInv
<1>4. Ahead(fil[f], Line[f])
  BY <1>1, <1>3, ReadingFacts DEF ReadSteps
<1>5. CASE /\ Whole > 0
           /\ cur' = [cur EXCEPT !.left = @ - Whole * SectorSize, !.out = @ \o Fetched(Whole * SectorSize)]
           /\ SetFile([File EXCEPT !.fptr = @ + Whole * SectorSize]) /\ step' = "read" /\ data' = data
  <2>1. PICK n : n = Whole * SectorSize
    OBVIOUS
  <2>2. n \in Nat /\ n <= cur.left /\ (fil[f].fptr % ClusterUnits) + n <= ClusterUnits
    BY <1>3, <1>5, <2>1, ChunkFacts
  <2>3. PICK x : x = Fetched(n)
    OBVIOUS
  <2>4. /\ DOMAIN x = 1 .. n
        /\ \A j \in 1 .. n : x[j] = Mem[f][fil[f].fptr + j - 1] /\ fil[f].fptr + j - 1 \in Span(f)
    BY <1>3, <1>4, <2>2, <2>3, FetchedIs
  <2>5. x \in Seq(Values) /\ Len(x) = n
    <3>1. x = [j \in 1 .. n |-> x[j]]
      BY <2>3 DEF Fetched
    <3>2. \A j \in 1 .. n : x[j] \in Values
      BY <1>3, <2>4, ValuesRead
    <3>3. x \in [1 .. n -> Values]
      BY <3>1, <3>2
    <3> QED
      BY <2>2, <3>3, FunctionIsSeq
  <2>6. ((fil[f].fptr + n) % SectorSize) = 0
    <3>1. PICK m : m = fil[f].fptr \div SectorSize
      OBVIOUS
    <3>2. m \in Nat /\ Whole \in Nat /\ SectorSize \in Nat /\ SectorSize > 0
      BY <1>3, <3>1, Digits, ChunkFacts, FatConstants
    <3>3. fil[f].fptr = m * SectorSize
      BY <1>3, <3>1, EdgeSector DEF AtSector
    <3>4. (m + Whole) * SectorSize = m * SectorSize + Whole * SectorSize
      <4>1. PICK w : w = Whole
        OBVIOUS
      <4> QED
        BY <3>2, <4>1, SMT
    <3>5. m + Whole \in Nat /\ fil[f].fptr + n = (m + Whole) * SectorSize + 0 /\ fil[f].fptr + n \in Nat
      BY <1>3, <2>1, <2>2, <3>2, <3>3, <3>4
    <3>6. PICK q, p : q = m + Whole /\ p = fil[f].fptr + n
      OBVIOUS
    <3> QED
      BY <3>2, <3>5, <3>6, DivIs
  <2>7. SetFile([fil[f] EXCEPT !.fptr = fil[f].fptr + n]) /\ cur' = [cur EXCEPT !.left = cur.left - n, !.out = cur.out \o x]
    BY <1>3, <1>5, <2>1, <2>3
  <2> QED
    BY <1>1, <1>5, <2>2, <2>4, <2>5, <2>6, <2>7, ReadOn
<1>6. CASE WriteBack /\ UNCHANGED callVars
  BY <1>1, <1>2, <1>3, <1>6, FlushStep
<1>7. CASE /\ (File.dsect # Sector => ~ File.dirty) /\ step' = "pick" /\ UNCHANGED <<data, cur>>
           /\ SetFile([File EXCEPT !.dsect = Sector, !.buf = IF File.dsect # Sector THEN SectorData(Sector) ELSE @])
  <2>1. PICK b : b = IF fil[f].dsect # Sector THEN SectorData(Sector) ELSE fil[f].buf
    OBVIOUS
  <2>2. SetFile([fil[f] EXCEPT !.dsect = Sector, !.buf = b])
    BY <1>3, <1>7, <2>1
  <2>3. <<step, step'>> \in {<<"fetch", "pick">>, <<"store", "fit">>, <<"fill", "fill">>}
    BY <1>1, <1>7
  <2>4. fil[f].dirty => fil[f].dsect = Sector
    BY <1>3, <1>7
  <2>5. \/ fil[f].dsect = Sector /\ b = fil[f].buf
        \/ fil[f].dsect # Sector /\ b = SectorData(Sector)
        \/ step' = "fit" /\ fil[f].fptr >= fil[f].fsize /\ ~ fil[f].dirty /\ b = fil[f].buf
    BY <2>1
  <2>6. UNCHANGED <<windowVars, data, cur, historyVars>>
    BY <1>1, <1>7
  <2> QED
    BY <1>2, <1>3, <1>4, <2>2, <2>3, <2>4, <2>5, <2>6, LoadStep
<1> QED
  BY <1>5, <1>6, <1>7 DEF ReadFetch, Go

LEMMA ReadPickFiles ==
  ASSUME FilesInv, FatInv', NEW f \in Names, Now(f, Line), ReadPick
  PROVE  FilesInv'
<1>1. /\ step = "pick" \/ (step = "read" /\ cur.left > 0 /\ ~ AtSector)
      /\ UNCHANGED <<windowVars, data, fsiVars, historyVars>> /\ step' = "read"
  BY DEF ReadPick, Go
<1>2. cur.call.op = "read" /\ fil[f].open
  BY <1>1, CallKind
<1>3. /\ FatInv /\ DataInv /\ BufferInv(f) /\ ~ Idle /\ cur.call.f = f /\ File = fil[f] /\ FilType(fil[f])
      /\ CurType(cur) /\ fil[f].fptr \in Nat /\ cur.left \in Nat /\ cur.left > 0
  BY <1>1, <1>2, NowFacts DEF Now, ProgressInv, LeftInv
<1>4. PICK p, n, m, r : p = fil[f].fptr /\ n = Partial /\ m = (p \div SectorSize) /\ r = (p % SectorSize)
  OBVIOUS
<1>5. n \in Nat /\ n <= cur.left /\ n <= SectorSize - r
  <2>1. n \in Nat /\ n <= cur.left
    BY <1>3, <1>4, ChunkFacts
  <2>2. SectorSize \in Nat /\ r \in Nat
    BY <1>3, <1>4, DivMod, FatConstants
  <2>3. n = IF SectorSize - r < cur.left THEN SectorSize - r ELSE cur.left
    BY <1>3, <1>4 DEF Partial, Lesser
  <2> QED
    BY <1>3, <2>1, <2>2, <2>3
<1>6. Held(f, m) /\ m < Len(Line[f]) * ClusterSize /\ fil[f].dsect = SectorAt(Line[f], m)
  <2>1. Held(f, m)
    BY <1>1, <1>2, <1>3, <1>4 DEF BufferInv, Busy, AtSector
  <2> QED
    BY <2>1 DEF Held
<1>7. m \in Nat /\ r \in Nat /\ p = m * SectorSize + r /\ SectorSize \in Nat /\ r < SectorSize /\ m * SectorSize \in Nat /\ SectorSize > 0
  BY <1>3, <1>4, DivMod, FatConstants
<1>8. Coherent(f, m)
  BY <1>1, <1>2, <1>3, <1>6, <1>7, BufferFacts DEF Fresh
<1>9. PICK x : x = [j \in 1 .. n |-> fil[f].buf[(p + j - 1) % SectorSize]]
  OBVIOUS
<1>10. ASSUME NEW j \in 1 .. n PROVE x[j] = Mem[f][p + j - 1] /\ p + j - 1 \in Span(f)
  <2>1. PICK k : k = j - 1
    OBVIOUS
  <2>a. SectorSize \in Nat /\ r \in Nat /\ p \in Nat
    BY <1>3, <1>4, <1>7
  <2>2. k \in Nat /\ r + k < SectorSize /\ p + j - 1 = p + k /\ p \in Nat
    BY <1>5, <2>1, <2>a
  <2>3. ((p + k) % SectorSize) = r + k
    BY <1>4, <2>2, AlongSector
  <2>4. r + k \in InSector /\ p + k = m * SectorSize + (r + k)
    <3>1. PICK y : y = m * SectorSize
      OBVIOUS
    <3>2. p + k = y + (r + k) /\ r + k \in Nat
      BY <1>7, <2>2, <3>1
    <3> QED
      BY <1>7, <2>2, <3>1, <3>2 DEF InSector
  <2>5. m * SectorSize + (r + k) \in Span(f)
    BY <1>3, <1>6, <1>7, <2>4, SectorUnits
  <2>6. fil[f].buf[r + k] = Mem[f][m * SectorSize + (r + k)]
    BY <1>8, <2>4 DEF Coherent
  <2>7. x[j] = fil[f].buf[r + k]
    BY <1>9, <2>2, <2>3
  <2> QED
    BY <2>2, <2>4, <2>5, <2>6, <2>7
<1>11. x \in Seq(Values) /\ Len(x) = n
  <2>1. x = [j \in 1 .. n |-> x[j]]
    BY <1>9
  <2>2. \A j \in 1 .. n : x[j] \in Values
    BY <1>3, <1>10, ValuesRead
  <2>3. x \in [1 .. n -> Values]
    BY <2>1, <2>2
  <2> QED
    BY <1>5, <2>3, FunctionIsSeq
<1>12. ((p + n) % SectorSize) # 0 => Held(f, (p + n) \div SectorSize)
  <2>1. CASE r + n < SectorSize
    BY <1>3, <1>4, <1>5, <1>6, <2>1, AlongSector
  <2>2. CASE ~ (r + n < SectorSize)
    <3>1. PICK y, z : y = m * SectorSize /\ z = (m + 1) * SectorSize
      OBVIOUS
    <3>2. z = y + SectorSize
      BY <1>7, <3>1, Times
    <3>3. p + n = z + 0 /\ p + n \in Nat
      BY <1>5, <1>7, <2>2, <3>1, <3>2
    <3>4. PICK q, o : q = m + 1 /\ o = p + n
      OBVIOUS
    <3>5. q \in Nat /\ o \in Nat /\ o = q * SectorSize + 0
      BY <1>7, <3>1, <3>3, <3>4
    <3> QED
      BY <1>7, <3>4, <3>5, DivIs
  <2> QED
    BY <2>1, <2>2
<1>13. SetFile([fil[f] EXCEPT !.fptr = p + n]) /\ cur' = [cur EXCEPT !.left = cur.left - n, !.out = cur.out \o x]
  BY <1>3, <1>4, <1>9 DEF ReadPick
<1> QED
  BY <1>1, <1>4, <1>5, <1>10, <1>11, <1>12, <1>13, ReadOn

-----------------------------------------------------------------------------
(* f_lseek().                                                              *)

(* It goes along the chain.                                                *)
LEMMA SeekOn ==
  ASSUME FilesInv, FatInv', NEW f \in Names, Now(f, Line), cur.call.op = "seek", fil[f].open,
         step \in {"seek", "follow", "got"}, step' \in {"follow", "fill", "chain"}, cur'.call = cur.call,
         NEW h, Becomes(f, h), Alike(fil[f], h), h.sclust = fil[f].sclust \/ fil[f].sclust = 0,
         UNCHANGED historyVars, fat' = fat, dir' = dir, data' = data, DiskStep,
         step' # "fill" => (h.fptr % SectorSize) = 0 /\ h.fptr + cur'.left = Goal(f),
         step' = "fill" => h.fptr = Goal(f) \/ (Full /\ h.fptr >= fil[f].fsize /\ h.fptr <= Goal(f))
  PROVE  FilesInv'
<1>0. cur.call.f = f
  BY DEF Now
<1>1. ~ Idle' /\ ~ NeedsSector(f)'
  <2>1. ~ Idle' /\ Busy(f)'
    BY <1>0 DEF Idle, Busy
  <2> QED
    BY <2>1 DEF NeedsSector, Becomes
<1>2. Calm(f)
  BY <1>1, CalmIs
<1>3. fil'[f].fptr = h.fptr /\ fil'[f].fsize = fil[f].fsize /\ fil'[f].write = fil[f].write
  BY DEF Becomes, Alike
<1>4. Goal(f)' = Goal(f) /\ Full' = Full
  BY <1>3 DEF Goal, Full
<1>5. Seeking(f)'
  <2>1. step' # "fill" => fil'[f].fptr + cur'.left = Goal(f)'
    BY <1>3, <1>4
  <2>2. step' = "fill" => fil'[f].fptr = Goal(f)' \/ (Full' /\ fil'[f].fptr >= fil'[f].fsize /\ fil'[f].fptr <= Goal(f)')
    BY <1>3, <1>4
  <2> QED
    BY <2>1, <2>2 DEF Seeking
<1> QED
  BY <1>2, <1>5, CalmStep

LEMMA SeekStartFiles ==
  ASSUME FilesInv, FatInv', NEW f \in Names, Now(f, Line), SeekStart
  PROVE  FilesInv'
<1>1. step = "seek" /\ UNCHANGED <<windowVars, data, fsiVars, historyVars>>
  BY DEF SeekStart
<1>2. cur.call.op = "seek" /\ fil[f].open
  BY <1>1, CallKind
<1>3. /\ FatInv /\ cur.call.f = f /\ File = fil[f] /\ FilType(fil[f]) /\ CurType(cur) /\ ViewOf(f)
      /\ fil[f].fptr \in Nat /\ cur.left \in Nat /\ fat' = fat /\ dir' = dir /\ data' = data /\ DiskStep
      /\ SectorSize \in Nat /\ SectorSize > 0 /\ ClusterUnits \in Nat /\ ClusterUnits > 0
  BY <1>1, <1>2, NowFacts, FatConstants DEF Now, windowVars, DiskStep
<1>4. cur.left = Goal(f)
  BY <1>1, <1>2, <1>3 DEF ViewOf, Seeking
<1>5. (0 % SectorSize) = 0
  BY <1>3, DivIs
<1> DEFINE base == ((fil[f].fptr - 1) \div ClusterUnits) * ClusterUnits
           ahead == fil[f].fptr > 0 /\ (cur.left - 1) \div ClusterUnits >= (fil[f].fptr - 1) \div ClusterUnits
<1>6. CASE cur.left = 0
  <2>1. SetFile([fil[f] EXCEPT !.fptr = 0]) /\ step' = "fill" /\ cur' = cur
    BY <1>3, <1>6 DEF SeekStart, Go
  <2>2. PICK h : h = [fil[f] EXCEPT !.fptr = 0]
    OBVIOUS
  <2>3. Becomes(f, h)
    BY <1>3, <2>1, <2>2, BecomesFacts
  <2>4. Alike(fil[f], h) /\ h.sclust = fil[f].sclust /\ h.fptr = 0
    BY <1>3, <2>2 DEF Alike, FilType, FilFields
  <2> QED
    BY <1>1, <1>2, <1>3, <1>4, <1>6, <2>1, <2>3, <2>4, SeekOn
<1>7. CASE cur.left # 0 /\ ahead
  <2>1. SetFile([fil[f] EXCEPT !.fptr = base]) /\ step' = "follow" /\ cur' = [cur EXCEPT !.left = cur.left - base, !.clust = fil[f].clust]
    BY <1>3, <1>7 DEF SeekStart, Go
  <2>2. base \in Nat /\ (base % SectorSize) = 0
    <3>1. PICK k : k = (fil[f].fptr - 1) \div ClusterUnits
      OBVIOUS
    <3>2. k \in Nat /\ k * ClusterUnits \in Nat
      <4>1. PICK p : p = fil[f].fptr - 1
        OBVIOUS
      <4>2. p \in Nat
        BY <1>3, <1>7, <4>1
      <4>3. k \in Nat
        BY <1>3, <3>1, <4>1, <4>2, DivMod
      <4> QED
        BY <1>3, <4>3, Times
    <3>3. ((k * ClusterUnits) % ClusterUnits) = 0
      <4>1. PICK y : y = k * ClusterUnits
        OBVIOUS
      <4>2. y \in Nat /\ y = k * ClusterUnits + 0
        BY <3>2, <4>1
      <4> QED
        BY <1>3, <3>2, <4>1, <4>2, DivIs
    <3> QED
      BY <3>1, <3>2, <3>3, EdgeSector
  <2>3. PICK b : b = base
    OBVIOUS
  <2> HIDE DEF base
  <2>4. PICK h : h = [fil[f] EXCEPT !.fptr = b]
    OBVIOUS
  <2>5. Becomes(f, h)
    BY <1>3, <2>1, <2>3, <2>4, BecomesFacts
  <2>6. Alike(fil[f], h) /\ h.sclust = fil[f].sclust /\ h.fptr = b
    BY <1>3, <2>4 DEF Alike, FilType, FilFields
  <2>7. cur'.call = cur.call /\ cur'.left = cur.left - b
    BY <1>3, <2>1, <2>3 DEF CurType
  <2>8. b + cur'.left = Goal(f)
    BY <1>3, <1>4, <2>2, <2>3, <2>7
  <2> QED
    BY <1>1, <1>2, <1>3, <2>1, <2>2, <2>3, <2>5, <2>6, <2>7, <2>8, SeekOn
<1>8. CASE cur.left # 0 /\ ~ ahead
  <2>1. /\ SetFile([fil[f] EXCEPT !.fptr = 0, !.clust = fil[f].sclust]) /\ step' \in {"chain", "follow"}
        /\ cur' = [cur EXCEPT !.clust = fil[f].sclust]
    BY <1>3, <1>8 DEF SeekStart, Go
  <2>2. PICK h : h = [fil[f] EXCEPT !.fptr = 0, !.clust = fil[f].sclust]
    OBVIOUS
  <2>3. Becomes(f, h)
    BY <1>3, <2>1, <2>2, BecomesFacts
  <2>4. Alike(fil[f], h) /\ h.sclust = fil[f].sclust /\ h.fptr = 0
    BY <1>3, <2>2 DEF Alike, FilType, FilFields
  <2>5. cur'.call = cur.call /\ cur'.left = cur.left
    BY <1>3, <2>1 DEF CurType
  <2> QED
    BY <1>1, <1>2, <1>3, <1>4, <1>5, <2>1, <2>3, <2>4, <2>5, SeekOn
<1> QED
  BY <1>6, <1>7, <1>8

(* One cluster further.                                                    *)
LEMMA AdvanceFiles ==
  ASSUME FilesInv, FatInv', NEW f \in Names, Now(f, Line), cur.call.op = "seek", fil[f].open,
         step \in {"follow", "got"}, NEW c, Advance(c), AtEdge(fil[f]),
         UNCHANGED historyVars, fat' = fat, dir' = dir, data' = data, DiskStep
  PROVE  FilesInv'
<1>3. /\ FatInv /\ cur.call.f = f /\ File = fil[f] /\ FilType(fil[f]) /\ CurType(cur) /\ ViewOf(f)
      /\ fil[f].fptr \in Nat /\ cur.left \in Nat /\ ClusterUnits \in Nat /\ ClusterUnits > 0
  BY NowFacts, FatConstants DEF Now
<1>4. fil[f].fptr + cur.left = Goal(f)
  BY <1>3 DEF ViewOf, Seeking
<1>1. PICK p : p = fil[f].fptr + ClusterUnits
  OBVIOUS
<1>2. /\ SetFile([fil[f] EXCEPT !.clust = c, !.fptr = p]) /\ step' = "follow"
      /\ cur' = [cur EXCEPT !.left = cur.left - ClusterUnits, !.clust = c]
  BY <1>1, <1>3 DEF Advance, Go
<1>5. PICK h : h = [fil[f] EXCEPT !.clust = c, !.fptr = p]
  OBVIOUS
<1>6. Becomes(f, h)
  BY <1>2, <1>3, <1>5, BecomesFacts
<1>7. Alike(fil[f], h) /\ h.sclust = fil[f].sclust /\ h.fptr = p
  BY <1>3, <1>5 DEF Alike, FilType, FilFields
<1>8. cur'.call = cur.call /\ cur'.left = cur.left - ClusterUnits
  BY <1>2, <1>3 DEF CurType
<1>9. p + cur'.left = Goal(f)
  BY <1>1, <1>3, <1>4, <1>8
<1>10. (p % SectorSize) = 0
  <2>1. PICK k : k = fil[f].fptr \div ClusterUnits
    OBVIOUS
  <2>2. k \in Nat /\ fil[f].fptr = k * ClusterUnits + (fil[f].fptr % ClusterUnits) /\ k * ClusterUnits \in Nat
    BY <1>3, <2>1, DivMod
  <2>3. PICK y, z : y = k * ClusterUnits /\ z = (k + 1) * ClusterUnits
    OBVIOUS
  <2>4. z = y + ClusterUnits /\ fil[f].fptr = y
    BY <1>3, <2>2, <2>3, Times DEF AtEdge
  <2>5. p = z + 0 /\ p \in Nat /\ k + 1 \in Nat
    BY <1>1, <1>3, <2>2, <2>4
  <2>6. PICK q : q = k + 1
    OBVIOUS
  <2>7. (p % ClusterUnits) = 0
    BY <1>3, <2>3, <2>5, <2>6, DivIs
  <2> QED
    BY <2>5, <2>7, EdgeSector
<1> QED
  BY <1>2, <1>6, <1>7, <1>8, <1>9, <1>10, SeekOn

LEMMA SeekFollowFiles ==
  ASSUME FilesInv, FatInv', NEW f \in Names, Now(f, Line), SeekFollow
  PROVE  FilesInv'
<1>1. step = "follow" /\ UNCHANGED <<data, fsiVars, historyVars>>
  BY DEF SeekFollow
<1>2. cur.call.op = "seek" /\ fil[f].open
  BY <1>1, CallKind
<1>3. /\ FatInv /\ ~ Idle /\ cur.call.f = f /\ File = fil[f] /\ FilType(fil[f]) /\ CurType(cur) /\ ViewOf(f)
      /\ fil[f].fptr \in Nat /\ cur.left \in Nat /\ data' = data /\ AtEdge(fil[f]) /\ cur.clust = fil[f].clust
      /\ Line \in Families
  BY <1>1, <1>2, NowFacts, LineIs DEF Now, ProgressInv, SeekInv
<1>4. fil[f].fptr + cur.left = Goal(f) /\ (fil[f].fptr % SectorSize) = 0
  BY <1>1, <1>2, <1>3, EdgeSector DEF ViewOf, Seeking, AtEdge
<1>5. CASE cur.left > ClusterUnits /\ File.write
  <2>1. UNCHANGED <<windowVars, fil, cur>> /\ step' = "chain"
    BY <1>5 DEF SeekFollow, Go
  <2>2. fat' = fat /\ dir' = dir /\ DiskStep
    BY <2>1 DEF windowVars, DiskStep
  <2>3. Becomes(f, fil[f]) /\ Alike(fil[f], fil[f])
    BY <1>3, <2>1, BecomesFacts, AlikeFields
  <2> QED
    BY <1>1, <1>2, <1>3, <1>4, <2>1, <2>2, <2>3, SeekOn
<1>6. CASE cur.left > ClusterUnits /\ ~ File.write
  <2>1. get_fat(cur.clust) /\ Advance(fat[cur.clust])
    BY <1>6 DEF SeekFollow
  <2>2. cur.clust \in Clusters
    <3>1. Ahead(fil[f], Line[f])
      BY <1>1, <1>2, <1>3 DEF Now, FileInv, PlaceInv, PosInv, Busy
    <3>2. (fil[f].fptr \div ClusterUnits) + 1 \in 1 .. Len(Line[f]) /\ \A i \in 1 .. Len(Line[f]) : Line[f][i] \in Clusters
      <4>1. (fil[f].fptr \div ClusterUnits) \in Nat
        BY <1>3, DivMod, FatConstants
      <4>2. Len(Line[f]) \in Nat /\ \A i \in 1 .. Len(Line[f]) : Line[f][i] \in Clusters
        BY <1>3, LineFacts DEF WholeFile
      <4> QED
        BY <3>1, <4>1, <4>2 DEF Ahead
    <3> QED
      BY <1>3, <3>1, <3>2 DEF Ahead
  <2>3. step' = "follow"
    BY <2>1 DEF Advance, Go
  <2>4. Quiet
    BY <1>3, <2>1, <2>2, <2>3, QuietGet
  <2> QED
    BY <1>1, <1>2, <1>3, <2>1, <2>4, AdvanceFiles DEF Quiet
<1>7. CASE ~ (cur.left > ClusterUnits)
  <2>1. PICK p : p = fil[f].fptr + cur.left
    OBVIOUS
  <2>2. SetFile([fil[f] EXCEPT !.fptr = p]) /\ step' = "fill" /\ UNCHANGED <<windowVars, cur>>
    BY <1>3, <1>7, <2>1 DEF SeekFollow, Go
  <2>3. PICK h : h = [fil[f] EXCEPT !.fptr = p]
    OBVIOUS
  <2>4. Becomes(f, h)
    BY <1>3, <2>2, <2>3, BecomesFacts
  <2>5. Alike(fil[f], h) /\ h.sclust = fil[f].sclust /\ h.fptr = p
    BY <1>3, <2>3 DEF Alike, FilType, FilFields
  <2>6. fat' = fat /\ dir' = dir /\ DiskStep
    BY <2>2 DEF windowVars, DiskStep
  <2> QED
    BY <1>1, <1>2, <1>3, <1>4, <2>1, <2>2, <2>4, <2>5, <2>6, SeekOn
<1> QED
  BY <1>5, <1>6, <1>7

LEMMA SeekGotFiles ==
  ASSUME FilesInv, FatInv', NEW f \in Names, Now(f, Line), SeekGot
  PROVE  FilesInv'
<1>1. step = "got" /\ cur.call.op = "seek" /\ UNCHANGED <<windowVars, data, fsiVars, historyVars>>
  BY DEF SeekGot
<1>2. fil[f].open
  BY <1>1, CallKind
<1>3. /\ FatInv /\ ~ Idle /\ cur.call.f = f /\ File = fil[f] /\ FilType(fil[f]) /\ CurType(cur) /\ ViewOf(f)
      /\ fil[f].fptr \in Nat /\ fil[f].fsize \in Nat /\ cur.left \in Nat /\ data' = data /\ AtEdge(fil[f])
      /\ fat' = fat /\ dir' = dir /\ DiskStep /\ ClusterUnits \in Nat /\ ClusterUnits > 0
      /\ ProgressInv(Line[f]) /\ FileInv(f, Line[f]) /\ Len(Line[f]) \in Nat
      /\ Line[f] = <<>> <=> fil[f].sclust = 0
      /\ Line[f] = <<>> <=> Len(Line[f]) = 0
  BY <1>1, <1>2, NowFacts, FatConstants, LineFacts
     DEF Now, windowVars, DiskStep, ProgressInv, ChainInv, Chaining, WholeFile
<1>4. fil[f].fptr + cur.left = Goal(f) /\ (cur.new = 0 => Full) /\ (fil[f].fptr % SectorSize) = 0
  BY <1>1, <1>3, EdgeSector DEF ViewOf, Seeking, AtEdge
<1>5. CASE File.sclust = 0
  <2>1. SetFile([fil[f] EXCEPT !.sclust = cur.new, !.clust = cur.new]) /\ cur' = [cur EXCEPT !.clust = cur.new]
        /\ step' = IF cur.new = 0 THEN "fill" ELSE "follow"
    BY <1>3, <1>5 DEF SeekGot, Go
  <2>2. PICK h : h = [fil[f] EXCEPT !.sclust = cur.new, !.clust = cur.new]
    OBVIOUS
  <2>3. Becomes(f, h)
    BY <1>3, <2>1, <2>2, BecomesFacts
  <2>4. Alike(fil[f], h) /\ h.fptr = fil[f].fptr
    BY <1>3, <2>2 DEF Alike, FilType, FilFields
  <2>5. cur'.call = cur.call /\ cur'.left = cur.left
    BY <1>3, <2>1 DEF CurType
  <2>6. fil[f].fptr = 0 /\ fil[f].fsize <= 0
    <3>1. Line[f] = <<>> /\ Len(Line[f]) = 0
      BY <1>3, <1>5
    <3>2. fil[f].fptr = 0
      BY <1>1, <1>3, <3>1 DEF ProgressInv, ChainInv, Chaining
    <3>3. fil[f].fsize <= 0 * ClusterUnits
      BY <1>2, <1>3, <3>1 DEF FileInv, RoomInv
    <3> QED
      BY <1>3, <3>2, <3>3
  <2>7. Goal(f) >= 0
    BY <1>3, <1>4
  <2> QED
    BY <1>1, <1>2, <1>3, <1>4, <1>5, <2>1, <2>3, <2>4, <2>5, <2>6, <2>7, SeekOn
<1>6. CASE File.sclust # 0 /\ cur.new = 0
  <2>1. PICK p : p = fil[f].fptr + ClusterUnits
    OBVIOUS
  <2>2. SetFile([fil[f] EXCEPT !.fptr = p]) /\ step' = "fill" /\ cur' = cur
    BY <1>3, <1>6, <2>1 DEF SeekGot, Go
  <2>3. PICK h : h = [fil[f] EXCEPT !.fptr = p]
    OBVIOUS
  <2>4. Becomes(f, h)
    BY <1>3, <2>2, <2>3, BecomesFacts
  <2>5. Alike(fil[f], h) /\ h.sclust = fil[f].sclust /\ h.fptr = p
    BY <1>3, <2>3 DEF Alike, FilType, FilFields
  <2>6. p >= fil[f].fsize
    <3>1. PICK L : L = Len(Line[f]) - 1
      OBVIOUS
    <3>2. L \in Nat /\ Len(Line[f]) = L + 1
      BY <1>3, <1>6, <3>1
    <3>3. L * ClusterUnits = fil[f].fptr
      BY <1>1, <1>3, <1>6, <3>1 DEF ProgressInv, GotInv
    <3>4. (L + 1) * ClusterUnits = p
      BY <1>3, <2>1, <3>2, <3>3, Times
    <3> QED
      BY <1>2, <1>3, <3>2, <3>4 DEF FileInv, RoomInv
  <2>7. p <= Goal(f)
    <3>1. cur.left > ClusterUnits
      BY <1>1, <1>3, <1>6 DEF ProgressInv, ChainInv, Chaining
    <3> QED
      BY <1>3, <1>4, <2>1, <3>1
  <2> QED
    BY <1>1, <1>2, <1>3, <1>4, <1>6, <2>2, <2>4, <2>5, <2>6, <2>7, SeekOn
<1>7. CASE File.sclust # 0 /\ cur.new # 0
  <2>1. Advance(cur.new)
    BY <1>7 DEF SeekGot
  <2> QED
    BY <1>1, <1>2, <1>3, <2>1, AdvanceFiles
<1> QED
  BY <1>5, <1>6, <1>7

LEMMA SeekFillFiles ==
  ASSUME FilesInv, FatInv', NEW f \in Names, Now(f, Line), SeekFill
  PROVE  FilesInv'
<1>1. step = "fill" /\ ToFill /\ UNCHANGED <<windowVars, fsiVars, callVars, historyVars>>
  BY DEF SeekFill
<1>2. cur.call.op = "seek" /\ fil[f].open
  BY <1>1, CallKind
<1>3. /\ FatInv /\ ~ Idle /\ cur.call.f = f /\ File = fil[f] /\ fil[f].fptr <= Extent(f)
  BY <1>1, <1>2, NowFacts
<1>4. CASE WriteBack
  BY <1>1, <1>2, <1>3, <1>4, FlushStep
<1>5. CASE ~ File.dirty /\ SetFile([File EXCEPT !.dsect = Sector, !.buf = SectorData(Sector)]) /\ data' = data
  <2>1. Ahead(fil[f], Line[f])
    <3>1. Behind(fil[f], Line[f])
      BY <1>1, <1>2, <1>3, PlaceIs DEF Chaining
    <3>2. (fil[f].fptr % SectorSize) # 0
      BY <1>1, <1>3 DEF ToFill, AtSector
    <3> QED
      BY <1>3, <3>1, <3>2, MidSector DEF Extent
  <2>2. <<step, step'>> \in {<<"fetch", "pick">>, <<"store", "fit">>, <<"fill", "fill">>} /\ cur' = cur
    BY <1>1 DEF callVars
  <2>3. PICK b : b = SectorData(Sector)
    OBVIOUS
  <2>4. fil[f].dsect # Sector /\ ~ fil[f].dirty
    BY <1>1, <1>3, <1>5 DEF ToFill
  <2>5. SetFile([fil[f] EXCEPT !.dsect = Sector, !.buf = b])
    BY <1>3, <1>5, <2>3
  <2> QED
    BY <1>1, <1>2, <1>3, <1>5, <2>1, <2>2, <2>3, <2>4, <2>5, LoadStep
<1> QED
  BY <1>4, <1>5 DEF SeekFill

LEMMA SyncBufferFiles ==
  ASSUME FilesInv, FatInv', NEW f \in Names, Now(f, Line), SyncBuffer
  PROVE  FilesInv'
<1>1. step = "sync" /\ WriteBack /\ UNCHANGED <<windowVars, fsiVars, callVars, historyVars>>
  BY DEF SyncBuffer
<1>2. fil[f].open /\ ~ Idle /\ cur.call.f = f
  BY <1>1 DEF Now, FilesInv, FatInv, CallInv, File
<1> QED
  BY <1>1, <1>2, FlushStep

-----------------------------------------------------------------------------
(* f_write() puts units in the file.                                       *)

(* n more units are written at p, the position.  Beyond the end of the     *)
(* file and of what was written, a new sector may hold anything.           *)
Puts(f, n) ==
  LET p == fil[f].fptr
  IN  \A i \in Span(f) :
        IF i \in p .. p + n - 1 THEN Mem'[f][i] = cur.call.v
        ELSE i < p \/ i < fil[f].fsize => Mem'[f][i] = Mem[f][i] /\ Raw'[f][i] = Raw[f][i]

LEMMA WritingOn ==
  ASSUME FilesInv, NEW f \in Names, Now(f, Line), fil[f].open, Writing(f), NEW n \in Nat, n <= cur.left, Ahead(fil[f], Line[f]),
         (fil[f].fptr % ClusterUnits) + n <= ClusterUnits, n > 0, Puts(f, n),
         cur'.call = cur.call, before' = before, fil'[f].fsize = fil[f].fsize,
         fil'[f].fptr = fil[f].fptr + n, cur'.left = cur.left - n, step' = "write"
  PROVE  Writing(f)'
<1>0. /\ FatInv /\ fil[f].fptr \in Nat /\ fil[f].fsize \in Nat /\ cur.left \in Nat
      /\ fil[f].fptr <= Extent(f) /\ Extent(f) \in Nat /\ fil[f].fsize <= Extent(f) /\ before.handles[f].pos \in Nat
  BY NowFacts
<1>1. PICK at, p, s : at = before.handles[f].pos /\ p = fil[f].fptr /\ s = fil[f].fsize
  OBVIOUS
<1>2. /\ f \in DOMAIN before.files /\ Len(before.files[f]) = s
      /\ at <= p /\ at <= s /\ p + cur.left = at + cur.call.n /\ at \in Nat /\ p \in Nat /\ s \in Nat
  BY <1>0, <1>1 DEF Writing
<1>3. \A i \in 1 .. Greater(s, p) : Mem[f][i - 1] = IF i \in at + 1 .. p THEN cur.call.v ELSE before.files[f][i]
  BY <1>1 DEF Writing
<1>4. p + n \in Nat /\ p + n <= Extent(f)
  <2>1. (p \div ClusterUnits) + 1 <= Len(Line[f]) /\ Len(Line[f]) \in Nat
    BY <1>0, <1>1, LineFacts DEF Ahead, WholeFile
  <2> QED
    BY <1>1, <1>2, <2>1, MoveOn DEF Extent
<1>5. ASSUME NEW i \in 1 .. Greater(s, p + n)
      PROVE  Mem'[f][i - 1] = IF i \in at + 1 .. p + n THEN cur.call.v ELSE before.files[f][i]
  <2>0. PICK j : j = i - 1
    OBVIOUS
  <2>1. i \in Nat /\ j \in Nat /\ i = j + 1 /\ (i <= s \/ i <= p + n)
    BY <1>2, <1>4, <2>0 DEF Greater
  <2>2. j \in Span(f)
    BY <1>0, <1>1, <1>4, <2>1 DEF Span
  <2>3. CASE j \in p .. p + n - 1
    <3>1. Mem'[f][j] = cur.call.v
      BY <1>1, <2>2, <2>3 DEF Puts
    <3>2. i \in at + 1 .. p + n
      BY <1>2, <2>1, <2>3
    <3> QED
      BY <2>0, <3>1, <3>2
  <2>4. CASE ~ (j \in p .. p + n - 1)
    <3>1. j < p \/ j < s
      BY <1>2, <2>1, <2>4
    <3>2. Mem'[f][j] = Mem[f][j]
      BY <1>1, <2>2, <2>4, <3>1 DEF Puts
    <3>3. i \in 1 .. Greater(s, p)
      BY <1>2, <2>1, <3>1 DEF Greater
    <3>4. i \in at + 1 .. p <=> i \in at + 1 .. p + n
      BY <1>2, <2>1, <2>4
    <3> QED
      BY <1>3, <2>0, <3>2, <3>3, <3>4
  <2> QED
    BY <2>3, <2>4
<1>6. (p + n) + (cur.left - n) = at + cur.call.n /\ at <= p + n
  BY <1>0, <1>2
<1> QED
  BY <1>1, <1>2, <1>5, <1>6 DEF Writing

LEMMA PutStep ==
  ASSUME FilesInv, FatInv', NEW f \in Names, Now(f, Line), cur.call.op = "write", fil[f].open,
         step \in {"write", "store", "fit"}, step' = "write", Ahead(fil[f], Line[f]),
         NEW n \in Nat, n <= cur.left, n > 0, (fil[f].fptr % ClusterUnits) + n <= ClusterUnits,
         fil'[f].open = fil[f].open, fil'[f].write = fil[f].write, fil'[f].written = fil[f].written,
         fil'[f].fsize = fil[f].fsize, fil'[f].fptr = fil[f].fptr + n, \A g \in Names : g # f => fil'[g] = fil[g],
         cur' = [cur EXCEPT !.left = cur.left - n], UNCHANGED <<windowVars, historyVars>>,
         \A g \in Names : Line'[g] = Line[g] /\ Extends(g),
         \A g \in Names : g # f => Mem'[g] = Mem[g] /\ Raw'[g] = Raw[g],
         Puts(f, n), DataInv', BufferInv(f)'
  PROVE  FilesInv'
<1>1. /\ FatInv /\ ~ Idle /\ cur.call.f = f /\ FilType(fil[f]) /\ CurType(cur) /\ ViewOf(f)
      /\ fil[f].fptr \in Nat /\ cur.left \in Nat
  BY NowFacts DEF Now
<1>2. cur'.call = cur.call /\ cur'.left = cur.left - n
  BY <1>1 DEF CurType
<1>3. before' = before /\ kept' = kept /\ dir' = dir /\ disk' = disk /\ ~ Idle'
  BY DEF historyVars, windowVars, Idle
<1>4. OthersAlike(f)
  BY <1>3 DEF OthersAlike
<1>5. Inner(f)
  BY <1>1, <1>2, <1>3, <1>4 DEF Inner, DiskStep
<1>6. Touches(f)
  <2>1. ASSUME NEW i \in Span(f), i < fil[f].fsize
        PROVE  \/ Mem'[f][i] = Mem[f][i] /\ Raw'[f][i] \in {Raw[f][i], Mem[f][i]}
               \/ cur.call.op = "write" /\ i + 1 \in fil[f].fptr + 1 .. fil[f].fptr + cur.left
    <3>1. CASE i \in fil[f].fptr .. fil[f].fptr + n - 1
      <4>1. i \in Nat
        BY <1>1, <3>1
      <4> QED
        BY <1>1, <3>1, <4>1
    <3>2. CASE ~ (i \in fil[f].fptr .. fil[f].fptr + n - 1)
      BY <2>1, <3>2 DEF Puts
    <3> QED
      BY <3>1, <3>2
  <2> QED
    BY <2>1 DEF Touches
<1>7. Writing(f)'
  BY <1>1, <1>2, <1>3, WritingOn DEF ViewOf
<1>8. fil'[f].fptr \in Nat /\ cur'.left \in Nat /\ fil'[f].fptr >= fil[f].fptr /\ fil'[f].fptr + cur'.left = fil[f].fptr + cur.left
  BY <1>1, <1>2
<1> QED
  BY <1>5, <1>6, <1>7, <1>8, InnerStep DEF Moving

(* The first of the sectors written is the one of the position.            *)
LEMMA SectorStart ==
  ASSUME FatInv, NEW f \in Names, cur.call.f = f, Ahead(fil[f], Line[f]), AtSector
  PROVE  /\ Sector[1] = Line[f][(fil[f].fptr \div ClusterUnits) + 1]
         /\ Sector[2] = ((fil[f].fptr \div SectorSize) % ClusterSize)
         /\ Sector[2] * SectorSize = (fil[f].fptr % ClusterUnits)
         /\ fil[f].fptr = (fil[f].fptr \div SectorSize) * SectorSize
<1>0. File = fil[f] /\ fil[f].fptr \in Nat /\ (fil[f].fptr % SectorSize) = 0 /\ SectorSize \in Nat /\ SectorSize > 0
  BY LineFacts, FatConstants DEF File, WholeFile, FilType, AtSector
<1>1. PICK p : p = fil[f].fptr
  OBVIOUS
<1>2. (p % ClusterUnits) = ((p \div SectorSize) % ClusterSize) * SectorSize + (p % SectorSize)
      /\ ((p \div SectorSize) % ClusterSize) \in Nat
  BY <1>0, <1>1, Digits
<1>3. ((p \div SectorSize) % ClusterSize) * SectorSize \in Nat
  BY <1>0, <1>2, Times
<1>4. Sector[1] = fil[f].clust /\ Sector[2] = ((p \div SectorSize) % ClusterSize)
  BY <1>0, <1>1 DEF Sector, SectorInCluster
<1>5. PICK x : x = ((p \div SectorSize) % ClusterSize) * SectorSize
  OBVIOUS
<1>6. x = (p % ClusterUnits)
  BY <1>0, <1>1, <1>2, <1>3, <1>5
<1>7. p = (p \div SectorSize) * SectorSize
  BY <1>0, <1>1, EdgeSector
<1> QED
  BY <1>1, <1>4, <1>5, <1>6, <1>7 DEF Ahead

(* w sectors of a cluster, from sector a of the file.                      *)
LEMMA RunOfUnits ==
  ASSUME NEW a \in Nat, NEW w \in Nat, NEW m \in Nat, NEW o \in InSector
  PROVE  m * SectorSize + o \in a * SectorSize .. a * SectorSize + w * SectorSize - 1 <=> m \in a .. a + w - 1
<1>0. SectorSize \in Nat /\ SectorSize > 0 /\ o \in Nat /\ o < SectorSize
  BY FatConstants DEF InSector
<1>1. PICK x, y, z, t : x = m * SectorSize /\ y = a * SectorSize /\ z = w * SectorSize /\ t = (a + w) * SectorSize
  OBVIOUS
<1>2. x \in Nat /\ y \in Nat /\ z \in Nat /\ t \in Nat
  BY <1>0, <1>1, Times
<1>3. t = y + z
  BY <1>0, <1>1, SMT
<1>4. a <= m => y <= x
  BY <1>0, <1>1, Times
<1>5. PICK e : e = a + w
  OBVIOUS
<1>6. m < e => (m + 1) * SectorSize <= t /\ (m + 1) * SectorSize = x + SectorSize
  <2>1. e \in Nat /\ t = e * SectorSize
    BY <1>1, <1>5
  <2> QED
    BY <1>0, <1>1, <2>1, Times
<1>7. e <= m => t <= x
  <2>1. e \in Nat /\ t = e * SectorSize
    BY <1>1, <1>5
  <2> QED
    BY <1>0, <1>1, <2>1, Times
<1>8. m < a => (m + 1) * SectorSize <= y /\ (m + 1) * SectorSize = x + SectorSize
  BY <1>0, <1>1, Times
<1>9. CASE m \in a .. a + w - 1
  <2>1. a <= m /\ m < e
    BY <1>5, <1>9
  <2>2. PICK k : k = (m + 1) * SectorSize
    OBVIOUS
  <2>3. y <= x /\ k <= t /\ k = x + SectorSize
    BY <1>4, <1>6, <2>1, <2>2
  <2>4. x + o \in y .. y + z - 1
    BY <1>0, <1>2, <1>3, <2>3
  <2> QED
    BY <1>1, <1>9, <2>4
<1>10. CASE m < a
  <2>1. PICK k : k = (m + 1) * SectorSize
    OBVIOUS
  <2>2. k <= y /\ k = x + SectorSize
    BY <1>8, <1>10, <2>1
  <2>3. ~ (x + o \in y .. y + z - 1)
    BY <1>0, <1>2, <2>2
  <2> QED
    BY <1>1, <1>10, <2>3
<1>11. CASE e <= m
  <2>1. t <= x
    BY <1>7, <1>11
  <2>2. ~ (x + o \in y .. y + z - 1)
    BY <1>0, <1>2, <1>3, <2>1
  <2> QED
    BY <1>1, <1>5, <1>11, <2>2
<1>12. m \in a .. a + w - 1 \/ m < a \/ e <= m
  BY <1>5
<1> QED
  BY <1>9, <1>10, <1>11, <1>12

LEMMA RunOfSectors ==
  ASSUME FatInv, NEW f \in Names, NEW a \in Nat, (a \div ClusterSize) + 1 <= Len(Line[f]),
         NEW w \in Nat, (a % ClusterSize) + w <= ClusterSize, NEW m \in Nat, m < Len(Line[f]) * ClusterSize
  PROVE  /\ SectorAt(Line[f], m)[1] = SectorAt(Line[f], a)[1]
         /\ SectorAt(Line[f], m)[2] \in SectorAt(Line[f], a)[2] .. SectorAt(Line[f], a)[2] + w - 1
         <=> m \in a .. a + w - 1
<1>0. ClusterSize \in Nat /\ ClusterSize > 0 /\ Len(Line[f]) \in Nat
      /\ \A i, j \in 1 .. Len(Line[f]) : Line[f][i] = Line[f][j] => i = j
  BY FatConstants, LineFacts DEF WholeFile
<1>1. PICK A, R, M, Q : A = (a \div ClusterSize) /\ R = (a % ClusterSize) /\ M = (m \div ClusterSize) /\ Q = (m % ClusterSize)
  OBVIOUS
<1>2. /\ A \in Nat /\ R \in Nat /\ R < ClusterSize /\ a = A * ClusterSize + R /\ A * ClusterSize \in Nat
      /\ M \in Nat /\ Q \in Nat /\ Q < ClusterSize /\ m = M * ClusterSize + Q /\ M * ClusterSize \in Nat
  BY <1>0, <1>1, DivMod
<1>3. M + 1 \in 1 .. Len(Line[f])
  BY <1>0, <1>1, SectorPlace
<1>4. A + 1 \in 1 .. Len(Line[f])
  <2>1. PICK L : L = Len(Line[f])
    OBVIOUS
  <2>2. A + 1 <= L
    BY <1>1, <2>1
  <2>3. L \in Nat
    BY <1>0, <2>1
  <2>4. A + 1 \in 1 .. L
    BY <1>2, <2>2, <2>3
  <2> QED
    BY <2>1, <2>4
<1>5. (SectorAt(Line[f], m)[1] = SectorAt(Line[f], a)[1]) <=> M = A
  BY <1>0, <1>1, <1>2, <1>3, <1>4 DEF SectorAt
<1>6. SectorAt(Line[f], m)[2] = Q /\ SectorAt(Line[f], a)[2] = R
  BY <1>1 DEF SectorAt
<1>7. PICK x, y : x = A * ClusterSize /\ y = M * ClusterSize
  OBVIOUS
<1>8. a = x + R /\ m = y + Q /\ x \in Nat /\ y \in Nat /\ R \in Nat /\ Q \in Nat
  BY <1>2, <1>7
<1>9. CASE M = A
  <2>1. x = y
    BY <1>7, <1>9
  <2>2. Q \in R .. R + w - 1 <=> m \in a .. a + w - 1
    BY <1>8, <2>1
  <2> QED
    BY <1>5, <1>6, <1>9, <2>2
<1>10. CASE M < A
  <2>1. y + ClusterSize <= x
    <3>1. (M + 1) * ClusterSize <= x /\ (M + 1) * ClusterSize = y + ClusterSize
      BY <1>0, <1>2, <1>7, <1>10, Times
    <3> QED
      BY <3>1
  <2>2. m < a
    BY <1>0, <1>2, <1>8, <2>1
  <2> QED
    BY <1>2, <1>5, <1>10, <2>2
<1>11. CASE A < M
  <2>1. x + ClusterSize <= y
    <3>1. (A + 1) * ClusterSize <= y /\ (A + 1) * ClusterSize = x + ClusterSize
      BY <1>0, <1>2, <1>7, <1>11, Times
    <3> QED
      BY <3>1
  <2>2. R + w <= ClusterSize
    BY <1>1
  <2>3. a + w <= m
    BY <1>0, <1>2, <1>8, <2>1, <2>2
  <2> QED
    BY <1>2, <1>5, <1>11, <2>3
<1> QED
  BY <1>2, <1>9, <1>10, <1>11

(* Whole sectors are written past the buffer.                              *)
LEMMA WholeFiles ==
  ASSUME FilesInv, FatInv', NEW f \in Names, Now(f, Line), step = "store", ~ fil[f].dirty, Whole > 0,
         NEW n, n = Whole * SectorSize, NEW u, u = [i \in 0 .. n - 1 |-> cur.call.v],
         WriteUnits(Sector[1], Sector[2] * SectorSize, n, u),
         NEW b, b = IF BufferIn(Sector, Whole) THEN [i \in DOMAIN fil[f].buf |-> cur.call.v] ELSE fil[f].buf,
         SetFile([fil[f] EXCEPT !.fptr = fil[f].fptr + n, !.buf = b]),
         cur' = [cur EXCEPT !.left = cur.left - n], step' = "write", UNCHANGED <<windowVars, historyVars>>
  PROVE  FilesInv'
<1>1. cur.call.op = "write" /\ fil[f].open
  BY CallKind
<1>2. /\ FatInv /\ DataInv /\ BufferInv(f) /\ ~ Idle /\ cur.call.f = f /\ File = fil[f] /\ FilType(fil[f]) /\ Line \in Families
      /\ CurType(cur) /\ fil[f].fptr \in Nat /\ cur.left \in Nat /\ AtSector /\ cur.left > 0
      /\ fat' = fat /\ dir' = dir /\ cur.call.v \in Values
  BY <1>1, NowFacts, LineIs DEF Now, ProgressInv, LeftInv, SectorInv, windowVars, ViewOf
<1>3. Ahead(fil[f], Line[f])
  BY <1>1, <1>2, WritingFacts DEF WriteSteps
<1>4. n \in Nat /\ n > 0 /\ n <= cur.left /\ (fil[f].fptr % ClusterUnits) + n <= ClusterUnits /\ Whole \in Nat
  BY <1>2, ChunkFacts
<1>5. PICK p, a, w : p = fil[f].fptr /\ a = (fil[f].fptr \div SectorSize) /\ w = Whole
  OBVIOUS
<1>6. /\ Sector[1] = Line[f][(p \div ClusterUnits) + 1] /\ Sector[2] * SectorSize = (p % ClusterUnits)
      /\ Sector[2] = (a % ClusterSize) /\ p = a * SectorSize /\ p \in Nat /\ w \in Nat
  BY <1>2, <1>3, <1>4, <1>5, SectorStart
<1>7. /\ Sector = SectorAt(Line[f], a) /\ a \in Nat /\ (a \div ClusterSize) = (p \div ClusterUnits)
      /\ (a \div ClusterSize) + 1 <= Len(Line[f]) /\ (a % ClusterSize) + w <= ClusterSize
  <2>1. Sector = SectorAt(Line[f], a) /\ a \in Nat
    BY <1>2, <1>3, <1>5, PositionSector
  <2>2. (a \div ClusterSize) = (p \div ClusterUnits)
    BY <1>5, <1>6, Digits
  <2>3. (p \div ClusterUnits) + 1 <= Len(Line[f])
    BY <1>3, <1>5 DEF Ahead
  <2>4. w <= ClusterSize - SectorInCluster
    <3>1. PICK x, y : x = (cur.left \div SectorSize) /\ y = SectorInCluster
      OBVIOUS
    <3>2. x \in Nat /\ y \in Nat /\ ClusterSize \in Nat
      <4>1. x \in Nat
        BY <1>2, <3>1, DivMod, FatConstants
      <4>2. y = ((p \div SectorSize) % ClusterSize)
        BY <1>2, <1>5, <3>1 DEF SectorInCluster
      <4> QED
        BY <1>6, <4>1, <4>2, Digits, FatConstants
    <3> QED
      BY <1>5, <3>1, <3>2 DEF Whole, Lesser
  <2>5. SectorInCluster = (a % ClusterSize) /\ (a % ClusterSize) \in Nat /\ ClusterSize \in Nat
    <3>1. SectorInCluster = (a % ClusterSize)
      BY <1>2, <1>5 DEF SectorInCluster
    <3> QED
      BY <2>1, <3>1, DivMod, FatConstants
  <2> QED
    BY <1>6, <2>1, <2>2, <2>3, <2>4, <2>5
<1>8. Becomes(f, [fil[f] EXCEPT !.fptr = fil[f].fptr + n, !.buf = b])
  BY <1>2, BecomesFacts
<1>9. /\ fil'[f].open = fil[f].open /\ fil'[f].write = fil[f].write /\ fil'[f].written = fil[f].written
      /\ fil'[f].fsize = fil[f].fsize /\ fil'[f].fptr = fil[f].fptr + n /\ fil'[f].dsect = fil[f].dsect
      /\ fil'[f].buf = b /\ fil'[f].dirty = FALSE /\ fil'[f].sclust = fil[f].sclust
      /\ \A g \in Names : g # f => fil'[g] = fil[g]
  <2>1. PICK q : q = fil[f].fptr + n
    OBVIOUS
  <2>2. fil'[f] = [fil[f] EXCEPT !.fptr = q, !.buf = b] /\ \A g \in Names : g # f => fil'[g] = fil[g]
    BY <1>8, <2>1 DEF Becomes
  <2> QED
    BY <1>2, <2>1, <2>2 DEF FilType, FilFields
<1>10. \A g \in Names : Line'[g] = Line[g] /\ Extends(g)
  BY <1>2, <1>9, AllLines
<1>11. WrittenAt(f, p, n, u)
  <2>1. \A i \in 0 .. n - 1 : u[i] \in Values
    BY <1>2
  <2> QED
    BY <1>4, <1>5, <1>6, <1>7, <2>1 DEF WrittenAt
<1>12. /\ \A i \in Span(f) : Raw'[f][i] = IF i \in p .. p + n - 1 THEN u[i - p] ELSE Raw[f][i]
       /\ \A g \in Names : g # f => \A j \in 1 .. Len(Line[g]) : data'[Line[g][j]] = data[Line[g][j]]
       /\ data' \in [Clusters -> [InCluster -> Values]]
  <2>1. FatInv /\ DataInv /\ Line'[f] = Line[f]
    BY <1>2, <1>10
  <2>2. PICK k, x : k = n /\ x = u
    OBVIOUS
  <2>3. WrittenAt(f, p, k, x)
    BY <1>11, <2>2
  <2>4. /\ \A i \in Span(f) : Raw'[f][i] = IF i \in p .. p + k - 1 THEN x[i - p] ELSE Raw[f][i]
        /\ \A g \in Names : g # f => \A j \in 1 .. Len(Line[g]) : data'[Line[g][j]] = data[Line[g][j]]
        /\ data' \in [Clusters -> [InCluster -> Values]]
    BY <2>1, <2>3, Written
  <2> QED
    BY <2>2, <2>4
<1>13. \A i \in Span(f) : Raw'[f][i] = IF i \in p .. p + n - 1 THEN cur.call.v ELSE Raw[f][i]
  <2>1. ASSUME NEW i \in Span(f), i \in p .. p + n - 1 PROVE u[i - p] = cur.call.v
    <3>1. i - p \in 0 .. n - 1
      BY <1>4, <1>6, <2>1
    <3> QED
      BY <3>1
  <2> QED
    BY <1>12, <2>1
<1>14. \A i \in Span(f) : Mem[f][i] = Raw[f][i] /\ Mem'[f][i] = Raw'[f][i]
  <2>1. ASSUME NEW i \in Span(f) PROVE Mem[f][i] = Raw[f][i] /\ Mem'[f][i] = Raw'[f][i]
    <3>1. i \in Span(f)'
      BY <1>10 DEF Span, Extent
    <3> QED
      BY <1>9, <3>1 DEF Mem, InBuffer
  <2> QED
    BY <2>1
<1>15. Puts(f, n)
  BY <1>5, <1>13, <1>14 DEF Puts
<1>16. \A g \in Names : g # f => Mem'[g] = Mem[g] /\ Raw'[g] = Raw[g]
  BY <1>2, <1>9, <1>10, <1>12, OthersSame
<1>17. fil[f].buf \in [InSector -> Values] /\ b \in [InSector -> Values]
       /\ (BufferIn(Sector, w) => \A o \in InSector : b[o] = cur.call.v)
       /\ (~ BufferIn(Sector, w) => b = fil[f].buf)
  BY <1>2, <1>5 DEF DataInv
<1>18. DataInv'
  <2>1. \A g \in Names : fil'[g].buf \in [InSector -> Values]
    BY <1>2, <1>9, <1>17 DEF DataInv
  <2> QED
    BY <1>12, <2>1 DEF DataInv
<1>19. BufferInv(f)'
  <2>1. ~ Fresh(f)
    BY DEF Fresh
  <2>2. ASSUME fil[f].dsect # NoSector
        PROVE  \E m \in Nat : Held(f, m)' /\ Coherent(f, m)'
    <3>1. PICK m \in Nat : Held(f, m) /\ Coherent(f, m)
      BY <1>1, <1>2, <2>1, <2>2 DEF BufferInv
    <3>2. m < Len(Line[f]) * ClusterSize /\ fil[f].dsect = SectorAt(Line[f], m)
      BY <3>1 DEF Held
    <3>3. BufferIn(Sector, w) <=> m \in a .. a + w - 1
      BY <1>2, <1>6, <1>7, <3>2, RunOfSectors DEF BufferIn
    <3>4. ASSUME NEW o \in InSector PROVE fil'[f].buf[o] = Mem'[f][m * SectorSize + o]
      <4>1. m * SectorSize + o \in Span(f)
        BY <1>2, <3>2, SectorUnits
      <4>2. m * SectorSize + o \in p .. p + n - 1 <=> m \in a .. a + w - 1
        BY <1>5, <1>6, <1>7, RunOfUnits
      <4>3. fil[f].buf[o] = Mem[f][m * SectorSize + o]
        BY <3>1 DEF Coherent
      <4>4. PICK i : i = m * SectorSize + o
        OBVIOUS
      <4>5. Mem'[f][i] = IF i \in p .. p + n - 1 THEN cur.call.v ELSE Mem[f][i]
        BY <1>13, <1>14, <4>1, <4>4
      <4> QED
        BY <1>9, <1>17, <3>3, <4>2, <4>3, <4>4, <4>5
    <3>5. Coherent(f, m)'
      BY <3>4 DEF Coherent
    <3>6. Held(f, m)'
      BY <1>9, <1>10, <3>1 DEF Held
    <3> QED
      BY <3>5, <3>6
  <2>3. ((fil[f].fptr + n) % SectorSize) = 0
    <3>1. (a + w) * SectorSize = a * SectorSize + w * SectorSize
      <4>1. SectorSize \in Nat /\ a \in Nat /\ w \in Nat
        BY <1>6, <1>7, FatConstants
      <4> QED
        BY <4>1, SMT
    <3>2. PICK x, y, z : x = a * SectorSize /\ y = w * SectorSize /\ z = (a + w) * SectorSize
      OBVIOUS
    <3>3. z = x + y /\ fil[f].fptr = x /\ n = y
      BY <1>5, <1>6, <3>1, <3>2
    <3>4. PICK q, k : q = a + w /\ k = fil[f].fptr + n
      OBVIOUS
    <3>5. q \in Nat /\ k \in Nat
      BY <1>2, <1>4, <1>6, <1>7, <3>4
    <3>6. k = q * SectorSize + 0
      BY <3>2, <3>3, <3>4, <3>5
    <3>7. (k % SectorSize) = 0
      BY <3>5, <3>6, DivIs, FatConstants
    <3> QED
      BY <3>4, <3>7
  <2>4. ~ ((fil'[f].fptr % SectorSize) # 0) /\ ~ (step' \in {"fit", "pick"})
    BY <1>9, <2>3
  <2> QED
    BY <1>9, <2>2, <2>4 DEF BufferInv
<1> QED
  BY <1>1, <1>3, <1>4, <1>9, <1>10, <1>15, <1>16, <1>18, <1>19, PutStep

LEMMA WriteStoreFiles ==
  ASSUME FilesInv, FatInv', NEW f \in Names, Now(f, Line), WriteStore
  PROVE  FilesInv'
<1>1. step = "store" /\ UNCHANGED <<windowVars, fsiVars, historyVars>>
  BY DEF WriteStore
<1>2. cur.call.op = "write" /\ fil[f].open
  BY <1>1, CallKind
<1>3. /\ FatInv /\ ~ Idle /\ cur.call.f = f /\ File = fil[f] /\ Line \in Families
  BY <1>1, <1>2, NowFacts, LineIs
<1>4. Ahead(fil[f], Line[f])
  BY <1>1, <1>2, <1>3, WritingFacts DEF WriteSteps
<1>5. CASE WriteBack /\ UNCHANGED callVars
  BY <1>1, <1>2, <1>3, <1>5, FlushStep
<1>6. CASE /\ ~ File.dirty /\ Whole > 0 /\ step' = "write"
           /\ WriteUnits(Sector[1], Sector[2] * SectorSize, Whole * SectorSize, [i \in 0 .. Whole * SectorSize - 1 |-> cur.call.v])
           /\ SetFile([File EXCEPT !.fptr = @ + Whole * SectorSize,
                                   !.buf = IF BufferIn(Sector, Whole) THEN [i \in DOMAIN @ |-> cur.call.v] ELSE @])
           /\ cur' = [cur EXCEPT !.left = @ - Whole * SectorSize]
  <2>1. PICK n, u, b : /\ n = Whole * SectorSize /\ u = [i \in 0 .. n - 1 |-> cur.call.v]
                       /\ b = IF BufferIn(Sector, Whole) THEN [i \in DOMAIN fil[f].buf |-> cur.call.v] ELSE fil[f].buf
    OBVIOUS
  <2>2. /\ WriteUnits(Sector[1], Sector[2] * SectorSize, n, u)
        /\ SetFile([fil[f] EXCEPT !.fptr = fil[f].fptr + n, !.buf = b])
        /\ cur' = [cur EXCEPT !.left = cur.left - n]
    BY <1>3, <1>6, <2>1
  <2> QED
    BY <1>1, <1>3, <1>6, <2>1, <2>2, WholeFiles
<1>7. CASE /\ ~ File.dirty /\ step' = "fit" /\ UNCHANGED <<data, cur>>
           /\ SetFile([File EXCEPT !.dsect = Sector, !.buf = IF Fills THEN SectorData(Sector) ELSE @])
  <2>1. PICK b : b = IF Fills THEN SectorData(Sector) ELSE fil[f].buf
    OBVIOUS
  <2>2. SetFile([fil[f] EXCEPT !.dsect = Sector, !.buf = b])
    BY <1>3, <1>7, <2>1
  <2>3. <<step, step'>> \in {<<"fetch", "pick">>, <<"store", "fit">>, <<"fill", "fill">>}
    BY <1>1, <1>7
  <2>4. fil[f].dirty => fil[f].dsect = Sector
    BY <1>3, <1>7
  <2>5. \/ fil[f].dsect = Sector /\ b = fil[f].buf
        \/ fil[f].dsect # Sector /\ b = SectorData(Sector)
        \/ step' = "fit" /\ fil[f].fptr >= fil[f].fsize /\ ~ fil[f].dirty /\ b = fil[f].buf
    <3>1. fil[f].fptr \in Nat /\ fil[f].fsize \in Nat
      BY <1>2, NowFacts
    <3> QED
      BY <1>3, <1>7, <2>1, <3>1 DEF Fills
  <2>6. UNCHANGED <<windowVars, data, cur, historyVars>>
    BY <1>1, <1>7
  <2> QED
    BY <1>2, <1>3, <1>4, <2>2, <2>3, <2>4, <2>5, <2>6, LoadStep
<1> QED
  BY <1>5, <1>6, <1>7 DEF WriteStore, Go

(* What is left of a sector is written in the buffer.                      *)
LEMMA WriteFitFiles ==
  ASSUME FilesInv, FatInv', NEW f \in Names, Now(f, Line), WriteFit
  PROVE  FilesInv'
<1>0. /\ step = "fit" \/ (step = "write" /\ cur.left > 0 /\ ~ AtSector)
      /\ UNCHANGED <<windowVars, data, fsiVars, historyVars>> /\ step' = "write"
  BY DEF WriteFit, Go
<1>1. cur.call.op = "write" /\ fil[f].open
  BY <1>0, CallKind
<1>2. /\ FatInv /\ DataInv /\ BufferInv(f) /\ ~ Idle /\ cur.call.f = f /\ File = fil[f] /\ FilType(fil[f]) /\ Line \in Families
      /\ CurType(cur) /\ fil[f].fptr \in Nat /\ cur.left \in Nat /\ cur.left > 0 /\ data' = data
      /\ fat' = fat /\ dir' = dir /\ cur.call.v \in Values /\ (step = "fit" => AtSector) /\ fil[f].fptr <= Extent(f)
  BY <1>0, <1>1, NowFacts, LineIs DEF Now, ProgressInv, LeftInv, SectorInv, windowVars, ViewOf
<1>3. Ahead(fil[f], Line[f])
  <2>1. CASE step = "fit"
    BY <1>1, <1>2, <2>1, WritingFacts DEF WriteSteps
  <2>2. CASE step = "write" /\ ~ AtSector
    <3>1. Behind(fil[f], Line[f])
      BY <1>1, <1>2, <2>2, PlaceIs DEF Chaining
    <3> QED
      BY <1>2, <2>2, <3>1, MidSector DEF Extent, AtSector
  <2> QED
    BY <1>0, <2>1, <2>2
<1>4. PICK p, n, m, r : p = fil[f].fptr /\ n = Partial /\ m = (p \div SectorSize) /\ r = (p % SectorSize)
  OBVIOUS
<1>5. n \in Nat /\ n > 0 /\ n <= cur.left /\ (p % ClusterUnits) + n <= ClusterUnits /\ n <= SectorSize - r
  <2>1. n \in Nat /\ n > 0 /\ n <= cur.left /\ (p % ClusterUnits) + n <= ClusterUnits
    BY <1>2, <1>4, ChunkFacts
  <2>2. SectorSize \in Nat /\ r \in Nat
    BY <1>2, <1>4, DivMod, FatConstants
  <2>3. n = IF SectorSize - r < cur.left THEN SectorSize - r ELSE cur.left
    BY <1>2, <1>4 DEF Partial, Lesser
  <2> QED
    BY <1>2, <2>1, <2>2, <2>3
<1>6. Held(f, m) /\ m < Len(Line[f]) * ClusterSize /\ fil[f].dsect = SectorAt(Line[f], m)
  <2>1. Held(f, m)
    BY <1>0, <1>1, <1>2, <1>4 DEF BufferInv, Busy, AtSector
  <2> QED
    BY <2>1 DEF Held
<1>7. m \in Nat /\ r \in Nat /\ p = m * SectorSize + r /\ SectorSize \in Nat /\ r < SectorSize /\ m * SectorSize \in Nat
      /\ SectorSize > 0 /\ p \in Nat
  BY <1>2, <1>4, DivMod, FatConstants
<1>8. PICK b : b = [i \in DOMAIN fil[f].buf |-> IF i - r \in 0 .. n - 1 THEN cur.call.v ELSE fil[f].buf[i]]
  OBVIOUS
<1>9. SetFile([fil[f] EXCEPT !.buf = b, !.dirty = TRUE, !.fptr = fil[f].fptr + n]) /\ cur' = [cur EXCEPT !.left = cur.left - n]
  BY <1>2, <1>4, <1>8 DEF WriteFit
<1>10. /\ fil'[f].open = fil[f].open /\ fil'[f].write = fil[f].write /\ fil'[f].written = fil[f].written
       /\ fil'[f].fsize = fil[f].fsize /\ fil'[f].fptr = fil[f].fptr + n /\ fil'[f].dsect = fil[f].dsect
       /\ fil'[f].buf = b /\ fil'[f].dirty = TRUE /\ fil'[f].sclust = fil[f].sclust
       /\ \A g \in Names : g # f => fil'[g] = fil[g]
  <2>1. PICK q : q = fil[f].fptr + n
    OBVIOUS
  <2>2. Becomes(f, [fil[f] EXCEPT !.buf = b, !.dirty = TRUE, !.fptr = q])
    BY <1>2, <1>9, <2>1, BecomesFacts
  <2>3. fil'[f] = [fil[f] EXCEPT !.buf = b, !.dirty = TRUE, !.fptr = q] /\ \A g \in Names : g # f => fil'[g] = fil[g]
    BY <2>2 DEF Becomes
  <2> QED
    BY <1>2, <2>1, <2>3 DEF FilType, FilFields
<1>11. \A g \in Names : Line'[g] = Line[g] /\ Extends(g)
  BY <1>2, <1>10, AllLines
<1>12. \A g \in Names : g # f => Mem'[g] = Mem[g] /\ Raw'[g] = Raw[g]
  BY <1>2, <1>10, <1>11, OthersSame
<1>13. fil[f].buf \in [InSector -> Values] /\ b \in [InSector -> Values]
       /\ \A o \in InSector : b[o] = IF o - r \in 0 .. n - 1 THEN cur.call.v ELSE fil[f].buf[o]
  BY <1>2, <1>8 DEF DataInv
<1>14. DataInv'
  <2>1. \A g \in Names : fil'[g].buf \in [InSector -> Values]
    BY <1>2, <1>10, <1>13 DEF DataInv
  <2> QED
    BY <1>2, <2>1 DEF DataInv
<1>15. ASSUME NEW i \in Span(f)
       PROVE  /\ i \in Nat /\ i \in Span(f)' /\ Raw'[f][i] = Raw[f][i]
              /\ InBuffer(f, i)' <=> (i \div SectorSize) = m
              /\ (i \div SectorSize) # m => Mem[f][i] = Raw[f][i]
  <2>1. i \in Nat /\ (i \div SectorSize) \in Nat /\ (i \div SectorSize) < Len(Line[f]) * ClusterSize
    BY <1>2, UnitCluster
  <2>2. i \in Span(f)' /\ SectorAt(Line'[f], i \div SectorSize) = SectorAt(Line[f], i \div SectorSize)
    BY <1>11 DEF Span, Extent
  <2>3. fil[f].dsect = SectorAt(Line[f], i \div SectorSize) <=> (i \div SectorSize) = m
    BY <1>2, <1>6, <1>7, <2>1, SectorsDiffer
  <2>4. Raw'[f][i] = Raw[f][i]
    BY <1>2, <1>11, <2>2 DEF Raw
  <2> QED
    BY <1>10, <2>1, <2>2, <2>3, <2>4 DEF InBuffer, Mem
<1>16. ASSUME NEW i \in Span(f), (i \div SectorSize) = m
       PROVE  /\ (i % SectorSize) \in InSector /\ i = m * SectorSize + (i % SectorSize)
              /\ Mem'[f][i] = b[i % SectorSize]
              /\ (i % SectorSize) - r \in 0 .. n - 1 <=> i \in p .. p + n - 1
  <2>1. i \in Nat /\ i \in Span(f)' /\ InBuffer(f, i)'
    BY <1>15, <1>16
  <2>2. PICK o : o = (i % SectorSize)
    OBVIOUS
  <2>3. o \in InSector /\ i = m * SectorSize + o
    BY <1>16, <2>1, <2>2, Digits
  <2>4. Mem'[f][i] = b[o]
    BY <1>10, <2>1, <2>2 DEF Mem
  <2>5. o - r \in 0 .. n - 1 <=> i \in p .. p + n - 1
    <3>1. PICK x : x = m * SectorSize
      OBVIOUS
    <3>2. i = x + o /\ p = x + r /\ x \in Nat /\ o \in Nat
      BY <1>7, <2>3, <3>1 DEF InSector
    <3> QED
      BY <1>5, <1>7, <3>2
  <2> QED
    BY <2>2, <2>3, <2>4, <2>5
<1>17. Puts(f, n)
  <2>1. ASSUME NEW i \in Span(f), i \in p .. p + n - 1 PROVE Mem'[f][i] = cur.call.v
    <3>1. (i \div SectorSize) = m
      <4>1. PICK k : k = i - p
        OBVIOUS
      <4>2. k \in Nat /\ i = p + k /\ (p % SectorSize) + k < SectorSize
        <5>1. r \in Nat /\ p \in Nat /\ SectorSize \in Nat
          BY <1>7
        <5>2. k \in Nat /\ i = p + k /\ r + k < SectorSize
          BY <1>5, <2>1, <4>1, <5>1
        <5> QED
          BY <1>4, <5>2
      <4> QED
        BY <1>4, <1>7, <4>2, AlongSector
    <3> QED
      BY <1>13, <1>16, <2>1, <3>1
  <2>2. ASSUME NEW i \in Span(f), i \notin p .. p + n - 1, i < p \/ i < fil[f].fsize PROVE Mem'[f][i] = Mem[f][i]
    <3>1. CASE (i \div SectorSize) # m
      BY <1>15, <3>1 DEF Mem
    <3>2. CASE (i \div SectorSize) = m
      <4>1. PICK o : o = (i % SectorSize)
        OBVIOUS
      <4>2. o \in InSector /\ i = m * SectorSize + o /\ Mem'[f][i] = fil[f].buf[o] /\ i \in Nat
        BY <1>13, <1>15, <1>16, <2>2, <3>2, <4>1
      <4>3. ~ Fresh(f)
        <5>1. CASE step = "write"
          BY <5>1 DEF Fresh
        <5>2. CASE step = "fit" /\ fil[f].fptr >= fil[f].fsize
          <6>1. r = 0
            BY <1>2, <1>4, <5>2 DEF AtSector
          <6>2. PICK x : x = m * SectorSize
            OBVIOUS
          <6>3. p = x /\ i = x + o /\ o \in Nat /\ fil[f].fsize \in Nat /\ x \in Nat
            BY <1>2, <1>7, <4>2, <6>1, <6>2 DEF InSector, FilType
          <6>4. FALSE
            BY <1>2, <1>4, <2>2, <5>2, <6>3
          <6> QED
            BY <6>4
        <5>3. CASE step = "fit" /\ ~ (fil[f].fptr >= fil[f].fsize)
          BY <5>3 DEF Fresh
        <5> QED
          BY <1>0, <5>1, <5>2, <5>3
      <4>4. Coherent(f, m)
        BY <1>1, <1>2, <1>6, <1>7, <4>3, BufferFacts
      <4> QED
        BY <4>2, <4>4 DEF Coherent
    <3> QED
      BY <3>1, <3>2
  <2>3. \A i \in Span(f) : Raw'[f][i] = Raw[f][i]
    BY <1>15
  <2> QED
    BY <1>4, <2>1, <2>2, <2>3 DEF Puts
<1>18. BufferInv(f)'
  <2>1. Held(f, m)'
    BY <1>6, <1>10, <1>11 DEF Held
  <2>2. Coherent(f, m)'
    <3>1. ASSUME NEW o \in InSector PROVE fil'[f].buf[o] = Mem'[f][m * SectorSize + o]
      <4>1. PICK i : i = m * SectorSize + o
        OBVIOUS
      <4>2. i \in Span(f) /\ (i \div SectorSize) = m /\ (i % SectorSize) = o
        BY <1>2, <1>6, <1>7, <4>1, SectorUnits
      <4> QED
        BY <1>10, <1>16, <4>1, <4>2
    <3> QED
      BY <3>1 DEF Coherent
  <2>3. fil'[f].dsect # NoSector
    BY <1>2, <1>6, <1>7, <1>10, SectorPlace
  <2>4. ((p + n) % SectorSize) # 0 => ((p + n) \div SectorSize) = m
    <3>1. CASE r + n < SectorSize
      BY <1>4, <1>5, <1>7, <3>1, AlongSector
    <3>2. CASE ~ (r + n < SectorSize)
      <4>1. PICK y, z : y = m * SectorSize /\ z = (m + 1) * SectorSize
        OBVIOUS
      <4>2. z = y + SectorSize
        BY <1>7, <4>1, Times
      <4>3. p + n = z + 0 /\ p + n \in Nat
        BY <1>5, <1>7, <3>2, <4>1, <4>2
      <4>4. PICK q, o : q = m + 1 /\ o = p + n
        OBVIOUS
      <4>5. q \in Nat /\ o \in Nat /\ o = q * SectorSize + 0
        BY <1>7, <4>1, <4>3, <4>4
      <4>6. (o % SectorSize) = 0
        BY <4>5, DivIs, FatConstants
      <4> QED
        BY <4>4, <4>6
    <3> QED
      BY <3>1, <3>2
  <2>5. step' \notin {"fit", "pick"} /\ fil'[f].fptr = p + n
    BY <1>0, <1>4, <1>10
  <2>6. (fil'[f].fptr % SectorSize) # 0 => Held(f, fil[f].fptr \div SectorSize)'
    BY <2>1, <2>4, <2>5
  <2> QED
    BY <1>7, <2>1, <2>2, <2>3, <2>5, <2>6 DEF BufferInv
<1> QED
  BY <1>0, <1>1, <1>3, <1>4, <1>5, <1>9, <1>10, <1>11, <1>12, <1>14, <1>17, <1>18, PutStep

-----------------------------------------------------------------------------
(* Steps that begin or end a call, or change an entry.                     *)

(* What is kept of a file is still kept.                                   *)
LEMMA KeptStep ==
  ASSUME FatInv, FatInv', NEW f \in Names, DiskStep, Extends(f), KeptInv(f), SameUnits(f),
         f \in DOMAIN kept' =>
           /\ f \in DOMAIN kept /\ kept'[f] \in Seq(Values \cup {Unknown}) /\ Len(kept'[f]) = Len(kept[f])
           /\ \A i \in 1 .. Len(kept[f]) : kept'[f][i] \in {kept[f][i], Unknown}
           /\ dir'[f].used /\ Len(kept[f]) <= SizeOf'[f] /\ Len(kept[f]) <= dir'[f].size
           /\ Busy(f)' => cur'.call.op \notin {"create", "unlink"}
           /\ Busy(f)' /\ cur'.call.op = "write" =>
                \A i \in 1 .. Len(kept[f]) : i \in fil'[f].fptr + 1 .. fil'[f].fptr + cur'.left => kept'[f][i] = Unknown
  PROVE  KeptInv(f)'
<1> SUFFICES ASSUME f \in DOMAIN kept'
             PROVE  KeptInv(f)'
  BY DEF KeptInv
<1>1. /\ f \in DOMAIN kept /\ kept[f] \in Seq(Values \cup {Unknown}) /\ Len(kept[f]) \in Nat
      /\ Len(kept[f]) <= SizeOf[f] /\ Len(kept[f]) <= dir[f].size /\ dir[f].used /\ Stored(f, Len(kept[f])) /\ KeptUnits(f)
  BY LenProperties DEF KeptInv
<1>2. PICK n : n = Len(kept[f])
  OBVIOUS
<1>3. n \in Nat /\ Len(kept'[f]) = n
  BY <1>1, <1>2
<1>4. Stored(f, n)'
  BY <1>1, <1>2, StoredStep
<1>5. KeptUnits(f)'
  <2>1. ASSUME NEW i \in 1 .. n, kept'[f][i] # Unknown PROVE kept'[f][i] = Raw'[f][i - 1] /\ kept'[f][i] = Mem'[f][i - 1]
    <3>1. kept'[f][i] = kept[f][i]
      BY <1>2, <2>1
    <3>2. i - 1 \in Span(f)
      <4>1. SizeOf[f] \in Nat /\ \A j \in 1 .. SizeOf[f] : j - 1 \in Span(f)
        BY SizeIs
      <4>2. i \in 1 .. SizeOf[f]
        BY <1>1, <1>2, <4>1
      <4> QED
        BY <4>1, <4>2
    <3> QED
      BY <1>1, <1>2, <2>1, <3>1, <3>2 DEF KeptUnits, SameUnits
  <2> QED
    BY <1>3, <2>1 DEF KeptUnits
<1>6. Stored(f, Len(kept[f]))'
  BY <1>3, <1>4
<1>7. \A i \in 1 .. n : Busy(f)' /\ cur'.call.op = "write" /\ i \in fil'[f].fptr + 1 .. fil'[f].fptr + cur'.left => kept'[f][i] = Unknown
  BY <1>2
<1> QED
  BY <1>2, <1>3, <1>5, <1>6, <1>7 DEF KeptInv

LEMMA SettledStep ==
  ASSUME FatInv, FatInv', NEW f \in Names, DiskStep, Extends(f), SettledInv(f), dir'[f] = dir[f],
         fil[f].open /\ fil[f].written => fil'[f].open /\ fil'[f].written,
         Busy(f) => step \notin {"replace", "opened", "flush"}
  PROVE  SettledInv(f)'
<1>1. dir[f].size \in Nat
  BY LineFacts DEF WholeFile, DirEntries
<1>2. PICK n : n = dir[f].size
  OBVIOUS
<1>3. dir[f].used /\ Stored(f, n) => Stored(f, n)'
  BY <1>1, <1>2, StoredStep
<1>4. Stored(f, n)' => Stored(f, dir[f].size)'
  BY <1>2
<1> QED
  BY <1>2, <1>3, <1>4 DEF SettledInv

(* The files that are not of the call.                                     *)
Others(s) ==
  \A g \in Names \ s :
    /\ fil'[g] = fil[g] /\ Line'[g] = Line[g] /\ dir'[g] = dir[g] /\ ~ Busy(g) /\ ~ Busy(g)'
    /\ g \in DOMAIN kept' <=> g \in DOMAIN kept
    /\ g \in DOMAIN kept => kept'[g] = kept[g]

LEMMA OthersFiles ==
  ASSUME FilesInv, FatInv', DiskStep, data' = data, NEW s \in SUBSET Names, Others(s)
  PROVE  \A g \in Names \ s : BufferInv(g)' /\ KeptInv(g)' /\ SettledInv(g)' /\ View(g)' = View(g)
<1>0. FatInv /\ \A g \in Names : BufferInv(g) /\ KeptInv(g) /\ SettledInv(g)
  BY DEF FilesInv
<1>1. ASSUME NEW g \in Names \ s PROVE BufferInv(g)' /\ KeptInv(g)' /\ SettledInv(g)' /\ View(g)' = View(g)
  <2>1. /\ fil'[g] = fil[g] /\ Line'[g] = Line[g] /\ dir'[g] = dir[g] /\ ~ Busy(g) /\ ~ Busy(g)'
        /\ g \in DOMAIN kept' <=> g \in DOMAIN kept
        /\ g \in DOMAIN kept => kept'[g] = kept[g]
    BY DEF Others
  <2>2. Mem'[g] = Mem[g] /\ Raw'[g] = Raw[g]
    BY <1>0, <2>1, OthersSame
  <2> QED
    BY <1>0, <2>1, <2>2, OtherFile
<1> QED
  BY <1>1

(* A call ends.                                                            *)
LEMMA EndFiles ==
  ASSUME FilesInv, FatInv', NEW f \in Names, EndCall, DiskStep, data' = data, Others({f}),
         fil'[f].buf \in [InSector -> Values], KeptType', BufferInv(f)', KeptInv(f)', SettledInv(f)'
  PROVE  FilesInv'
<1>1. \A g \in Names : BufferInv(g)' /\ KeptInv(g)' /\ SettledInv(g)'
  BY OthersFiles
<1>2. \A g \in Names : fil'[g].buf \in [InSector -> Values]
  BY DEF FilesInv, DataInv, Others
<1>3. DataInv'
  BY <1>2 DEF FilesInv, DataInv
<1>4. ViewInv'
  BY DEF ViewInv, EndCall, Go, Idle
<1> QED
  BY <1>1, <1>3, <1>4 DEF FilesInv

(* A call goes on.                                                         *)
LEMMA WithinFiles ==
  ASSUME FilesInv, FatInv', NEW f \in Names, ~ Idle, cur.call.f = f, ~ Idle', cur'.call = cur.call, before' = before, kept' = kept,
         DiskStep, data' = data, \A g \in Names \ {f} : fil'[g] = fil[g] /\ Line'[g] = Line[g] /\ dir'[g] = dir[g],
         fil'[f].open = fil[f].open, fil'[f].write = fil[f].write, fil'[f].fptr = fil[f].fptr, fil'[f].buf = fil[f].buf,
         BufferInv(f)', KeptInv(f)', SettledInv(f)', ViewOf(f)'
  PROVE  FilesInv'
<1>1. Others({f})
  BY DEF Others, Busy
<1>2. \A g \in Names \ {f} : BufferInv(g)' /\ KeptInv(g)' /\ SettledInv(g)' /\ View(g)' = View(g)
  BY <1>1, OthersFiles
<1>3. DataInv'
  <2>1. \A g \in Names : fil'[g].buf = fil[g].buf
    OBVIOUS
  <2> QED
    BY <2>1 DEF FilesInv, DataInv
<1>4. /\ \A g \in Names : g # f => AsBefore(g)
      /\ before.handles = [g \in OpenNow |-> before.handles[g]]
      /\ \A g \in OpenNow : HandleBefore(g)
      /\ before.files = [g \in DOMAIN before.files |-> before.files[g]] /\ DOMAIN before.files \subseteq Names
      /\ \A g \in DOMAIN before.files : before.files[g] \in Seq(Values)
      /\ cur.call.op \in OpenOps \cup Moving \cup {"sync", "close", "unlink"}
  BY DEF FilesInv, ViewInv
<1>5. \A g \in Names : g # f => AsBefore(g)'
  BY <1>2, <1>4 DEF AsBefore
<1>6. OpenNow' = OpenNow
  BY DEF OpenNow
<1>7. \A g \in OpenNow' : HandleBefore(g)'
  <2>1. ASSUME NEW g \in OpenNow PROVE HandleBefore(g)'
    <3>1. g \in Names /\ HandleBefore(g) /\ fil'[g].write = fil[g].write /\ fil'[g].fptr = fil[g].fptr
      BY <1>4, <2>1 DEF OpenNow
    <3>2. Busy(g)' <=> Busy(g)
      BY DEF Busy
    <3> QED
      BY <3>1, <3>2 DEF HandleBefore
  <2> QED
    BY <1>6, <2>1
<1>8. before'.handles = [g \in OpenNow' |-> before'.handles[g]]
  BY <1>4, <1>6
<1>9. ViewInv'
  BY <1>4, <1>5, <1>7, <1>8 DEF ViewInv
<1> QED
  BY <1>2, <1>3, <1>9 DEF FilesInv, KeptType

(* Where nothing of the file changes.                                      *)
LEMMA OwnStays ==
  ASSUME FilesInv, FatInv', NEW f \in Names, DiskStep, fil'[f] = fil[f], Line'[f] = Line[f], data' = data
  PROVE  /\ SameUnits(f) /\ Extends(f) /\ Mem'[f] = Mem[f] /\ Raw'[f] = Raw[f]
         /\ dir'[f] = dir[f] => View(f)' = View(f) /\ SizeOf'[f] = SizeOf[f]
         /\ ~ Fresh(f) /\ (NeedsSector(f)' => NeedsSector(f)) => BufferInv(f)'
<1>0. FatInv /\ BufferInv(f)
  BY DEF FilesInv
<1>1. Extends(f)
  BY <1>0, StaysExtends
<1>2. Mem'[f] = Mem[f] /\ Raw'[f] = Raw[f]
  BY <1>0, OthersSame
<1>3. SameUnits(f)
  BY <1>2 DEF SameUnits
<1>4. dir'[f] = dir[f] => SizeOf'[f] = SizeOf[f]
  BY <1>0, SizeIs, SizeNext
<1>5. SizeOf'[f] = SizeOf[f] => View(f)' = View(f)
  BY <1>2 DEF View
<1>6. ASSUME ~ Fresh(f), NeedsSector(f)' => NeedsSector(f) PROVE BufferInv(f)'
  <2>1. NeedsSector(f)' /\ fil[f].open => Held(f, (fil'[f].fptr \div SectorSize))
    BY <1>0, <1>6 DEF BufferInv, NeedsSector
  <2>2. CASE fil[f].open
    BY <1>0, <1>1, <1>2, <1>6, <2>1, <2>2, BufferCalm
  <2>3. CASE ~ fil[f].open
    BY <2>3 DEF BufferInv
  <2> QED
    BY <2>2, <2>3
<1> QED
  BY <1>1, <1>2, <1>3, <1>4, <1>5, <1>6

(* The chains of the other files stay.                                     *)
LEMMA OtherLines ==
  ASSUME FatInv, FatInv', fat' = fat, NEW f \in Names, \A g \in Names : g # f => fil'[g] = fil[g] /\ dir'[g] = dir[g]
  PROVE  \A g \in Names \ {f} : fil'[g] = fil[g] /\ dir'[g] = dir[g] /\ Line'[g] = Line[g]
<1>1. ASSUME NEW g \in Names \ {f} PROVE Line'[g] = Line[g]
  <2>1. Lead(g)' = Lead(g)
    BY DEF Lead
  <2> QED
    BY <2>1, LinesStay
<1> QED
  BY <1>1

LEMMA OnlyOthers ==
  ASSUME FilesInv, FatInv', fat' = fat, NEW f \in Names, \A g \in Names : g # f => fil'[g] = fil[g] /\ dir'[g] = dir[g],
         cur.call.f = f, Idle', kept' = kept
  PROVE  Others({f})
<1>1. FatInv
  BY DEF FilesInv
<1>2. \A g \in Names \ {f} : fil'[g] = fil[g] /\ dir'[g] = dir[g] /\ Line'[g] = Line[g]
  BY <1>1, OtherLines
<1> QED
  BY <1>2 DEF Others, Busy

LEMMA ClosedBuffer ==
  NoBuf \in [InSector -> Values] /\ Closed.buf = NoBuf /\ Closed.dsect = NoSector
<1>1. NoBuf \in [InSector -> Values]
  BY FatAssumption DEF NoBuf, InSector, Values
<1> QED
  BY <1>1 DEF Closed

LEMMA NewBuffer ==
  ASSUME NEW f \in Names, fil'[f].dirty = FALSE, fil'[f].dsect = NoSector, fil'[f].fptr = 0, Idle'
  PROVE  BufferInv(f)'
<1>1. (0 % SectorSize) = 0
  BY DivIs, FatConstants
<1>2. (fil'[f].fptr % SectorSize) = 0
  BY <1>1
<1> QED
  BY <1>2 DEF BufferInv, Busy

(* An open file, not written since.                                        *)
LEMMA OpenedFiles ==
  ASSUME FilesInv, FatInv', NEW f \in Names, Now(f, Line), step \in {"open", "opened"}, DiskStep, data' = data, fat' = fat,
         NEW e, NEW wn, Opened(e, wn), dir'[f] = e, \A g \in Names : g # f => dir'[g] = dir[g],
         (wn = TRUE /\ f \notin DOMAIN kept) \/ (wn = FALSE /\ e = dir[f] /\ step = "open")
  PROVE  FilesInv'
<1>1. FatInv /\ KeptType /\ KeptInv(f) /\ SettledInv(f) /\ cur.call.f = f
  BY DEF FilesInv, Now
<1>0. PICK wr : wr = (cur.call.op # "openExisting")
  OBVIOUS
<1>20. PICK sc, size : sc = e.first /\ size = e.size
  OBVIOUS
<1>2. PICK h : h = [Closed EXCEPT !.open = TRUE, !.write = wr, !.written = wn, !.sclust = sc, !.fsize = size]
  OBVIOUS
<1>3. Becomes(f, h) /\ EndCall /\ kept' = kept
  BY <1>0, <1>1, <1>2, <1>20, BecomesFacts DEF Opened
<1>4. /\ h.open = TRUE /\ h.written = wn /\ h.dirty = FALSE /\ h.dsect = NoSector /\ h.buf = NoBuf /\ h.fptr = 0
      /\ h.sclust = e.first /\ h.fsize = e.size /\ h.buf \in [InSector -> Values]
  <2>1. h.open = TRUE /\ h.written = wn /\ h.dirty = FALSE /\ h.dsect = NoSector /\ h.buf = NoBuf /\ h.fptr = 0
    BY <1>2 DEF Closed
  <2>2. h.sclust = sc /\ h.fsize = size
    BY <1>2 DEF Closed
  <2> QED
    BY <2>1, <2>2, <1>20, ClosedBuffer
<1>5. fil'[f] = h /\ \A g \in Names : g # f => fil'[g] = fil[g]
  BY <1>3 DEF Becomes
<1>6. Idle'
  BY <1>3 DEF EndCall, Go, Idle
<1>7. Others({f})
  BY <1>1, <1>3, <1>5, <1>6, OnlyOthers
<1>8. BufferInv(f)'
  BY <1>4, <1>5, <1>6, NewBuffer
<1>9. KeptType'
  BY <1>1, <1>3 DEF KeptType
<1>10. CASE wn = TRUE /\ f \notin DOMAIN kept
  <2>1. KeptInv(f)' /\ SettledInv(f)'
    BY <1>3, <1>4, <1>5, <1>10 DEF KeptInv, SettledInv
  <2> QED
    BY <1>3, <1>4, <1>5, <1>7, <1>8, <1>9, <2>1, EndFiles
<1>11. CASE wn = FALSE /\ e = dir[f] /\ step = "open"
  <2>1. ~ fil[f].open /\ ~ fil[f].dirty /\ dir[f].first = Lead(f) /\ FilType(fil[f])
    <3>1. Line \in Families
      BY <1>1, LineIs
    <3> QED
      BY <1>1, <3>1, LookingFacts DEF Looking
  <2>2. Lead(f)' = Lead(f)
    BY <1>4, <1>5, <1>11, <2>1 DEF Lead
  <2>3. Line'[f] = Line[f]
    BY <1>1, <2>2, LinesStay
  <2>4. Extends(f)
    BY <1>1, <2>3, StaysExtends
  <2>5. SameUnits(f)
    BY <1>1, <1>4, <1>5, <2>1, <2>4, OwnSame DEF FilType
  <2>6. SettledInv(f)'
    BY <1>1, <1>5, <1>11, <2>1, <2>4, SettledStep
  <2>7. ~ Busy(f)' /\ SizeOf'[f] = dir[f].size
    BY <1>4, <1>5, <1>6, <1>11, SizeNext DEF Busy
  <2>8. KeptInv(f)'
    <3>1. ASSUME f \in DOMAIN kept PROVE KeptInv(f)'
      <4>1. /\ kept[f] \in Seq(Values \cup {Unknown}) /\ Len(kept[f]) <= dir[f].size /\ dir[f].used
        BY <1>1, <3>1 DEF KeptInv
      <4> QED
        BY <1>1, <1>3, <1>11, <2>4, <2>5, <2>7, <4>1, <3>1, KeptStep
    <3> QED
      BY <1>3, <3>1 DEF KeptInv
  <2> QED
    BY <1>3, <1>4, <1>5, <1>7, <1>8, <1>9, <2>6, <2>8, EndFiles
<1> QED
  BY <1>10, <1>11

(* What is looked up or removed is not open.                               *)
LEMMA LookedUp ==
  ASSUME FilesInv, NEW f \in Names, Now(f, Line), step \in Looking
  PROVE  /\ FatInv /\ cur.call.f = f /\ ~ Idle /\ ~ fil[f].open /\ ~ fil[f].dirty /\ dir[f].first = Lead(f)
         /\ dir[f] \in DirEntries /\ (step = "open" => cur.call.op \in OpenOps) /\ (step = "unlink" => cur.call.op = "unlink")
         /\ (~ dir[f].used => f \notin DOMAIN kept) /\ (cur.call.op \in {"create", "unlink"} => f \notin DOMAIN kept)
         /\ FilType(fil[f]) /\ CurType(cur) /\ BufferInv(f)
<1>1. FatInv /\ KeptInv(f) /\ BufferInv(f)
  BY DEF FilesInv
<1>2. Line \in Families
  BY <1>1, LineIs
<1>3. /\ cur.call.f = f /\ ~ Idle /\ ~ fil[f].open /\ ~ fil[f].dirty /\ dir[f].first = Lead(f)
      /\ dir[f] \in DirEntries /\ (step = "open" => cur.call.op \in OpenOps) /\ (step = "unlink" => cur.call.op = "unlink")
      /\ FilType(fil[f]) /\ CurType(cur)
  BY <1>1, <1>2, LookingFacts
<1>4. Busy(f)
  BY <1>3 DEF Busy
<1> QED
  BY <1>1, <1>3, <1>4 DEF KeptInv

(* The entry of a file that is not open, and not kept, changes; its chain  *)
(* is to be removed.                                                       *)
LEMMA ForgetFiles ==
  ASSUME FilesInv, FatInv', NEW f \in Names, Now(f, Line), step \in {"open", "unlink"}, DiskStep, data' = data, fat' = fat,
         fil' = fil, \A g \in Names : g # f => dir'[g] = dir[g], f \notin DOMAIN kept, before' = before, kept' = kept,
         cur'.call = cur.call, \/ step' = "replace" /\ cur.call.op = "create"
                               \/ step' \in {"remove", "flush"} /\ cur.call.op = "unlink" /\ ~ dir'[f].used
  PROVE  FilesInv'
<1>1. FatInv /\ cur.call.f = f /\ ~ Idle /\ ~ fil[f].open
  BY LookedUp DEF Looking
<1>2. ~ Idle'
  BY DEF Idle
<1>3. \A g \in Names \ {f} : fil'[g] = fil[g] /\ dir'[g] = dir[g] /\ Line'[g] = Line[g]
  BY <1>1, OtherLines
<1>4. BufferInv(f)' /\ KeptInv(f)'
  BY <1>1 DEF BufferInv, KeptInv
<1>5. Busy(f)'
  BY <1>1, <1>2 DEF Busy
<1>6. SettledInv(f)'
  BY <1>5 DEF SettledInv
<1>7. ViewOf(f)'
  BY DEF ViewOf, Moving
<1> QED
  BY <1>1, <1>2, <1>3, <1>4, <1>6, <1>7, WithinFiles

LEMMA OpenFiles ==
  ASSUME FilesInv, FatInv', NEW f \in Names, Now(f, Line), f_open
  PROVE  FilesInv'
<1>1. step = "open" /\ data' = data
  BY DEF f_open
<1>2. /\ FatInv /\ WInv /\ cur.call.f = f /\ ~ Idle /\ ~ fil[f].open /\ ~ fil[f].dirty /\ dir[f].first = Lead(f)
      /\ dir[f] \in DirEntries /\ cur.call.op \in OpenOps
      /\ (~ dir[f].used => f \notin DOMAIN kept) /\ (cur.call.op \in {"create", "unlink"} => f \notin DOMAIN kept)
  BY <1>1, LookedUp DEF Looking, FatInv
<1>3. ASSUME ReadOver({DirSector}, DirSector), EndCall PROVE DiskStep /\ fat' = fat /\ dir' = dir
  <2>1. step' # "fsinfo"
    BY <1>3 DEF EndCall, Go
  <2> QED
    BY <1>2, <1>3, <2>1, QuietRead, SectorFacts DEF Quiet
<1>4. ASSUME PutEntry(f, Entry(0, 0)), step' # "fsinfo"
      PROVE  DiskStep /\ fat' = fat /\ dir'[f] = Entry(0, 0) /\ \A g \in Names : g # f => dir'[g] = dir[g]
  BY <1>2, <1>4, NewEntry, WindowEntry
<1>5. ASSUME PutEntry(f, Entry(0, 0)), Opened(Entry(0, 0), TRUE), f \notin DOMAIN kept PROVE FilesInv'
  <2>1. step' # "fsinfo"
    BY <1>5 DEF Opened, EndCall, Go
  <2>2. PICK e, wn : e = Entry(0, 0) /\ wn = TRUE
    OBVIOUS
  <2>3. Opened(e, wn) /\ dir'[f] = e /\ DiskStep /\ fat' = fat /\ \A g \in Names : g # f => dir'[g] = dir[g]
    BY <1>4, <1>5, <2>1, <2>2
  <2> QED
    BY <1>1, <1>5, <2>2, <2>3, OpenedFiles
<1>6. CASE ~ dir[f].used /\ cur.call.op = "openExisting"
  <2>1. ReadOver({DirSector}, DirSector) /\ EndCall /\ UNCHANGED <<fil, got, kept>>
    BY <1>2, <1>6 DEF f_open
  <2>2. DiskStep /\ fat' = fat /\ dir' = dir
    BY <1>3, <2>1
  <2>3. Idle'
    BY <2>1 DEF EndCall, Go, Idle
  <2>4. Others({f})
    BY <1>2, <2>1, <2>2, <2>3, OnlyOthers
  <2>5. BufferInv(f)' /\ KeptInv(f)' /\ SettledInv(f)'
    BY <1>2, <1>6, <2>1, <2>2 DEF BufferInv, KeptInv, SettledInv
  <2>6. fil'[f].buf \in [InSector -> Values] /\ KeptType'
    BY <2>1 DEF FilesInv, DataInv, KeptType
  <2> QED
    BY <1>1, <2>1, <2>2, <2>4, <2>5, <2>6, EndFiles
<1>7. CASE ~ dir[f].used /\ cur.call.op # "openExisting"
  <2>1. PutEntry(f, Entry(0, 0)) /\ Opened(Entry(0, 0), TRUE)
    BY <1>2, <1>7 DEF f_open
  <2> QED
    BY <1>2, <1>5, <1>7, <2>1
<1>8. CASE dir[f].used /\ cur.call.op # "create"
  <2>1. ReadOver({DirSector}, DirSector) /\ Opened(dir[f], FALSE)
    BY <1>2, <1>8 DEF f_open
  <2>2. EndCall
    BY <2>1 DEF Opened
  <2>3. DiskStep /\ fat' = fat /\ dir' = dir
    BY <1>3, <2>1, <2>2
  <2>4. PICK e, wn : e = dir[f] /\ wn = FALSE
    OBVIOUS
  <2>5. Opened(e, wn) /\ dir'[f] = e
    BY <2>1, <2>3, <2>4
  <2> QED
    BY <1>1, <2>3, <2>4, <2>5, OpenedFiles
<1>9. CASE dir[f].used /\ cur.call.op = "create" /\ dir[f].first = 0
  <2>1. PutEntry(f, Entry(0, 0)) /\ Opened(Entry(0, 0), TRUE)
    BY <1>2, <1>9 DEF f_open
  <2> QED
    BY <1>2, <1>5, <1>9, <2>1
<1>10. CASE dir[f].used /\ cur.call.op = "create" /\ dir[f].first # 0
  <2>1. /\ PutEntry(f, Entry(0, 0)) /\ cur' = [cur EXCEPT !.clust = dir[f].first, !.new = dir[f].first]
        /\ step' = "replace" /\ UNCHANGED <<fil, historyVars>>
    BY <1>2, <1>10 DEF f_open, Go
  <2>2. cur'.call = cur.call
    BY <1>1, <2>1, LookedUp DEF CurType, Looking
  <2>3. DiskStep /\ fat' = fat /\ \A g \in Names : g # f => dir'[g] = dir[g]
    BY <1>4, <2>1
  <2>4. before' = before /\ kept' = kept /\ fil' = fil
    BY <2>1 DEF historyVars
  <2> QED
    BY <1>1, <1>2, <1>10, <2>1, <2>2, <2>3, <2>4, ForgetFiles
<1>11. dir[f].used \in BOOLEAN
  BY <1>2 DEF DirEntries
<1> QED
  BY <1>6, <1>7, <1>8, <1>9, <1>10

LEMMA OpenReplacedFiles ==
  ASSUME FilesInv, FatInv', NEW f \in Names, Now(f, Line), OpenReplaced
  PROVE  FilesInv'
<1>1. step = "opened" /\ data' = data /\ ReadOver({DirSector}, DirSector) /\ Opened(dir[cur.call.f], TRUE)
  BY DEF OpenReplaced
<1>2. /\ FatInv /\ cur.call.f = f /\ ~ Idle /\ (cur.call.op \in {"create", "unlink"} => f \notin DOMAIN kept)
  BY <1>1, LookedUp DEF Looking
<1>3. cur.call.op = "create"
  BY <1>1, <1>2 DEF FilesInv, ViewInv, ViewOf
<1>4. step' # "fsinfo"
  BY <1>1 DEF Opened, EndCall, Go
<1>5. DiskStep /\ fat' = fat /\ dir' = dir
  BY <1>1, <1>2, <1>4, QuietRead, SectorFacts DEF Quiet
<1>6. PICK e, wn : e = dir[f] /\ wn = TRUE
  OBVIOUS
<1>7. Opened(e, wn) /\ dir'[f] = e
  BY <1>1, <1>2, <1>5, <1>6
<1> QED
  BY <1>1, <1>2, <1>3, <1>5, <1>6, <1>7, OpenedFiles

LEMMA UnlinkFiles ==
  ASSUME FilesInv, FatInv', NEW f \in Names, Now(f, Line), f_unlink
  PROVE  FilesInv'
<1>1. step = "unlink" /\ UNCHANGED <<data, fil, historyVars>>
  BY DEF f_unlink
<1>2. FatInv /\ WInv /\ cur.call.f = f /\ cur.call.op = "unlink" /\ f \notin DOMAIN kept
  BY <1>1, LookedUp DEF Looking, FatInv
<1>3. PutEntry(f, NoEntry) /\ cur' = [cur EXCEPT !.clust = dir[f].first] /\ step' \in {"flush", "remove"}
  BY <1>2 DEF f_unlink, Go
<1>4. cur'.call = cur.call
  BY <1>1, <1>3, LookedUp DEF CurType, Looking
<1>5. DiskStep /\ fat' = fat /\ dir'[f] = NoEntry /\ \A g \in Names : g # f => dir'[g] = dir[g]
  BY <1>2, <1>3, NewEntry, WindowEntry
<1>6. ~ dir'[f].used
  BY <1>5, NewEntry
<1>7. before' = before /\ kept' = kept /\ fil' = fil /\ data' = data
  BY <1>1 DEF historyVars
<1> QED
  BY <1>1, <1>2, <1>3, <1>4, <1>5, <1>6, <1>7, ForgetFiles

LEMMA ViewSame ==
  ASSUME FatInv, NEW f \in Names, SameUnits(f), SizeOf'[f] = SizeOf[f]
  PROVE  View(f)' = View(f)
<1>1. \A i \in 1 .. SizeOf[f] : i - 1 \in Span(f)
  BY SizeIs
<1>2. \A i \in 1 .. SizeOf[f] : Mem'[f][i - 1] = Mem[f][i - 1]
  BY <1>1 DEF SameUnits
<1> QED
  BY <1>2 DEF View

(* A cluster of Nobody's is freed.                                         *)
LEMMA RemoveFiles ==
  ASSUME FilesInv, FatInv', NEW f \in Names, Now(f, Line), remove_chain
  PROVE  FilesInv'
<1>1. /\ step \in {"remove", "replace"} /\ UNCHANGED <<data, fil, historyVars>>
      /\ RemoveCluster(IF step = "remove" THEN "flush" ELSE "opened")
  BY DEF remove_chain
<1>2. FatInv /\ WInv /\ ~ Idle /\ cur.call.f = f /\ File = fil[f] /\ CurType(cur)
  BY DEF FilesInv, FatInv, Now
<1>3. ~ fil[f].open /\ cur.clust # 0 /\ (step = "remove" => cur.call.op = "unlink")
  BY <1>1, <1>2 DEF FatInv, CallInv, Opening
<1>4. step = "replace" => cur.call.op = "create"
  BY <1>2 DEF FilesInv, ViewInv, ViewOf
<1>5. cur.call.op = "unlink" => ~ dir[f].used \/ step = "unlink"
  BY <1>2 DEF FilesInv, ViewInv, ViewOf
<1>6. PICK c : c = cur.clust
  OBVIOUS
<1>7. c \in Clusters /\ c # Root /\ fat[c] # 0 /\ \A g \in Names : \A i \in 1 .. Len(Line[g]) : Line[g][i] # c
  <2>1. Line \in Families /\ FatInvOf(Line)
    BY <1>2, LineIs
  <2>2. Orphan = c /\ c # 0
    BY <1>1, <1>3, <1>6 DEF Orphan
  <2>3. Nobody \in Owners /\ \A g \in Names : g # Nobody /\ g \in Owners
    BY HeadsFacts
  <2>4. Chains(fat, Heads, Line) /\ DOMAIN Heads = Owners /\ Heads[Nobody] = c
    BY <2>1, <2>2, HeadsFacts DEF FatInvOf
  <2>5. /\ \A i \in 1 .. Len(Line[Nobody]) : Line[Nobody][i] \in Clusters /\ Line[Nobody][i] # Root /\ fat[Line[Nobody][i]] # 0
        /\ 1 \in 1 .. Len(Line[Nobody]) /\ c = Line[Nobody][1]
    <3>1. PICK heads, ch : heads = Heads /\ ch = Line
      OBVIOUS
    <3>3. Chains(fat, heads, ch) /\ DOMAIN heads = Owners /\ Nobody \in Owners
      BY <2>3, <2>4, <3>1
    <3>4. Line[Nobody] # <<>> /\ Len(Line[Nobody]) \in Nat /\ Len(Line[Nobody]) # 0 /\ c = Line[Nobody][1]
      BY <2>1, <2>2, NobodyFacts
    <3>2. \A i \in 1 .. Len(ch[Nobody]) : ch[Nobody][i] \in Clusters /\ ch[Nobody][i] # Root /\ fat[ch[Nobody][i]] # 0
      BY <3>3, FamilyFacts
    <3> QED
      BY <3>1, <3>2, <3>4
  <2>6. \A g \in Names : \A i \in 1 .. Len(Line[g]) : Line[g][i] # Line[Nobody][1]
    BY <1>2, <2>3, <2>5, LinesApart
  <2> QED
    BY <2>5, <2>6
<1>8. put_fat(c, 0) /\ cur' = [cur EXCEPT !.clust = fat[c]]
  BY <1>1, <1>6, <1>7 DEF RemoveCluster
<1>9. \/ step = "remove" /\ step' \in {"remove", "flush"}
      \/ step = "replace" /\ step' \in {"replace", "opened"}
  BY <1>1, <1>6, <1>7 DEF RemoveCluster, Go
<1>10. /\ fat' = [fat EXCEPT ![c] = 0] /\ dir' = dir /\ DiskStep
  <2>1. /\ MoveOver({FatSector(c)}, FatSector(c)) /\ fat' = [fat EXCEPT ![c] = 0] /\ wflag' = TRUE /\ dir' = dir
    BY <1>8 DEF put_fat
  <2>2. FatSector(c) \in {FatSector(c)} /\ 0 \in {0} \cup Clusters \cup {LastLink} /\ step' # "fsinfo"
    BY <1>9
  <2> QED
    BY <1>2, <1>7, <2>1, <2>2, WindowPut
<1>11. fil' = fil /\ data' = data /\ before' = before /\ kept' = kept
  BY <1>1 DEF historyVars
<1>12. \A g \in Names : Line'[g] = Line[g]
  <2>1. ASSUME NEW g \in Names PROVE Line'[g] = Line[g]
    <3>1. Lead(g)' = Lead(g)
      BY <1>10, <1>11 DEF Lead
    <3>2. \A i \in 1 .. Len(Line[g]) : Line[g][i] \in Clusters /\ Line[g][i] # c
      BY <1>2, <1>7, LineFacts DEF WholeFile
    <3>3. \A i \in 1 .. Len(Line[g]) : fat'[Line[g][i]] = fat[Line[g][i]]
      BY <1>2, <1>10, <3>2 DEF WInv, TypesW, Tables
    <3> QED
      BY <1>2, <3>1, <3>3, LineStays
  <2> QED
    BY <2>1
<1>13. ~ Idle' /\ cur'.call = cur.call
  BY <1>2, <1>8, <1>9 DEF Idle, CurType
<1>14. Busy(f) /\ Busy(f)' /\ f \notin DOMAIN kept
  BY <1>1, <1>2, <1>3, <1>4, <1>13 DEF Busy, FilesInv, KeptInv
<1>15. BufferInv(f)' /\ KeptInv(f)'
  BY <1>3, <1>11, <1>14 DEF BufferInv, KeptInv
<1>16. SettledInv(f)'
  BY <1>3, <1>5, <1>9, <1>10, <1>14 DEF SettledInv
<1>17. ViewOf(f)'
  BY <1>3, <1>4, <1>5, <1>9, <1>10, <1>13 DEF ViewOf, Moving
<1> QED
  BY <1>2, <1>10, <1>11, <1>12, <1>13, <1>15, <1>16, <1>17, WithinFiles

-----------------------------------------------------------------------------
(* A call on an open file ends, which may have stretched it.               *)
LEMMA EndSize ==
  ASSUME FilesInv, FatInv', NEW f \in Names, Now(f, Line), fil[f].open, EndCall, kept' = kept, UNCHANGED <<windowVars, data>>,
         step \notin {"fit", "flush", "replace", "opened"},
         NEW h, Becomes(f, h), h.open = TRUE, h.dirty = fil[f].dirty, h.dsect = fil[f].dsect, h.buf = fil[f].buf, h.fptr = fil[f].fptr,
         h.sclust = fil[f].sclust, fil[f].fsize <= h.fsize, fil[f].written => h.written,
         (fil[f].fptr % SectorSize) # 0 => Held(f, (fil[f].fptr \div SectorSize))
  PROVE  FilesInv'
<1>1. FatInv /\ BufferInv(f) /\ KeptInv(f) /\ SettledInv(f) /\ KeptType /\ DataInv
  BY DEF FilesInv
<1>2. fat' = fat /\ dir' = dir /\ DiskStep /\ data' = data
  BY DEF windowVars, DiskStep
<1>3. cur.call.f = f /\ ~ Idle /\ Idle'
  BY DEF Now, EndCall, Go, Idle
<1>4. fil'[f] = h /\ \A g \in Names : g # f => fil'[g] = fil[g]
  BY DEF Becomes
<1>5. Others({f})
  BY <1>2, <1>3, <1>4, OnlyOthers
<1>6. Lead(f)' = Lead(f)
  BY <1>4 DEF Lead
<1>7. Line'[f] = Line[f]
  BY <1>1, <1>2, <1>6, LinesStay
<1>8. Extends(f)
  BY <1>1, <1>7, StaysExtends
<1>9. SameUnits(f)
  BY <1>1, <1>2, <1>4, <1>8, OwnSame
<1>10. BufferInv(f)'
  <2>1. ~ Fresh(f)
    BY DEF Fresh
  <2>2. NeedsSector(f)' => Held(f, (fil'[f].fptr \div SectorSize))
    BY <1>3, <1>4 DEF NeedsSector, Busy
  <2> QED
    BY <1>1, <1>4, <1>8, <1>9, <2>1, <2>2, BufferCalm DEF SameUnits
<1>11. KeptInv(f)'
  <2>1. ASSUME f \in DOMAIN kept PROVE KeptInv(f)'
    <3>1. /\ kept[f] \in Seq(Values \cup {Unknown}) /\ Len(kept[f]) \in Nat
          /\ Len(kept[f]) <= SizeOf[f] /\ Len(kept[f]) <= dir[f].size /\ dir[f].used
      BY <1>1, <2>1, LenProperties DEF KeptInv
    <3>2. SizeOf'[f] = h.fsize /\ SizeOf[f] = fil[f].fsize /\ SizeOf'[f] \in Nat /\ SizeOf[f] \in Nat
      BY <1>1, <1>4, SizeIs, SizeNext
    <3>3. Len(kept[f]) <= SizeOf'[f]
      BY <3>1, <3>2
    <3>4. ~ Busy(f)'
      BY <1>3 DEF Busy
    <3> QED
      BY <1>1, <1>2, <1>8, <1>9, <2>1, <3>1, <3>3, <3>4, KeptStep
  <2> QED
    BY <2>1 DEF KeptInv
<1>12. SettledInv(f)'
  BY <1>1, <1>2, <1>4, <1>8, SettledStep
<1>13. fil'[f].buf \in [InSector -> Values] /\ KeptType'
  BY <1>1, <1>4 DEF DataInv, KeptType
<1> QED
  BY <1>2, <1>5, <1>10, <1>11, <1>12, <1>13, EndFiles

LEMMA HeldNow ==
  ASSUME FilesInv, NEW f \in Names, fil[f].open, (fil[f].fptr % SectorSize) # 0, step # "fill"
  PROVE  Held(f, (fil[f].fptr \div SectorSize))
BY DEF FilesInv, BufferInv

LEMMA WriteFiles ==
  ASSUME FilesInv, FatInv', NEW f \in Names, Now(f, Line), f_write
  PROVE  FilesInv'
<1>1. step \in {"written", "write"} /\ EndCall /\ kept' = kept /\ UNCHANGED <<windowVars, data>>
  BY DEF f_write
<1>2. fil[f].open
  BY <1>1, CallKind
<1>3. FatInv /\ cur.call.f = f /\ File = fil[f] /\ FilType(fil[f])
  BY DEF FilesInv, Now
<1>4. PICK h, n : n = Greater(fil[f].fsize, fil[f].fptr) /\ h = [fil[f] EXCEPT !.fsize = n, !.written = TRUE]
  OBVIOUS
<1>5. Becomes(f, h)
  BY <1>3, <1>4, BecomesFacts DEF f_write
<1>6. fil[f].fsize <= n
  BY <1>3, <1>4 DEF FilType, Greater
<1>7. /\ h.open = fil[f].open /\ h.dirty = fil[f].dirty /\ h.dsect = fil[f].dsect /\ h.buf = fil[f].buf /\ h.fptr = fil[f].fptr
      /\ h.sclust = fil[f].sclust /\ h.fsize = n /\ h.written = TRUE
  BY <1>3, <1>4 DEF FilType, FilFields
<1>8. h.open = TRUE /\ fil[f].fsize <= h.fsize
  BY <1>2, <1>3, <1>6, <1>7 DEF FilType
<1> QED
  BY <1>1, <1>2, <1>5, <1>7, <1>8, HeldNow, EndSize

LEMMA ReadFiles ==
  ASSUME FilesInv, FatInv', NEW f \in Names, Now(f, Line), f_read
  PROVE  FilesInv'
<1>1. step = "read" /\ EndCall /\ kept' = kept /\ UNCHANGED <<windowVars, data, fil>>
  BY DEF f_read
<1>2. fil[f].open
  BY <1>1, CallKind
<1>3. FatInv /\ FilType(fil[f])
  BY DEF FilesInv, Now
<1>4. PICK h : h = fil[f]
  OBVIOUS
<1>5. Becomes(f, h) /\ h.open = TRUE /\ h.fsize <= h.fsize
  BY <1>1, <1>2, <1>3, <1>4, BecomesFacts DEF FilType
<1> QED
  BY <1>1, <1>2, <1>4, <1>5, HeldNow, EndSize

LEMMA SeekFiles ==
  ASSUME FilesInv, FatInv', NEW f \in Names, Now(f, Line), f_lseek
  PROVE  FilesInv'
<1>1. step = "fill" /\ ~ ToFill /\ EndCall /\ kept' = kept /\ UNCHANGED <<windowVars, data>>
  BY DEF f_lseek
<1>2. fil[f].open
  BY <1>1, CallKind
<1>3. FatInv /\ cur.call.f = f /\ File = fil[f] /\ FilType(fil[f]) /\ ~ Idle
  BY DEF FilesInv, Now
<1>4. PICK h, n, w : /\ n = Greater(fil[f].fsize, fil[f].fptr) /\ w = (fil[f].written \/ fil[f].fptr > fil[f].fsize)
                     /\ h = [fil[f] EXCEPT !.fsize = n, !.written = w]
  OBVIOUS
<1>5. Becomes(f, h)
  BY <1>3, <1>4, BecomesFacts DEF f_lseek
<1>6. fil[f].fsize <= n
  BY <1>3, <1>4 DEF FilType, Greater
<1>7. /\ h.open = fil[f].open /\ h.dirty = fil[f].dirty /\ h.dsect = fil[f].dsect /\ h.buf = fil[f].buf /\ h.fptr = fil[f].fptr
      /\ h.sclust = fil[f].sclust /\ h.fsize = n /\ h.written = w
  BY <1>3, <1>4 DEF FilType, FilFields
<1>8. h.open = TRUE /\ fil[f].fsize <= h.fsize /\ (fil[f].written => h.written)
  BY <1>2, <1>3, <1>4, <1>6, <1>7 DEF FilType
<1>9. ASSUME (fil[f].fptr % SectorSize) # 0 PROVE Held(f, (fil[f].fptr \div SectorSize))
  <2>1. fil[f].dsect = Sector
    BY <1>1, <1>3, <1>9 DEF ToFill, AtSector
  <2>2. fil[f].fptr <= Len(Line[f]) * ClusterUnits /\ Behind(fil[f], Line[f])
    BY <1>1, <1>2, <1>3, PlaceIs DEF Chaining
  <2>3. Ahead(fil[f], Line[f])
    BY <1>3, <1>9, <2>2, MidSector
  <2> QED
    BY <1>3, <2>1, <2>3, PositionSector DEF Held
<1> QED
  BY <1>1, <1>2, <1>5, <1>7, <1>8, <1>9, EndSize

-----------------------------------------------------------------------------
(* What a file reads as, by its handle or by its entry.                    *)
LEMMA ContentIs ==
  ASSUME FatInv, NEW f \in Names, NEW h, h.dirty = fil[f].dirty, h.dirty => h.dsect = fil[f].dsect /\ h.buf = fil[f].buf,
         NEW i \in 1 .. SizeOf[f], NEW c, c = Nth(fat, Lead(f), (i - 1) \div ClusterUnits), NEW o, o = (i - 1) % ClusterUnits
  PROVE  /\ c \in Clusters
         /\ (IF h.dirty /\ h.dsect = <<c, o \div SectorSize>> THEN h.buf[o % SectorSize] ELSE data[c][o]) = Mem[f][i - 1]
<1>1. PICK u : u = i - 1
  OBVIOUS
<1>2. u \in Span(f) /\ i \in Nat
  BY <1>1, SizeIs
<1>3. /\ u \in Nat /\ (u \div ClusterUnits) + 1 \in 1 .. Len(Line[f]) /\ (u % ClusterUnits) \in InCluster
      /\ Line[f][(u \div ClusterUnits) + 1] \in Clusters
  BY <1>2, UnitCluster
<1>4. /\ (u \div SectorSize) \in Nat /\ ((u \div SectorSize) \div ClusterSize) = (u \div ClusterUnits)
      /\ ((u % ClusterUnits) \div SectorSize) = ((u \div SectorSize) % ClusterSize)
      /\ ((u % ClusterUnits) % SectorSize) = (u % SectorSize)
      /\ (u \div ClusterUnits) \in Nat
  BY <1>3, Digits
<1>5. PICK k : k = u \div ClusterUnits
  OBVIOUS
<1>6. IsChain(fat, Lead(f), Line[f]) /\ Len(Line[f]) \in Nat
  BY LineFacts DEF WholeFile
<1>7. c = LinkOf(Line[f], k)
  BY <1>1, <1>4, <1>5, <1>6, NthIsLink
<1>8. c = Line[f][k + 1]
  BY <1>3, <1>4, <1>5, <1>6, <1>7 DEF LinkOf
<1>9. SectorAt(Line[f], u \div SectorSize) = <<c, o \div SectorSize>>
  BY <1>1, <1>4, <1>5, <1>8 DEF SectorAt
<1>10. InBuffer(f, u) <=> h.dirty /\ h.dsect = <<c, o \div SectorSize>>
  BY <1>9 DEF InBuffer
<1>11. Raw[f][u] = data[c][o]
  BY <1>1, <1>2, <1>5, <1>8 DEF Raw
<1>12. Mem[f][u] = IF InBuffer(f, u) THEN fil[f].buf[u % SectorSize] ELSE Raw[f][u]
  BY <1>2 DEF Mem
<1> QED
  BY <1>1, <1>3, <1>4, <1>5, <1>8, <1>10, <1>11, <1>12 DEF InBuffer

LEMMA HandleView ==
  ASSUME FatInv, NEW f \in Names, fil[f].open
  PROVE  OfHandle(fil[f]) = View(f)
<1>1. SizeOf[f] = fil[f].fsize /\ Lead(f) = fil[f].sclust
  BY SizeIs DEF Lead
<1>2. PICK h : h = fil[f]
  OBVIOUS
<1>3. \A i \in 1 .. SizeOf[f] :
        LET c == Nth(fat, Lead(f), (i - 1) \div ClusterUnits)
            o == (i - 1) % ClusterUnits
        IN  (IF c \notin Clusters THEN Unknown
             ELSE IF h.dirty /\ h.dsect = <<c, o \div SectorSize>> THEN h.buf[o % SectorSize]
             ELSE data[c][o]) = Mem[f][i - 1]
  BY <1>2, ContentIs
<1> QED
  BY <1>1, <1>2, <1>3 DEF OfHandle, Content, View

LEMMA EntryView ==
  ASSUME FatInv, NEW f \in Names, ~ fil[f].open
  PROVE  OfEntry(fat, dir[f]) = View(f)
<1>1. SizeOf[f] = dir[f].size /\ Lead(f) = dir[f].first
  BY SizeIs DEF Lead
<1>2. ~ fil[f].dirty /\ fil[f].dirty \in BOOLEAN
  BY LineFacts DEF WholeFile, FilType
<1>3. PICK h : h = Closed
  OBVIOUS
<1>4. h.dirty = fil[f].dirty
  BY <1>2, <1>3 DEF Closed
<1>5. \A i \in 1 .. SizeOf[f] :
        LET c == Nth(fat, Lead(f), (i - 1) \div ClusterUnits)
            o == (i - 1) % ClusterUnits
        IN  (IF c \notin Clusters THEN Unknown
             ELSE IF h.dirty /\ h.dsect = <<c, o \div SectorSize>> THEN h.buf[o % SectorSize]
             ELSE data[c][o]) = Mem[f][i - 1]
  BY <1>2, <1>4, ContentIs
<1> QED
  BY <1>1, <1>3, <1>5 DEF OfEntry, Content, View

LEMMA ViewSeq ==
  ASSUME FatInv, DataInv, NEW f \in Names
  PROVE  View(f) \in Seq(Values) /\ Len(View(f)) = SizeOf[f] /\ \A i \in 1 .. SizeOf[f] : View(f)[i] = Mem[f][i - 1]
<1>1. SizeOf[f] \in Nat /\ \A i \in 1 .. SizeOf[f] : i - 1 \in Span(f)
  BY SizeIs
<1>2. \A i \in 1 .. SizeOf[f] : Mem[f][i - 1] \in Values
  BY <1>1, ValuesRead
<1> QED
  BY <1>1, <1>2, FunctionIsSeq DEF View

-----------------------------------------------------------------------------
(* What is synchronised.                                                   *)
LEMMA EndingIs ==
  ASSUME FilesInv, NEW f \in Names, Now(f, Line), step \in Ending
  PROVE  /\ FatInv /\ WInv /\ TypesW /\ WindowInv /\ cur.call.f = f /\ File = fil[f] /\ FilType(fil[f]) /\ ~ Idle /\ Busy(f)
         /\ cur.call.op \in {"sync", "close", "unlink"}
         /\ step = "sync" => cur.call.op # "unlink"
         /\ cur.call.op # "unlink" => fil[f].open /\ dir[f].used /\ AsBefore(f) /\ fil[f].fptr <= fil[f].fsize
         /\ cur.call.op = "unlink" => ~ fil[f].open /\ ~ dir[f].used /\ f \notin DOMAIN kept
         /\ step # "sync" /\ cur.call.op # "unlink" => ~ fil[f].written
         /\ fil[f].dirty => fil[f].written
         /\ fil[f].open /\ ~ fil[f].written => dir[f].size = fil[f].fsize /\ dir[f].first = fil[f].sclust
         /\ BufferInv(f) /\ KeptInv(f) /\ SettledInv(f)
<1>1. FatInv /\ WInv /\ TypesW /\ WindowInv /\ BufferInv(f) /\ KeptInv(f) /\ SettledInv(f)
  BY DEF FilesInv, FatInv, WInv
<1>2. Line \in Families
  BY <1>1, LineIs
<1>3. /\ cur.call.f = f /\ File = fil[f] /\ FilType(fil[f]) /\ ~ Idle /\ FileInv(f, Line[f])
      /\ cur.call.op \in {"sync", "close", "unlink"}
      /\ step = "sync" => cur.call.op # "unlink"
      /\ cur.call.op # "unlink" => fil[f].open
      /\ cur.call.op = "unlink" => ~ fil[f].open
      /\ step # "sync" /\ cur.call.op # "unlink" => ~ fil[f].written
  BY <1>1, <1>2, EndingFacts
<1>4. Busy(f)
  BY <1>3 DEF Busy
<1>5. fil[f].open => dir[f].used
  BY <1>3 DEF FileInv, UnusedInv
<1>6. fil[f].dirty => fil[f].written
  BY <1>3, <1>4 DEF FileInv, DirtyInv
<1>7. fil[f].open /\ ~ fil[f].written => dir[f].size = fil[f].fsize /\ dir[f].first = fil[f].sclust
  BY <1>3, <1>4 DEF FileInv, EntryInv
<1>8. fil[f].open => fil[f].fptr <= fil[f].fsize
  BY <1>3, <1>4 DEF FileInv, PlaceInv
<1>9. ViewOf(f)
  BY <1>3 DEF FilesInv, ViewInv
<1>10. cur.call.op = "unlink" => ~ dir[f].used
  BY <1>9 DEF ViewOf, Ending
<1>11. cur.call.op \in {"sync", "close"} => AsBefore(f)
  BY <1>9 DEF ViewOf
<1>12. cur.call.op = "unlink" => f \notin DOMAIN kept
  BY <1>1, <1>4 DEF KeptInv
<1> QED
  BY <1>1, <1>3, <1>4, <1>5, <1>6, <1>7, <1>8, <1>10, <1>11, <1>12

(* The file stays as it was; its entry may now say so.                     *)
LEMMA SyncedView ==
  ASSUME FatInv, NEW f \in Names, AsBefore(f), View(f)' = View(f), dir[f].used, dir'[f].used, before' = before
  PROVE  AsBefore(f)'
BY DEF AsBefore

LEMMA SyncingView ==
  ASSUME NEW f \in Names, cur'.call = cur.call, cur.call.op \in {"sync", "close", "unlink"}, step' \in {"flush", "fsinfo"},
         cur.call.op # "unlink" => AsBefore(f)', cur.call.op = "unlink" => ~ dir'[f].used
  PROVE  ViewOf(f)'
BY DEF ViewOf, Moving

LEMMA SyncEntryFiles ==
  ASSUME FilesInv, FatInv', NEW f \in Names, Now(f, Line), SyncEntry
  PROVE  FilesInv'
<1>1. /\ step = "sync" /\ step' = "flush" /\ ~ File.dirty /\ UNCHANGED <<data, fsiVars, cur, historyVars>>
      /\ PutEntry(cur.call.f, Entry(File.fsize, File.sclust)) /\ SetFile([File EXCEPT !.written = FALSE])
  BY DEF SyncEntry, Go
<1>2. /\ FatInv /\ WInv /\ cur.call.f = f /\ File = fil[f] /\ FilType(fil[f]) /\ ~ Idle
      /\ cur.call.op \in {"sync", "close"} /\ fil[f].open /\ dir[f].used /\ AsBefore(f)
      /\ BufferInv(f) /\ KeptInv(f)
  BY <1>1, EndingIs DEF Ending
<1>3. PICK e : e = Entry(fil[f].fsize, fil[f].sclust)
  OBVIOUS
<1>4. e \in DirEntries /\ e.size = fil[f].fsize /\ e.first = fil[f].sclust /\ e.used
  BY <1>2, <1>3 DEF FilType, Entry, DirEntries, Starts
<1>5. DiskStep /\ fat' = fat /\ dir'[f] = e /\ \A g \in Names : g # f => dir'[g] = dir[g]
  BY <1>1, <1>2, <1>3, <1>4, WindowEntry
<1>6. PICK h : h = [fil[f] EXCEPT !.written = FALSE]
  OBVIOUS
<1>7. Becomes(f, h)
  BY <1>1, <1>2, <1>6, BecomesFacts
<1>8. fil'[f] = h /\ \A g \in Names : g # f => fil'[g] = fil[g]
  BY <1>7 DEF Becomes
<1>9. /\ h.open = fil[f].open /\ h.write = fil[f].write /\ h.dirty = fil[f].dirty /\ h.dsect = fil[f].dsect
      /\ h.buf = fil[f].buf /\ h.fptr = fil[f].fptr /\ h.sclust = fil[f].sclust /\ h.fsize = fil[f].fsize
  BY <1>2, <1>6 DEF FilType, FilFields
<1>10. \A g \in Names \ {f} : fil'[g] = fil[g] /\ dir'[g] = dir[g] /\ Line'[g] = Line[g]
  BY <1>2, <1>5, <1>8, OtherLines
<1>11. Lead(f)' = Lead(f)
  BY <1>2, <1>8, <1>9 DEF Lead
<1>12. Line'[f] = Line[f]
  BY <1>2, <1>5, <1>11, LinesStay
<1>13. Extends(f)
  BY <1>2, <1>12, StaysExtends
<1>14. data' = data /\ before' = before /\ kept' = kept /\ cur' = cur /\ ~ Idle'
  BY <1>1 DEF historyVars, Idle
<1>15. SameUnits(f)
  BY <1>2, <1>8, <1>9, <1>13, <1>14, OwnSame
<1>16. SizeOf'[f] = SizeOf[f] /\ SizeOf[f] = fil[f].fsize
  BY <1>2, <1>8, <1>9, SizeIs, SizeNext
<1>17. View(f)' = View(f)
  BY <1>2, <1>15, <1>16, ViewSame
<1>18. ViewOf(f)'
  BY <1>1, <1>2, <1>4, <1>5, <1>14, <1>17, SyncedView, SyncingView
<1>19. BufferInv(f)'
  <2>1. NeedsSector(f)' => Held(f, (fil'[f].fptr \div SectorSize))
    BY <1>1, <1>2, <1>8, <1>9, HeldNow DEF NeedsSector
  <2>2. ~ Fresh(f)
    BY <1>1 DEF Fresh
  <2> QED
    BY <1>2, <1>8, <1>9, <1>13, <1>15, <2>1, <2>2, BufferCalm DEF SameUnits
<1>20. KeptInv(f)'
  <2>1. ASSUME f \in DOMAIN kept PROVE KeptInv(f)'
    <3>1. /\ kept[f] \in Seq(Values \cup {Unknown}) /\ Len(kept[f]) <= SizeOf[f]
      BY <1>2, <2>1 DEF KeptInv
    <3> QED
      BY <1>2, <1>4, <1>5, <1>13, <1>14, <1>15, <1>16, <2>1, <3>1, KeptStep
  <2> QED
    BY <1>14, <2>1 DEF KeptInv
<1>21. SettledInv(f)'
  BY <1>1, <1>2, <1>14 DEF SettledInv, Busy
<1> QED
  BY <1>2, <1>5, <1>8, <1>9, <1>10, <1>14, <1>18, <1>19, <1>20, <1>21, WithinFiles

LEMMA SyncWindowFiles ==
  ASSUME FilesInv, FatInv', NEW f \in Names, Now(f, Line), SyncWindow
  PROVE  FilesInv'
<1>1. /\ step = "flush" /\ step' = "fsinfo" /\ disk' = sync_window /\ wflag' = FALSE
      /\ UNCHANGED <<fat, dir, winsect, data, fsiVars, fil, cur, historyVars>>
  BY DEF SyncWindow, Go
<1>2. /\ FatInv /\ WInv /\ TypesW /\ WindowInv /\ cur.call.f = f /\ ~ Idle /\ Busy(f)
      /\ cur.call.op \in {"sync", "close", "unlink"}
      /\ cur.call.op # "unlink" => dir[f].used /\ AsBefore(f)
      /\ cur.call.op = "unlink" => ~ dir[f].used
      /\ BufferInv(f) /\ KeptInv(f)
  BY <1>1, EndingIs DEF Ending
<1>3. DiskStep
  BY <1>1, <1>2, WindowSynced
<1>4. disk'.fat = fat' /\ disk'.dir = dir'
  BY <1>1, <1>2, SyncedDisk
<1>5. data' = data /\ before' = before /\ kept' = kept /\ cur' = cur /\ ~ Idle' /\ fil' = fil /\ dir' = dir /\ fat' = fat
  BY <1>1 DEF historyVars, Idle
<1>6. \A g \in Names : Line'[g] = Line[g]
  <2>1. ASSUME NEW g \in Names PROVE Line'[g] = Line[g]
    <3>1. Lead(g)' = Lead(g)
      BY <1>5 DEF Lead
    <3> QED
      BY <1>2, <1>5, <3>1, LinesStay
  <2> QED
    BY <2>1
<1>7. ~ Fresh(f) /\ (NeedsSector(f)' => NeedsSector(f))
  BY <1>1, <1>5 DEF Fresh, NeedsSector
<1>8. /\ SameUnits(f) /\ Extends(f) /\ View(f)' = View(f) /\ SizeOf'[f] = SizeOf[f] /\ BufferInv(f)'
  BY <1>3, <1>5, <1>6, <1>7, OwnStays
<1>9. KeptInv(f)'
  <2>1. ASSUME f \in DOMAIN kept PROVE KeptInv(f)'
    <3>1. /\ kept[f] \in Seq(Values \cup {Unknown}) /\ Len(kept[f]) <= SizeOf[f] /\ Len(kept[f]) <= dir[f].size
          /\ dir[f].used /\ cur.call.op \notin {"create", "unlink"}
      BY <1>2, <2>1 DEF KeptInv
    <3> QED
      BY <1>2, <1>3, <1>5, <1>8, <2>1, <3>1, KeptStep
  <2> QED
    BY <1>5, <2>1 DEF KeptInv
<1>10. SettledInv(f)'
  BY <1>4, AllStoredNext DEF SettledInv
<1>11. ViewOf(f)'
  BY <1>1, <1>2, <1>5, <1>8, SyncedView, SyncingView
<1> QED
  BY <1>2, <1>3, <1>5, <1>6, <1>8, <1>9, <1>10, <1>11, WithinFiles

(* What sync_fs() leaves of the disk.                                      *)
LEMMA SyncDisk ==
  ASSUME FilesInv, sync_fs
  PROVE  DiskStep /\ fat' = fat /\ dir' = dir /\ data' = data /\ EndCall /\ Idle'
<1>1. fat' = fat /\ dir' = dir /\ data' = data /\ EndCall /\ UNCHANGED <<fat, dir, wflag>>
  BY DEF sync_fs
<1>2. step' = "rest" /\ Idle'
  BY <1>1 DEF EndCall, Go, Idle
<1>3. WInv /\ freeClust \in Int /\ lastClust \in 1 .. LastCluster
  BY DEF FilesInv, FatInv, Types, TypesC
<1>4. CASE step = "fsinfo" /\ fsiFlag
  <2>1. disk' = [disk EXCEPT !.free = freeClust, !.last = lastClust] /\ winsect' = InfoSector
    BY <1>4 DEF sync_fs
  <2>2. DiskStep
    BY <1>1, <1>2, <1>3, <1>4, <2>1, WindowInfo
  <2> QED
    BY <1>1, <1>2, <2>2
<1>5. CASE ~ (step = "fsinfo" /\ fsiFlag)
  <2>1. disk' = disk
    BY <1>5 DEF sync_fs
  <2> QED
    BY <1>1, <1>2, <2>1 DEF DiskStep
<1> QED
  BY <1>4, <1>5

(* What is kept of a file that is synchronised is what it reads as.        *)
LEMMA KeptNow ==
  ASSUME FilesInv, FatInv', NEW f \in Names, DiskStep, Extends(f), SameUnits(f), SettledInv(f),
         ~ fil[f].dirty, dir[f].used, dir'[f].used, ~ (fil[f].open /\ fil[f].written), ~ (Busy(f) /\ step \in {"replace", "opened", "flush"}),
         SizeOf[f] = dir[f].size, dir'[f].size = dir[f].size, SizeOf'[f] = SizeOf[f], kept'[f] = View(f), ~ Busy(f)'
  PROVE  KeptInv(f)'
<1>1. FatInv /\ DataInv
  BY DEF FilesInv
<1>2. PICK n : n = SizeOf[f]
  OBVIOUS
<1>3. n \in Nat /\ \A i \in 1 .. n : i - 1 \in Span(f)
  BY <1>1, <1>2, SizeIs
<1>4. View(f) \in Seq(Values) /\ Len(View(f)) = n /\ \A i \in 1 .. n : View(f)[i] = Mem[f][i - 1]
  BY <1>1, <1>2, ViewSeq
<1>5. Stored(f, n)
  BY <1>2 DEF SettledInv
<1>6. Stored(f, n)'
  BY <1>1, <1>2, <1>3, <1>5, StoredStep
<1>7. ASSUME NEW i \in 1 .. n PROVE kept'[f][i] = Raw'[f][i - 1] /\ kept'[f][i] = Mem'[f][i - 1]
  <2>1. i - 1 \in Span(f)
    BY <1>3
  <2>2. Mem[f][i - 1] = Raw[f][i - 1]
    BY <2>1 DEF Mem, InBuffer
  <2> QED
    BY <1>4, <2>1, <2>2 DEF SameUnits
<1>8. Len(kept'[f]) = n /\ kept'[f] \in Seq(Values \cup {Unknown})
  <2>1. Seq(Values) \subseteq Seq(Values \cup {Unknown})
    BY SMT
  <2> QED
    BY <1>4, <2>1
<1>9. KeptUnits(f)'
  BY <1>7, <1>8 DEF KeptUnits
<1>10. Stored(f, Len(kept[f]))'
  BY <1>6, <1>8
<1>11. Len(kept'[f]) <= SizeOf'[f] /\ Len(kept'[f]) <= dir'[f].size
  BY <1>2, <1>3, <1>8
<1> QED
  BY <1>8, <1>9, <1>10, <1>11 DEF KeptInv

(* A file that is synchronised reads as before.                            *)
LEMMA SyncedIs ==
  ASSUME FilesInv, FatInv', NEW f \in Names, Now(f, Line), sync_fs, cur.call.op # "unlink"
  PROVE  /\ fil[f].open /\ ~ fil[f].written /\ dir[f].used /\ ~ fil[f].dirty /\ dir[f].size = fil[f].fsize /\ dir[f].first = fil[f].sclust
         /\ fil'[f] \in {fil[f], Closed} /\ \A g \in Names : g # f => fil'[g] = fil[g]
         /\ cur.call.op = "close" => fil'[f] = Closed
         /\ cur.call.op = "sync" => fil'[f] = fil[f]
         /\ Line'[f] = Line[f] /\ Extends(f) /\ SameUnits(f) /\ SizeOf[f] = fil[f].fsize /\ SizeOf'[f] = SizeOf[f]
<1>1. DiskStep /\ fat' = fat /\ dir' = dir /\ data' = data /\ EndCall /\ Idle'
  BY SyncDisk
<1>2. Ends /\ step \in Ending
  BY DEF sync_fs, Ends, Ending
<1>3. /\ FatInv /\ cur.call.f = f /\ File = fil[f] /\ FilType(fil[f]) /\ ~ Idle /\ Busy(f)
      /\ cur.call.op \in {"sync", "close", "unlink"}
      /\ cur.call.op # "unlink" => fil[f].open /\ dir[f].used
      /\ step # "sync" /\ cur.call.op # "unlink" => ~ fil[f].written
      /\ fil[f].dirty => fil[f].written
      /\ fil[f].open /\ ~ fil[f].written => dir[f].size = fil[f].fsize /\ dir[f].first = fil[f].sclust
  BY <1>2, EndingIs
<1>7. cur.call.op # "unlink"
  OBVIOUS
<1>8. fil[f].open /\ ~ fil[f].written /\ dir[f].used /\ ~ fil[f].dirty /\ dir[f].size = fil[f].fsize /\ dir[f].first = fil[f].sclust
  BY <1>2, <1>3, <1>7 DEF Ends
<1>9. \E h : /\ Becomes(f, h) /\ h.dirty = FALSE /\ h \in {fil[f], Closed}
             /\ cur.call.op = "close" => h = Closed
             /\ cur.call.op = "sync" => h = fil[f]
  <2>1. CASE cur.call.op = "close"
    <3>1. Becomes(f, Closed)
      BY <1>3, <2>1, BecomesFacts DEF sync_fs
    <3> QED
      BY <2>1, <3>1 DEF Closed
  <2>2. CASE cur.call.op = "sync"
    <3>1. Becomes(f, fil[f])
      BY <1>3, <2>2, BecomesFacts DEF sync_fs
    <3> QED
      BY <1>3, <1>8, <2>2, <3>1 DEF FilType
  <2> QED
    BY <1>3, <1>7, <2>1, <2>2
<1>10. PICK h : /\ Becomes(f, h) /\ h.dirty = FALSE /\ h \in {fil[f], Closed}
                /\ cur.call.op = "close" => h = Closed
                /\ cur.call.op = "sync" => h = fil[f]
  BY <1>9
<1>11. fil'[f] = h /\ \A g \in Names : g # f => fil'[g] = fil[g]
  BY <1>10 DEF Becomes
<1>12. Closed.open = FALSE
  BY DEF Closed
<1>13. Lead(f)' = Lead(f)
  BY <1>1, <1>8, <1>10, <1>11, <1>12 DEF Lead
<1>14. Line'[f] = Line[f]
  BY <1>1, <1>3, <1>13, LinesStay
<1>15. Extends(f)
  BY <1>3, <1>14, StaysExtends
<1>16. fil'[f].dirty = fil[f].dirty
  BY <1>3, <1>8, <1>10, <1>11 DEF FilType
<1>17. SameUnits(f)
  BY <1>1, <1>3, <1>8, <1>15, <1>16, OwnSame
<1>18. SizeOf[f] = fil[f].fsize /\ SizeOf'[f] = SizeOf[f]
  BY <1>1, <1>3, <1>8, <1>10, <1>11, <1>12, SizeIs, SizeNext
<1> QED
  BY <1>8, <1>10, <1>11, <1>14, <1>15, <1>17, <1>18

LEMMA SyncFiles ==
  ASSUME FilesInv, FatInv', NEW f \in Names, Now(f, Line), sync_fs
  PROVE  FilesInv'
<1>1. DiskStep /\ fat' = fat /\ dir' = dir /\ data' = data /\ EndCall /\ Idle'
  BY SyncDisk
<1>2. Ends /\ step \in Ending /\ step # "flush"
  BY DEF sync_fs, Ends, Ending
<1>3. /\ FatInv /\ cur.call.f = f /\ File = fil[f] /\ FilType(fil[f]) /\ ~ Idle /\ Busy(f)
      /\ cur.call.op \in {"sync", "close", "unlink"}
      /\ step = "sync" => cur.call.op # "unlink"
      /\ cur.call.op # "unlink" => fil[f].open /\ dir[f].used
      /\ cur.call.op = "unlink" => ~ fil[f].open /\ ~ dir[f].used /\ f \notin DOMAIN kept
      /\ step # "sync" /\ cur.call.op # "unlink" => ~ fil[f].written
      /\ fil[f].dirty => fil[f].written
      /\ fil[f].open /\ ~ fil[f].written => dir[f].size = fil[f].fsize /\ dir[f].first = fil[f].sclust
      /\ BufferInv(f) /\ KeptInv(f) /\ SettledInv(f)
  BY <1>2, EndingIs
<1>4. KeptType /\ DataInv
  BY DEF FilesInv
<1>5. ~ Busy(f)'
  BY <1>1 DEF Busy
<1>6. CASE cur.call.op = "unlink"
  <2>1. fil' = fil /\ kept' = kept
    BY <1>6 DEF sync_fs
  <2>2. Others({f})
    BY <1>1, <1>3, <2>1, OnlyOthers
  <2>3. BufferInv(f)' /\ KeptInv(f)' /\ SettledInv(f)'
    BY <1>1, <1>3, <1>6, <2>1 DEF BufferInv, KeptInv, SettledInv
  <2>4. fil'[f].buf \in [InSector -> Values] /\ KeptType'
    BY <1>4, <2>1 DEF DataInv, KeptType
  <2> QED
    BY <1>1, <2>2, <2>3, <2>4, EndFiles
<1>7. CASE cur.call.op # "unlink"
  <2>1. fil[f].open
    BY <1>3, <1>7
  <2>2. kept' = [g \in DOMAIN kept \cup {f} |-> IF g = f THEN OfHandle(fil[f]) ELSE kept[g]]
    BY <1>3, <1>7 DEF sync_fs
  <2>3. f \in DOMAIN kept' /\ kept'[f] = View(f) /\ \A g \in Names : g # f => (g \in DOMAIN kept' <=> g \in DOMAIN kept)
    BY <1>3, <2>1, <2>2, HandleView
  <2>4. \A g \in DOMAIN kept : g # f => kept'[g] = kept[g]
    BY <2>2
  <2>5. KeptType'
    BY <1>4, <2>2 DEF KeptType
  <2>8. /\ fil[f].open /\ ~ fil[f].written /\ dir[f].used /\ ~ fil[f].dirty /\ dir[f].size = fil[f].fsize /\ dir[f].first = fil[f].sclust
        /\ fil'[f] \in {fil[f], Closed} /\ \A g \in Names : g # f => fil'[g] = fil[g]
        /\ Line'[f] = Line[f] /\ Extends(f) /\ SameUnits(f) /\ SizeOf[f] = fil[f].fsize /\ SizeOf'[f] = SizeOf[f]
    BY <1>7, SyncedIs
  <2>16. KeptInv(f)'
    BY <1>1, <1>2, <1>3, <1>5, <2>3, <2>8, KeptNow DEF Ending
  <2>17. SettledInv(f)'
    BY <1>1, <1>2, <1>3, <2>8, SettledStep DEF Ending
  <2>18. BufferInv(f)'
    <3>1. CASE fil'[f] = Closed
      BY <3>1 DEF BufferInv, Closed
    <3>2. CASE fil'[f] = fil[f]
      <4>1. ~ Fresh(f) /\ (NeedsSector(f)' => NeedsSector(f))
        BY <1>1, <1>2, <1>5, <3>2 DEF Fresh, NeedsSector, Ending
      <4> QED
        BY <1>1, <2>8, <3>2, <4>1, OwnStays
    <3> QED
      BY <2>8, <3>1, <3>2
  <2>19. fil'[f].buf \in [InSector -> Values]
    BY <1>4, <2>8, ClosedBuffer DEF DataInv
  <2>20. Others({f})
    <3>1. \A g \in Names \ {f} : fil'[g] = fil[g] /\ dir'[g] = dir[g] /\ Line'[g] = Line[g]
      BY <1>1, <1>3, <2>8, OtherLines
    <3> QED
      BY <1>1, <1>3, <2>3, <2>4, <3>1 DEF Others, Busy
  <2> QED
    BY <1>1, <2>5, <2>16, <2>17, <2>18, <2>19, <2>20, EndFiles
<1> QED
  BY <1>6, <1>7

-----------------------------------------------------------------------------
(* Between calls, and calls that start.                                    *)

LEMMA CountFiles ==
  ASSUME FilesInv, FatInv', f_getfree
  PROVE  FilesInv'
<1>1. FatInv /\ KeptType /\ DataInv /\ ViewInv
  BY DEF FilesInv
<1>2. Idle /\ UNCHANGED <<data, lastClust, fil, callVars, historyVars>>
  BY DEF f_getfree
<1>3. step' = step /\ cur' = cur /\ fil' = fil /\ data' = data /\ kept' = kept /\ Idle'
  BY <1>2 DEF callVars, historyVars, Idle
<1>4. DiskStep /\ fat' = fat /\ dir' = dir
  <2>1. LastCluster \in Clusters
    BY FatConstants DEF Clusters
  <2>2. FatSector(LastCluster) \in Sectors /\ FatSector(LastCluster) \in {FatSector(c) : c \in Clusters}
    BY <2>1, SectorFacts
  <2>3. step' # "fsinfo"
    BY <1>2, <1>3 DEF Idle
  <2>4. ReadOver({FatSector(c) : c \in Clusters}, FatSector(LastCluster))
    BY DEF f_getfree
  <2> QED
    BY <1>1, <2>2, <2>3, <2>4, QuietRead DEF Quiet
<1>5. Others({})
  <2>1. ASSUME NEW g \in Names PROVE Line'[g] = Line[g]
    <3>1. Lead(g)' = Lead(g)
      BY <1>3, <1>4 DEF Lead
    <3> QED
      BY <1>1, <1>4, <3>1, LinesStay
  <2> QED
    BY <1>2, <1>3, <1>4, <2>1 DEF Others, Busy
<1>6. \A g \in Names \ {} : BufferInv(g)' /\ KeptInv(g)' /\ SettledInv(g)'
  BY <1>3, <1>4, <1>5, OthersFiles
<1>7. KeptType' /\ DataInv'
  BY <1>1, <1>3 DEF KeptType, DataInv
<1>8. ViewInv'
  BY <1>1, <1>2, <1>3 DEF ViewInv
<1> QED
  BY <1>6, <1>7, <1>8 DEF FilesInv

LEMMA StutterFiles ==
  ASSUME FilesInv, FatInv', UNCHANGED fatVars
  PROVE  FilesInv'
<1>1. /\ disk' = disk /\ fat' = fat /\ dir' = dir /\ data' = data /\ fil' = fil /\ step' = step /\ cur' = cur
      /\ before' = before /\ kept' = kept
  BY DEF fatVars, windowVars, callVars, historyVars
<1>2. Line' = Line /\ DiskLine' = DiskLine
  <2>1. Heads' = Heads
    BY <1>1 DEF Heads, Orphan, File, FirstOf
  <2> QED
    BY <1>1, <2>1 DEF Line, DiskLine
<1>3. Mem' = Mem /\ Raw' = Raw /\ SizeOf' = SizeOf /\ OpenNow' = OpenNow
  BY <1>1, <1>2 DEF Mem, Raw, InBuffer, Span, Extent, SizeOf, OpenNow
<1>4. \A f \in Names : BufferInv(f)' <=> BufferInv(f)
  BY <1>1, <1>2, <1>3 DEF BufferInv, Held, Coherent, Fresh, Busy, Idle
<1>5. \A f \in Names : KeptInv(f)' <=> KeptInv(f)
  BY <1>1, <1>2, <1>3 DEF KeptInv, KeptUnits, Stored, Busy, Idle
<1>6. \A f \in Names : SettledInv(f)' <=> SettledInv(f)
  BY <1>1, <1>2, <1>3 DEF SettledInv, Stored, Busy, Idle
<1>7. \A f : View(f)' = View(f) /\ (AsBefore(f)' <=> AsBefore(f)) /\ (HandleBefore(f)' <=> HandleBefore(f))
  BY <1>1, <1>3 DEF View, AsBefore, HandleBefore, Busy, Idle
<1>8. \A f : (Writing(f)' <=> Writing(f)) /\ (Reading(f)' <=> Reading(f)) /\ (Seeking(f)' <=> Seeking(f))
  BY <1>1, <1>3 DEF Writing, Reading, Seeking, Full, Goal
<1>9. \A f : ViewOf(f)' <=> ViewOf(f)
  BY <1>1, <1>7, <1>8 DEF ViewOf
<1>10. ViewInv'
  BY <1>1, <1>3, <1>7, <1>9 DEF FilesInv, ViewInv, Idle
<1>11. KeptType' /\ DataInv'
  BY <1>1 DEF FilesInv, KeptType, DataInv
<1> QED
  BY <1>4, <1>5, <1>6, <1>10, <1>11 DEF FilesInv

(* The power fails.                                                        *)
LEMMA RestartFiles ==
  ASSUME FilesInv, FatInv', Restart
  PROVE  FilesInv'
<1>1. FatInv /\ KeptType /\ DataInv
  BY DEF FilesInv
<1>2. /\ fat' = disk.fat /\ dir' = disk.dir /\ disk' = disk /\ data' = data /\ kept' = kept /\ fil' = [f \in Names |-> Closed]
      /\ step' = "rest" /\ cur' = NoLocals
  BY DEF Restart
<1>3. \A f \in Names : ~ fil'[f].open /\ ~ fil'[f].dirty /\ fil'[f].buf \in [InSector -> Values]
  <2>1. ~ Closed.open /\ ~ Closed.dirty
    BY DEF Closed
  <2> QED
    BY <1>2, <2>1, ClosedBuffer
<1>4. Idle' /\ \A f \in Names : ~ Busy(f)'
  BY <1>2 DEF Idle, Busy
<1>5. \A f \in Names : Line'[f] = DiskLine[f]
  <2>1. ASSUME NEW f \in Names PROVE Line'[f] = DiskLine[f]
    <3>1. Heads'[f] = disk.dir[f].first
      BY <1>2, <1>3, HeadsNext DEF Lead
    <3>2. f \in Owners
      BY DEF Owners
    <3> QED
      BY <1>2, <3>1, <3>2 DEF Line, DiskLine
  <2> QED
    BY <2>1
<1>6. \A f \in Names : dir'[f].used => Stored(f, dir[f].size)'
  BY <1>2, AllStoredNext
<1>7. \A f \in Names : SettledInv(f)' /\ BufferInv(f)'
  BY <1>3, <1>6 DEF SettledInv, BufferInv
<1>8. ASSUME NEW f \in Names, f \in DOMAIN kept PROVE KeptInv(f)'
  <2>1. /\ kept[f] \in Seq(Values \cup {Unknown}) /\ Len(kept[f]) \in Nat
        /\ Stored(f, Len(kept[f])) /\ KeptUnits(f) /\ Len(kept[f]) <= SizeOf[f]
    BY <1>1, <1>8, LenProperties DEF FilesInv, KeptInv
  <2>2. PICK n : n = Len(kept[f])
    OBVIOUS
  <2>3. /\ n \in Nat /\ disk.dir[f].used /\ n <= disk.dir[f].size
        /\ \A i \in 1 .. Len(DiskLine[f]) : (i - 1) * ClusterUnits < n => i <= Len(Line[f]) /\ DiskLine[f][i] = Line[f][i]
    BY <2>1, <2>2 DEF Stored
  <2>4. SizeOf'[f] = disk.dir[f].size /\ SizeOf'[f] \in Nat /\ SizeOf'[f] <= Extent(f)' /\ Extent(f)' \in Nat
    BY <1>2, <1>3, SizeNext
  <2>5. Stored(f, n)'
    <3>1. Stored(f, dir[f].size)'
      BY <1>2, <1>6, <2>3
    <3>2. dir'[f].size \in Nat
      BY <1>2, <2>4
    <3>3. \A i \in 1 .. Len(DiskLine'[f]) : (i - 1) * ClusterUnits < n => (i - 1) * ClusterUnits < dir'[f].size
      <4>1. ASSUME NEW i \in 1 .. Len(DiskLine'[f]), (i - 1) * ClusterUnits < n PROVE (i - 1) * ClusterUnits < dir'[f].size
        <5>1. PICK x : x = (i - 1) * ClusterUnits
          OBVIOUS
        <5>2. x \in Int
          BY <5>1, FatConstants
        <5> QED
          BY <1>2, <2>3, <2>4, <4>1, <5>1, <5>2
      <4> QED
        BY <4>1
    <3> QED
      BY <1>2, <2>3, <3>1, <3>2, <3>3 DEF Stored
  <2>6. ASSUME NEW i \in 1 .. n, kept[f][i] # Unknown PROVE kept[f][i] = Raw'[f][i - 1] /\ kept[f][i] = Mem'[f][i - 1]
    <3>1. PICK u : u = i - 1
      OBVIOUS
    <3>2. u \in Nat /\ u < n
      BY <2>3, <2>6, <3>1
    <3>3. u \in Span(f) /\ u \in Span(f)'
      <4>1. u < SizeOf[f] /\ SizeOf[f] \in Nat
        BY <1>1, <2>1, <2>2, <3>2, SizeIs
      <4>2. u \in Span(f)
        BY <1>1, <3>2, <4>1, SizeIs
      <4>3. u < Extent(f)'
        BY <1>2, <2>3, <2>4, <3>2
      <4> QED
        BY <2>4, <3>2, <4>2, <4>3 DEF Span
    <3>4. PICK j : j = (u \div ClusterUnits) + 1
      OBVIOUS
    <3>5. /\ (u \div ClusterUnits) \in Nat /\ u = (u \div ClusterUnits) * ClusterUnits + (u % ClusterUnits) /\ (u % ClusterUnits) \in Nat
          /\ (u \div ClusterUnits) * ClusterUnits \in Nat
      BY <3>2, DivMod, FatConstants
    <3>6. j \in 1 .. Len(DiskLine[f])
      <4>1. Len(Line'[f]) \in Nat /\ Extent(f)' = Len(Line'[f]) * ClusterUnits
        BY LineNext DEF WholeFile, Extent
      <4>2. (u \div ClusterUnits) < Len(Line'[f])
        <5>1. ASSUME Len(Line'[f]) <= (u \div ClusterUnits) PROVE FALSE
          <6>1. Len(Line'[f]) * ClusterUnits <= (u \div ClusterUnits) * ClusterUnits
            BY <3>5, <4>1, <5>1, Times, FatConstants
          <6>2. PICK x, y : x = Len(Line'[f]) * ClusterUnits /\ y = (u \div ClusterUnits) * ClusterUnits
            OBVIOUS
          <6>3. u < x
            BY <3>3, <4>1, <6>2 DEF Span
          <6> QED
            BY <2>4, <3>2, <3>5, <4>1, <6>1, <6>2, <6>3
        <5> QED
          BY <3>5, <4>1, <5>1
      <4> QED
        BY <1>5, <3>4, <3>5, <4>1, <4>2
    <3>7. (j - 1) * ClusterUnits < n
      <4>1. j - 1 = (u \div ClusterUnits)
        BY <3>4, <3>5
      <4>2. PICK y : y = (u \div ClusterUnits) * ClusterUnits
        OBVIOUS
      <4>3. y <= u
        BY <3>2, <3>5, <4>2
      <4> QED
        BY <2>3, <3>2, <3>5, <4>1, <4>2, <4>3
    <3>8. Line'[f][j] = Line[f][j]
      BY <1>5, <2>3, <3>6, <3>7
    <3>9. Raw'[f][u] = Raw[f][u]
      BY <1>2, <3>3, <3>4, <3>8 DEF Raw
    <3>10. Mem'[f][u] = Raw'[f][u]
      BY <1>3, <3>3 DEF Mem, InBuffer
    <3>11. kept[f][i] = Raw[f][i - 1]
      BY <2>1, <2>2, <2>6 DEF KeptUnits
    <3> QED
      BY <3>1, <3>9, <3>10, <3>11
  <2>7. KeptUnits(f)'
    BY <1>2, <2>2, <2>6 DEF KeptUnits
  <2> QED
    BY <1>2, <1>4, <2>1, <2>2, <2>3, <2>4, <2>5, <2>7 DEF KeptInv
<1>9. \A f \in Names : KeptInv(f)'
  BY <1>2, <1>8 DEF KeptInv
<1>10. DataInv' /\ KeptType'
  BY <1>1, <1>2, <1>3 DEF DataInv, KeptType
<1>11. ViewInv'
  BY <1>2, <1>4 DEF ViewInv
<1> QED
  BY <1>7, <1>9, <1>10, <1>11 DEF FilesInv

LEMMA FilesInitHolds ==
  ASSUME FatInit
  PROVE  FilesInv
<1>1. FatInv
  BY FatInitHolds
<1>2. /\ dir = [f \in Names |-> NoEntry] /\ data = [c \in Clusters |-> [i \in 0 .. ClusterUnits - 1 |-> 0]]
      /\ fil = [f \in Names |-> Closed] /\ step = "rest" /\ cur = NoLocals /\ kept = << >>
  BY DEF FatInit
<1>3. \A f \in Names : ~ fil[f].open /\ fil[f].buf \in [InSector -> Values]
  BY <1>2, ClosedBuffer DEF Closed
<1>4. \A f \in Names : ~ dir[f].used
  BY <1>2, NewEntry
<1>5. DOMAIN kept = {} /\ kept = [f \in DOMAIN kept |-> kept[f]]
  BY <1>2
<1>6. DataInv
  BY <1>2, <1>3, FatAssumption DEF DataInv, InCluster, Values
<1>7. ViewInv
  BY <1>2 DEF ViewInv, Idle
<1> QED
  BY <1>1, <1>3, <1>4, <1>5, <1>6, <1>7 DEF FilesInv, KeptType, BufferInv, KeptInv, SettledInv

(* The files and handles, between calls.                                   *)
LEMMA FilesAre ==
  ASSUME FatInv
  PROVE  FilesNow = [f \in Used(dir) |-> View(f)]
<1>1. \A f \in Used(dir) : f \in Names
  BY DEF Used
<1>2. \A f \in Used(dir) : (IF fil[f].open THEN OfHandle(fil[f]) ELSE OfEntry(fat, dir[f])) = View(f)
  BY <1>1, HandleView, EntryView
<1> QED
  BY <1>2 DEF FilesNow

LEMMA HandlesAre ==
  HandlesNow = [f \in OpenNow |-> [pos |-> fil[f].fptr, write |-> fil[f].write]]
BY DEF HandlesNow, OpenNow

(* A call starts.                                                          *)
Starting(c, l, s) ==
  /\ FatInv /\ DataInv /\ Idle /\ ~ Idle' /\ cur'.call = c /\ cur'.left = l /\ cur'.out = << >> /\ step' = s
  /\ fil' = fil /\ data' = data /\ fat' = fat /\ dir' = dir /\ DiskStep
  /\ \A g \in Names : /\ Line'[g] = Line[g] /\ SameUnits(g) /\ Extends(g) /\ Mem'[g] = Mem[g] /\ View(g)' = View(g)
                      /\ SizeOf'[g] = SizeOf[g] /\ BufferInv(g)' /\ ~ Busy(g)

LEMMA StartIs ==
  ASSUME FilesInv, FatInv', NEW f \in Names, NEW c, c.f = f, NEW l, NEW s \in {"open", "unlink", "write", "read", "seek", "sync"},
         Start(c, l, s)
  PROVE  Starting(c, l, s)
<1>1. /\ FatInv /\ DataInv /\ Idle /\ step' = s /\ fil' = fil /\ data' = data /\ UNCHANGED windowVars
      /\ cur' = [NoLocals EXCEPT !.call = c, !.left = l]
  BY DEF FilesInv, Start, Go
<1>2. fat' = fat /\ dir' = dir /\ DiskStep
  BY <1>1 DEF windowVars, DiskStep
<1>3. cur'.call = c /\ cur'.left = l /\ cur'.out = << >> /\ ~ Idle'
  BY <1>1 DEF NoLocals, Idle
<1>5. \A g \in Names : ~ Busy(g)
  BY <1>1 DEF Busy
<1>6. \A g \in Names : Line'[g] = Line[g]
  <2>1. ASSUME NEW g \in Names PROVE Line'[g] = Line[g]
    <3>1. Lead(g)' = Lead(g)
      BY <1>1, <1>2 DEF Lead
    <3> QED
      BY <1>1, <1>2, <3>1, LinesStay
  <2> QED
    BY <2>1
<1>7. ASSUME NEW g \in Names
      PROVE  /\ SameUnits(g) /\ Extends(g) /\ Mem'[g] = Mem[g] /\ View(g)' = View(g) /\ SizeOf'[g] = SizeOf[g] /\ BufferInv(g)'
  <2>1. ~ Fresh(g) /\ (NeedsSector(g)' => NeedsSector(g))
    BY <1>1, <1>5 DEF Fresh, NeedsSector
  <2> QED
    BY <1>1, <1>2, <1>6, <2>1, OwnStays
<1> QED
  BY <1>1, <1>2, <1>3, <1>5, <1>6, <1>7 DEF Starting

(* It sees the files and the handles there are.                            *)
Seen ==
  /\ \A g \in Names : AsBefore(g)'
  /\ \A g \in OpenNow : HandleBefore(g)' /\ before'.handles[g].pos = fil[g].fptr
  /\ OpenNow' = OpenNow
  /\ before'.handles = [g \in OpenNow |-> before'.handles[g]]
  /\ before'.files = [g \in DOMAIN before'.files |-> before'.files[g]] /\ DOMAIN before'.files \subseteq Names
  /\ \A g \in DOMAIN before'.files : before'.files[g] \in Seq(Values) /\ before'.files[g] = View(g)
  /\ \A g \in Names : g \in DOMAIN before'.files <=> dir[g].used

LEMMA StartSees ==
  ASSUME FilesInv, NEW c, NEW l, NEW s, Start(c, l, s), Starting(c, l, s)
  PROVE  Seen
<1>1. /\ FatInv /\ DataInv /\ fil' = fil /\ dir' = dir /\ before' = [files |-> FilesNow, handles |-> HandlesNow]
      /\ \A g \in Names : View(g)' = View(g)
  BY DEF Start, Starting
<1>4. before'.files = [g \in Used(dir) |-> View(g)] /\ before'.handles = [g \in OpenNow |-> [pos |-> fil[g].fptr, write |-> fil[g].write]]
  BY <1>1, FilesAre, HandlesAre
<1>8. /\ DOMAIN before'.files = Used(dir) /\ Used(dir) \subseteq Names /\ before'.files = [g \in DOMAIN before'.files |-> before'.files[g]]
      /\ \A g \in Used(dir) : before'.files[g] = View(g)
  BY <1>4 DEF Used
<1>9. \A g \in Names : g \in DOMAIN before'.files <=> dir[g].used
  BY <1>8 DEF Used
<1>10. \A g \in DOMAIN before'.files : before'.files[g] \in Seq(Values) /\ before'.files[g] = View(g)
  <2>1. ASSUME NEW g \in Used(dir) PROVE before'.files[g] \in Seq(Values) /\ before'.files[g] = View(g)
    <3>1. g \in Names
      BY <1>8
    <3> QED
      BY <1>1, <1>8, <3>1, ViewSeq
  <2> QED
    BY <1>8, <2>1
<1>11. \A g \in Names : AsBefore(g)'
  BY <1>1, <1>9, <1>10 DEF AsBefore
<1>12. OpenNow' = OpenNow
  BY <1>1 DEF OpenNow
<1>13. \A g \in OpenNow : g \in Names /\ fil[g].fptr \in Nat
  BY <1>1, LineFacts DEF OpenNow, WholeFile, FilType
<1>14. \A g \in OpenNow : HandleBefore(g)' /\ before'.handles[g].pos = fil[g].fptr
  BY <1>1, <1>4, <1>13 DEF HandleBefore
<1>15. before'.handles = [g \in OpenNow |-> before'.handles[g]]
  BY <1>4
<1> QED
  BY <1>8, <1>9, <1>10, <1>11, <1>12, <1>14, <1>15 DEF Seen

(* What is kept of the file when the call starts.                          *)
KeptStart(f, c, l) ==
  /\ KeptType' /\ c.op \in OpenOps \cup Moving \cup {"sync", "close", "unlink"}
  /\ \A g \in Names : g # f => (g \in DOMAIN kept' <=> g \in DOMAIN kept) /\ (g \in DOMAIN kept => kept'[g] = kept[g])
  /\ f \in DOMAIN kept' =>
       /\ f \in DOMAIN kept /\ c.op \notin {"create", "unlink"}
       /\ kept'[f] \in Seq(Values \cup {Unknown}) /\ Len(kept'[f]) = Len(kept[f])
       /\ \A i \in 1 .. Len(kept[f]) : kept'[f][i] \in {kept[f][i], Unknown}
       /\ c.op = "write" => \A i \in 1 .. Len(kept[f]) : i \in fil[f].fptr + 1 .. fil[f].fptr + l => kept'[f][i] = Unknown

LEMMA StartFiles ==
  ASSUME FilesInv, FatInv', NEW f \in Names, NEW c, c.f = f, NEW l, NEW s \in {"open", "unlink", "write", "read", "seek", "sync"},
         Start(c, l, s), KeptStart(f, c, l),
         c.op = "unlink" <=> s = "unlink", c.op \in Moving => c.n \in Nat /\ c.op = s, c.op = "write" => c.v \in Values,
         c.op = "write" => Writing(f)', c.op = "read" => Reading(f)', c.op = "seek" => Seeking(f)'
  PROVE  FilesInv'
<1>1. /\ FatInv /\ DataInv /\ Idle /\ ~ Idle' /\ cur'.call = c /\ cur'.left = l /\ step' = s
      /\ fil' = fil /\ data' = data /\ fat' = fat /\ dir' = dir /\ DiskStep
      /\ \A g \in Names : /\ Line'[g] = Line[g] /\ SameUnits(g) /\ Extends(g) /\ Mem'[g] = Mem[g] /\ View(g)' = View(g)
                          /\ SizeOf'[g] = SizeOf[g] /\ BufferInv(g)' /\ ~ Busy(g)
  <2>1. Starting(c, l, s)
    BY StartIs
  <2> QED
    BY <2>1 DEF Starting
<1>2. /\ \A g \in OpenNow : HandleBefore(g)'
      /\ OpenNow' = OpenNow
      /\ before'.handles = [g \in OpenNow |-> before'.handles[g]]
      /\ before'.files = [g \in DOMAIN before'.files |-> before'.files[g]] /\ DOMAIN before'.files \subseteq Names
      /\ \A g \in DOMAIN before'.files : before'.files[g] \in Seq(Values)
      /\ \A g \in Names : AsBefore(g)'
  <2>1. Seen
    BY StartIs, StartSees
  <2> QED
    BY <2>1 DEF Seen
<1>3. KeptInv(f) /\ SettledInv(f)
  BY DEF FilesInv
<1>4. Others({f})
  BY <1>1 DEF Others, KeptStart, Busy
<1>5. \A g \in Names \ {f} : KeptInv(g)' /\ SettledInv(g)'
  BY <1>1, <1>4, OthersFiles
<1>6. SettledInv(f)'
  BY <1>1, <1>3, SettledStep
<1>7. KeptInv(f)'
  <2>1. ASSUME f \in DOMAIN kept' PROVE KeptInv(f)'
    <3>1. /\ f \in DOMAIN kept /\ c.op \notin {"create", "unlink"}
          /\ kept'[f] \in Seq(Values \cup {Unknown}) /\ Len(kept'[f]) = Len(kept[f])
          /\ \A i \in 1 .. Len(kept[f]) : kept'[f][i] \in {kept[f][i], Unknown}
          /\ c.op = "write" => \A i \in 1 .. Len(kept[f]) : i \in fil[f].fptr + 1 .. fil[f].fptr + l => kept'[f][i] = Unknown
      BY <2>1 DEF KeptStart
    <3>2. Len(kept[f]) <= SizeOf[f] /\ Len(kept[f]) <= dir[f].size /\ dir[f].used
      BY <1>3, <3>1 DEF KeptInv
    <3>3. Busy(f)' /\ cur'.call.op = "write" =>
                \A i \in 1 .. Len(kept[f]) : i \in fil'[f].fptr + 1 .. fil'[f].fptr + cur'.left => kept'[f][i] = Unknown
      BY <1>1, <3>1
    <3>4. /\ dir'[f].used /\ Len(kept[f]) <= SizeOf'[f] /\ Len(kept[f]) <= dir'[f].size
          /\ Busy(f)' => cur'.call.op \notin {"create", "unlink"}
      BY <1>1, <3>1, <3>2
    <3> QED
      BY <1>1, <1>3, <3>1, <3>3, <3>4, KeptStep
  <2> QED
    BY <2>1 DEF KeptInv
<1>8. ViewOf(f)'
  BY <1>1, <1>2 DEF ViewOf, Moving
<1>9. DataInv'
  BY <1>1 DEF DataInv
<1>10. ViewInv'
  <2>1. cur'.call.f = f /\ cur'.call.op \in OpenOps \cup Moving \cup {"sync", "close", "unlink"}
    BY <1>1 DEF KeptStart
  <2>2. \A g \in Names : AsBefore(g)'
    BY <1>2
  <2> QED
    BY <1>1, <1>2, <1>8, <2>1, <2>2 DEF ViewInv
<1>11. KeptType'
  BY DEF KeptStart
<1>12. \A g \in Names : KeptInv(g)' /\ SettledInv(g)' /\ BufferInv(g)'
  BY <1>1, <1>5, <1>6, <1>7
<1> QED
  BY <1>9, <1>10, <1>11, <1>12 DEF FilesInv

(* Nothing is written over.                                                *)
LEMMA KeptAll ==
  ASSUME FilesInv, NEW f \in Names, NEW c, NEW l, kept' = kept, c.op \in OpenOps \cup Moving \cup {"sync", "close", "unlink"},
         c.op \notin {"create", "unlink", "write"}
  PROVE  KeptStart(f, c, l)
BY DEF FilesInv, KeptType, KeptInv, KeptStart

LEMMA KeptNone ==
  ASSUME FilesInv, NEW f \in Names, NEW c, NEW l, kept' = [g \in DOMAIN kept \ {f} |-> kept[g]], c.op \in {"create", "unlink"}
  PROVE  KeptStart(f, c, l)
BY DEF FilesInv, KeptType, KeptStart, OpenOps

LEMMA CallOpenFiles ==
  ASSUME FilesInv, FatInv', NEW f \in Names, NEW op \in {"create", "openAlways", "openExisting"}, CallOpen(f, op)
  PROVE  FilesInv'
<1>1. PICK c : c = [op |-> op, f |-> f]
  OBVIOUS
<1>2. c.f = f /\ c.op = op /\ c.op \in OpenOps /\ Start(c, 0, "open")
  BY <1>1 DEF CallOpen, OpenOps
<1>3. KeptStart(f, c, 0)
  <2>1. CASE op = "create"
    BY <1>2, <2>1, KeptNone DEF CallOpen
  <2>2. CASE op # "create"
    BY <1>2, <2>2, KeptAll DEF CallOpen
  <2> QED
    BY <2>1, <2>2
<1> QED
  BY <1>2, <1>3, StartFiles DEF OpenOps, Moving

LEMMA CallUnlinkFiles ==
  ASSUME FilesInv, FatInv', NEW f \in Names, CallUnlink(f)
  PROVE  FilesInv'
<1>1. PICK c : c = [op |-> "unlink", f |-> f]
  OBVIOUS
<1>2. c.f = f /\ c.op = "unlink" /\ Start(c, 0, "unlink")
  BY <1>1 DEF CallUnlink
<1>3. KeptStart(f, c, 0)
  BY <1>2, KeptNone DEF CallUnlink
<1> QED
  BY <1>2, <1>3, StartFiles DEF Moving

LEMMA CallSyncFiles ==
  ASSUME FilesInv, FatInv', NEW f \in Names, NEW op \in {"sync", "close"}, CallSync(f, op)
  PROVE  FilesInv'
<1>1. PICK c : c = [op |-> op, f |-> f]
  OBVIOUS
<1>2. c.f = f /\ c.op = op /\ Start(c, 0, "sync") /\ kept' = kept
  BY <1>1 DEF CallSync
<1>3. KeptStart(f, c, 0)
  BY <1>2, KeptAll
<1> QED
  BY <1>2, <1>3, StartFiles DEF Moving

(* An open file that no call is about.                                     *)
LEMMA OpenIdle ==
  ASSUME FilesInv, NEW f \in Names, fil[f].open, Idle
  PROVE  /\ fil[f].fptr \in Nat /\ fil[f].fsize \in Nat /\ fil[f].fptr <= fil[f].fsize /\ dir[f].used /\ SizeOf[f] = fil[f].fsize
         /\ Len(View(f)) = fil[f].fsize /\ \A i \in 1 .. fil[f].fsize : View(f)[i] = Mem[f][i - 1]
         /\ fil[f].write \in BOOLEAN
<1>1. FatInv /\ DataInv
  BY DEF FilesInv
<1>2. FilType(fil[f]) /\ UnusedInv(f) /\ PlaceInv(f, Line[f])
  BY <1>1, LineFacts DEF WholeFile, FileInv
<1>3. ~ Busy(f)
  BY DEF Busy
<1>4. SizeOf[f] = fil[f].fsize
  BY <1>1, SizeIs
<1> QED
  BY <1>1, <1>2, <1>3, <1>4, ViewSeq DEF UnusedInv, PlaceInv, FilType

LEMMA StartOpen ==
  ASSUME FilesInv, FatInv', NEW f \in Names, fil[f].open, NEW c, c.f = f, NEW l,
         NEW s \in {"open", "unlink", "write", "read", "seek", "sync"}, Start(c, l, s)
  PROVE  /\ Idle /\ cur'.call = c /\ cur'.left = l /\ cur'.out = << >> /\ step' = s /\ fil' = fil /\ Mem'[f] = Mem[f]
         /\ before'.handles[f].pos = fil[f].fptr /\ f \in DOMAIN before'.files /\ before'.files[f] = View(f)
         /\ fil[f].fptr \in Nat /\ fil[f].fsize \in Nat /\ fil[f].fptr <= fil[f].fsize /\ dir[f].used
         /\ Len(View(f)) = fil[f].fsize /\ \A i \in 1 .. fil[f].fsize : View(f)[i] = Mem[f][i - 1]
<1>1. Starting(c, l, s)
  BY StartIs
<1>2. Seen
  BY <1>1, StartSees
<1>3. /\ Idle /\ cur'.call = c /\ cur'.left = l /\ cur'.out = << >> /\ step' = s /\ fil' = fil /\ Mem'[f] = Mem[f]
  BY <1>1 DEF Starting
<1>4. before'.handles[f].pos = fil[f].fptr
  BY <1>2 DEF Seen, OpenNow
<1>5. f \in DOMAIN before'.files /\ before'.files[f] = View(f)
  BY <1>2, <1>3, OpenIdle DEF Seen
<1> QED
  BY <1>3, <1>4, <1>5, OpenIdle

LEMMA KeptWritten ==
  ASSUME FilesInv, NEW f \in Names, NEW n \in Nat, fil[f].open, Idle,
         kept' = [g \in DOMAIN kept |->
                [i \in DOMAIN kept[g] |-> IF g = f /\ i \in Overwrites(f, n) THEN Unknown ELSE kept[g][i]]],
         NEW c, c.op = "write"
  PROVE  KeptStart(f, c, n)
<1>1. DOMAIN kept \subseteq Names /\ KeptInv(f) /\ \A g \in Names : KeptInv(g)
  BY DEF FilesInv, KeptType
<1>2. DOMAIN kept' = DOMAIN kept /\ kept' = [g \in DOMAIN kept' |-> kept'[g]]
  OBVIOUS
<1>3. ASSUME NEW g \in Names, g # f, g \in DOMAIN kept PROVE kept'[g] = kept[g]
  <2>1. kept[g] \in Seq(Values \cup {Unknown})
    BY <1>1, <1>3 DEF KeptInv
  <2>2. kept'[g] = [i \in DOMAIN kept[g] |-> kept[g][i]]
    BY <1>3
  <2> QED
    BY <2>1, <2>2
<1>4. ASSUME f \in DOMAIN kept
      PROVE /\ kept'[f] \in Seq(Values \cup {Unknown}) /\ Len(kept'[f]) = Len(kept[f])
            /\ \A i \in 1 .. Len(kept[f]) : kept'[f][i] \in {kept[f][i], Unknown}
            /\ \A i \in 1 .. Len(kept[f]) : i \in fil[f].fptr + 1 .. fil[f].fptr + n => kept'[f][i] = Unknown
  <2>1. kept[f] \in Seq(Values \cup {Unknown})
    BY <1>1, <1>4 DEF KeptInv
  <2>2. PICK m \in Nat : m = Len(kept[f])
    BY <2>1, LenProperties
  <2>3. DOMAIN kept[f] = 1 .. m /\ \A i \in 1 .. m : kept[f][i] \in Values \cup {Unknown}
    BY <2>1, <2>2, LenProperties, ElementOfSeq
  <2>4. kept'[f] = [i \in 1 .. m |-> IF i \in Overwrites(f, n) THEN Unknown ELSE kept[f][i]]
    BY <1>4, <2>3
  <2>5. kept'[f] \in [1 .. m -> Values \cup {Unknown}]
    BY <2>3, <2>4
  <2>6. kept'[f] \in Seq(Values \cup {Unknown}) /\ Len(kept'[f]) = m
    BY <2>5, FunctionIsSeq
  <2> QED
    BY <2>2, <2>4, <2>6 DEF Overwrites
<1>5. KeptType'
  BY <1>1, <1>2 DEF KeptType
<1> QED
  BY <1>2, <1>3, <1>4, <1>5 DEF KeptStart, Moving

LEMMA CallWriteFiles ==
  ASSUME FilesInv, FatInv', NEW f \in Names, NEW n \in Sizes[f], CallWrite(f, n)
  PROVE  FilesInv'
<1>1. PICK c : c = [op |-> "write", f |-> f, n |-> n, v |-> fatCalls']
  OBVIOUS
<1>2. c.f = f /\ c.op = "write" /\ c.n = n /\ c.v = fatCalls' /\ Start(c, n, "write") /\ fil[f].open /\ Idle
  BY <1>1 DEF CallWrite, Start
<1>3. n \in Nat /\ c.v \in Values
  <2>1. fatCalls \in 0 .. MaxFatCalls /\ MaxFatCalls \in Nat
    BY FatAssumption DEF FilesInv, FatInv, Types, TypesN
  <2>2. fatCalls' = fatCalls + 1 /\ fatCalls < MaxFatCalls
    BY DEF CallWrite, Counted
  <2>3. n \in Nat
    BY FatAssumption
  <2> QED
    BY <1>2, <2>1, <2>2, <2>3 DEF Values
<1>4. KeptStart(f, c, n)
  BY <1>2, <1>3, KeptWritten DEF CallWrite
<1>5. Writing(f)'
  <2>1. /\ Idle /\ cur'.call = c /\ cur'.left = n /\ step' = "write" /\ fil' = fil /\ Mem'[f] = Mem[f]
        /\ before'.handles[f].pos = fil[f].fptr /\ f \in DOMAIN before'.files /\ before'.files[f] = View(f)
        /\ fil[f].fptr \in Nat /\ fil[f].fsize \in Nat /\ fil[f].fptr <= fil[f].fsize
        /\ Len(View(f)) = fil[f].fsize /\ \A i \in 1 .. fil[f].fsize : View(f)[i] = Mem[f][i - 1]
    BY <1>2, StartOpen
  <2>2. Greater(fil[f].fsize, fil[f].fptr) = fil[f].fsize
    BY <2>1 DEF Greater
  <2>3. \A i \in 1 .. fil[f].fsize : i \notin fil[f].fptr + 1 .. fil[f].fptr
    BY <2>1
  <2> QED
    BY <1>2, <2>1, <2>2, <2>3 DEF Writing
<1> QED
  BY <1>2, <1>3, <1>4, <1>5, StartFiles DEF Moving

LEMMA CallReadFiles ==
  ASSUME FilesInv, FatInv', NEW f \in Names, NEW n \in ReadSizes, CallRead(f, n)
  PROVE  FilesInv'
<1>1. PICK c, l : c = [op |-> "read", f |-> f, n |-> n] /\ l = Lesser(n, fil[f].fsize - fil[f].fptr)
  OBVIOUS
<1>2. c.f = f /\ c.op = "read" /\ c.n = n /\ Start(c, l, "read") /\ fil[f].open /\ kept' = kept
  BY <1>1 DEF CallRead
<1>3. n \in Nat
  BY FatAssumption
<1>4. KeptStart(f, c, l)
  BY <1>2, KeptAll DEF Moving
<1>5. Reading(f)'
  <2>1. /\ cur'.call = c /\ cur'.left = l /\ cur'.out = << >> /\ fil' = fil /\ Mem'[f] = Mem[f]
        /\ before'.handles[f].pos = fil[f].fptr
        /\ fil[f].fptr \in Nat /\ fil[f].fsize \in Nat /\ fil[f].fptr <= fil[f].fsize
    BY <1>2, StartOpen
  <2>2. fil[f].fptr + l = Lesser(fil[f].fptr + n, fil[f].fsize)
    BY <1>1, <1>3, <2>1 DEF Lesser
  <2>3. << >> \in Seq(Values) /\ Len(<< >>) = 0
    OBVIOUS
  <2>4. Len(cur'.out) = fil[f].fptr - fil[f].fptr /\ fil[f].fptr <= fil[f].fptr
        /\ \A i \in 1 .. fil[f].fptr - fil[f].fptr : FALSE
    BY <2>1, <2>3
  <2> QED
    BY <1>2, <2>1, <2>2, <2>3, <2>4 DEF Reading
<1> QED
  BY <1>2, <1>3, <1>4, <1>5, StartFiles DEF Moving

LEMMA CallSeekFiles ==
  ASSUME FilesInv, FatInv', NEW f \in Names, NEW ofs \in Offsets[f], CallSeek(f, ofs)
  PROVE  FilesInv'
<1>1. PICK c, l : /\ c = [op |-> "seek", f |-> f, n |-> ofs]
                  /\ l = (IF fil[f].write THEN ofs ELSE Lesser(ofs, fil[f].fsize))
  OBVIOUS
<1>2. c.f = f /\ c.op = "seek" /\ c.n = ofs /\ Start(c, l, "seek") /\ fil[f].open /\ kept' = kept
  BY <1>1 DEF CallSeek
<1>3. ofs \in Nat
  BY FatAssumption
<1>4. KeptStart(f, c, l)
  BY <1>2, KeptAll DEF Moving
<1>5. Seeking(f)'
  <2>1. cur'.call = c /\ cur'.left = l /\ fil' = fil /\ step' = "seek"
    BY <1>2, StartOpen
  <2> QED
    BY <1>1, <1>2, <2>1 DEF Seeking, Goal
<1> QED
  BY <1>2, <1>3, <1>4, <1>5, StartFiles DEF Moving

LEMMA CallsFiles ==
  ASSUME FilesInv, FatInv', Calls
  PROVE  FilesInv'
<1>1. ASSUME NEW f \in Names, NEW op \in {"create", "openAlways", "openExisting"}, CallOpen(f, op) PROVE FilesInv'
  BY <1>1, CallOpenFiles
<1>2. ASSUME NEW f \in Names, NEW op \in {"sync", "close"}, CallSync(f, op) PROVE FilesInv'
  BY <1>2, CallSyncFiles
<1>3. ASSUME NEW f \in Names, CallUnlink(f) PROVE FilesInv'
  BY <1>3, CallUnlinkFiles
<1>4. ASSUME NEW f \in Names, NEW n \in Sizes[f], CallWrite(f, n) PROVE FilesInv'
  BY <1>4, CallWriteFiles
<1>5. ASSUME NEW f \in Names, NEW n \in ReadSizes, CallRead(f, n) PROVE FilesInv'
  BY <1>5, CallReadFiles
<1>6. ASSUME NEW f \in Names, NEW ofs \in Offsets[f], CallSeek(f, ofs) PROVE FilesInv'
  BY <1>6, CallSeekFiles
<1> QED
  BY <1>1, <1>2, <1>3, <1>4, <1>5, <1>6 DEF Calls

LEMMA StepsInCall ==
  ASSUME Steps
  PROVE  ~ Idle
BY DEF Idle, Steps, f_open, OpenReplaced, remove_chain, f_unlink, Follow, NewCluster, LinkCluster, WriteChunk, WriteGot,
       WriteStore, WriteFit, f_write, ReadChunk, ReadFetch, ReadPick, f_read, SeekStart, SeekFollow, SeekGot, SeekFill,
       f_lseek, SyncBuffer, SyncEntry, SyncWindow, sync_fs, Ends

LEMMA StepsFiles ==
  ASSUME FilesInv, FatInv', Steps
  PROVE  FilesInv'
<1>1. PICK f \in Names : Now(f, Line)
  <2>1. FatInv /\ ~ Idle
    BY StepsInCall DEF FilesInv
  <2> QED
    BY <2>1, LineInCall
<1>2. f_open \/ OpenReplaced \/ remove_chain \/ f_unlink => FilesInv'
  BY <1>1, OpenFiles, OpenReplacedFiles, RemoveFiles, UnlinkFiles
<1>3. Follow \/ NewCluster \/ LinkCluster => FilesInv'
  BY <1>1, FollowFiles, NewClusterFiles, LinkClusterFiles
<1>4. WriteChunk \/ WriteGot \/ WriteStore \/ WriteFit \/ f_write => FilesInv'
  BY <1>1, WriteChunkFiles, WriteGotFiles, WriteStoreFiles, WriteFitFiles, WriteFiles
<1>5. ReadChunk \/ ReadFetch \/ ReadPick \/ f_read => FilesInv'
  BY <1>1, ReadChunkFiles, ReadFetchFiles, ReadPickFiles, ReadFiles
<1>6. SeekStart \/ SeekFollow \/ SeekGot \/ SeekFill \/ f_lseek => FilesInv'
  BY <1>1, SeekStartFiles, SeekFollowFiles, SeekGotFiles, SeekFillFiles, SeekFiles
<1>7. SyncBuffer \/ SyncEntry \/ SyncWindow \/ sync_fs => FilesInv'
  BY <1>1, SyncBufferFiles, SyncEntryFiles, SyncWindowFiles, SyncFiles
<1> QED
  BY <1>2, <1>3, <1>4, <1>5, <1>6, <1>7 DEF Steps

LEMMA FilesNextKeeps ==
  ASSUME FilesInv, [FatNext]_fatVars
  PROVE  FilesInv'
<1>1. FatInv'
  BY FatNextKeeps DEF FilesInv
<1>2. UNCHANGED fatVars => FilesInv'
  BY <1>1, StutterFiles
<1>3. FatNext => FilesInv'
  BY <1>1, CallsFiles, StepsFiles, CountFiles, RestartFiles DEF FatNext
<1> QED
  BY <1>2, <1>3

(* Whatever the interleaving of sectors, buffers and power failures: what  *)
(* each file reads as, and what of it is on the disk.                      *)
THEOREM FilesInvariance == FatSpec => []FilesInv
<1>1. FatInit => FilesInv
  BY FilesInitHolds
<1>2. FilesInv /\ [FatNext]_fatVars => FilesInv'
  BY FilesNextKeeps
<1> QED
  BY <1>1, <1>2, PTL DEF FatSpec

-----------------------------------------------------------------------------
(* The volume implements FileStore.                                        *)

StoreFiles == IF Idle THEN FilesNow ELSE before.files
StoreHandles == IF Idle THEN HandlesNow ELSE before.handles
Handle(f) == [pos |-> fil[f].fptr, write |-> fil[f].write]

LEMMA NoFunction ==
  ASSUME NEW x, x = [i \in {} |-> x[i]]
  PROVE  x = << >>
<1>1. x \in [1 .. 0 -> Values]
  OBVIOUS
<1>2. x \in Seq(Values) /\ Len(x) = 0
  BY <1>1, FunctionIsSeq
<1> QED
  BY <1>2, EmptySeq

LEMMA InitStores ==
  ASSUME FatInit
  PROVE  Store!Init
<1>1. Idle /\ cur = NoLocals /\ kept = << >> /\ got = << >> /\ \A f \in Names : ~ dir[f].used /\ ~ fil[f].open
  BY DEF FatInit, Idle, NoEntry, Closed
<1>2. Used(dir) = {} /\ OpenNow = {}
  BY <1>1 DEF Used, OpenNow
<1>3. FilesNow = << >>
  <2>1. FilesNow = [f \in {} |-> FilesNow[f]]
    BY <1>2 DEF FilesNow
  <2> QED
    BY <2>1, NoFunction
<1>4. HandlesNow = << >>
  <2>1. HandlesNow = [f \in {} |-> HandlesNow[f]]
    BY <1>2 DEF HandlesNow, OpenNow
  <2> QED
    BY <2>1, NoFunction
<1>5. cur.call = [op |-> "none"]
  BY <1>1 DEF NoLocals
<1> QED
  BY <1>1, <1>3, <1>4, <1>5 DEF Store!Init, Store!NoCall

LEMMA NotNone ==
  ASSUME FilesInv, ~ Idle
  PROVE  cur.call # Store!NoCall /\ cur.call.op \in OpenOps \cup Moving \cup {"sync", "close", "unlink"}
<1>1. cur.call.op \in OpenOps \cup Moving \cup {"sync", "close", "unlink"}
  BY DEF FilesInv, ViewInv
<1>2. cur.call.op # "none"
  BY <1>1 DEF OpenOps, Moving
<1> QED
  BY <1>1, <1>2 DEF Store!NoCall

(* A step within a call, or between two, that the tasks do not see.        *)
LEMMA Unseen ==
  ASSUME cur'.call = cur.call, got' = got, kept' = kept, StoreFiles' = StoreFiles, StoreHandles' = StoreHandles
  PROVE  UNCHANGED Store!vars
BY DEF Store!vars, StoreFiles, StoreHandles

LEMMA WithinUnseen ==
  ASSUME ~ Idle, ~ Idle', cur'.call = cur.call, got' = got, kept' = kept, before' = before
  PROVE  UNCHANGED Store!vars
BY Unseen DEF StoreFiles, StoreHandles

LEMMA BetweenUnseen ==
  ASSUME Idle, Idle', cur' = cur, got' = got, kept' = kept, fat' = fat, dir' = dir, data' = data, fil' = fil
  PROVE  UNCHANGED Store!vars
<1>1. FilesNow' = FilesNow /\ HandlesNow' = HandlesNow
  BY DEF FilesNow, HandlesNow, OfHandle, OfEntry, Content, Nth, Used
<1> QED
  BY <1>1, Unseen DEF StoreFiles, StoreHandles

-----------------------------------------------------------------------------
(* Calls that start.                                                       *)

CallOps == {"create", "openAlways", "openExisting", "write", "read", "seek", "sync", "close", "unlink"}

LEMMA StartBegins ==
  ASSUME FilesInv, NEW f \in Names, NEW c, c.f = f, c.op \in CallOps, NEW l, NEW s, s # "rest", Start(c, l, s),
         c.op \in {"create", "unlink"} => kept' = Store!Without(kept, f),
         c.op = "write" /\ f \in DOMAIN kept => kept' = Store!Put(kept, f, Store!Unsafe(kept[f], fil[f].fptr, c.n)),
         c.op = "write" => fil[f].open,
         ~ (c.op \in {"create", "unlink"} \/ (c.op = "write" /\ f \in DOMAIN kept)) => kept' = kept
  PROVE  Store!Next
<1>1. /\ Idle /\ ~ Idle' /\ cur'.call = c /\ got' = << >> /\ before' = [files |-> FilesNow, handles |-> HandlesNow]
  BY DEF Start, Go, Idle, NoLocals
<1>2. cur.call = Store!NoCall
  BY <1>1 DEF FilesInv, ViewInv, NoLocals, Store!NoCall
<1>3. StoreFiles' = StoreFiles /\ StoreHandles' = StoreHandles
  BY <1>1 DEF StoreFiles, StoreHandles
<1>4. c.op = "write" => StoreHandles[f].pos = fil[f].fptr
  BY <1>1, HandlesAre DEF StoreHandles, OpenNow
<1>5. Store!Begin(c)
  BY <1>1, <1>2, <1>3, <1>4 DEF Store!Begin, StoreFiles, StoreHandles
<1>6. Store!Begin(cur'.call) /\ cur'.call.op = c.op /\ cur'.call.f = f
  BY <1>1, <1>5
<1> QED
  BY <1>6 DEF Store!Next, CallOps

LEMMA CallsBegin ==
  ASSUME FilesInv, Calls
  PROVE  Store!Next
<1>1. ASSUME NEW f \in Names, NEW op \in {"create", "openAlways", "openExisting"}, CallOpen(f, op) PROVE Store!Next
  <2>1. PICK c : c = [op |-> op, f |-> f]
    OBVIOUS
  <2>2. c.f = f /\ c.op = op /\ c.op \in CallOps /\ Start(c, 0, "open")
    BY <1>1, <2>1 DEF CallOpen, CallOps
  <2>3. c.op = "create" => kept' = Store!Without(kept, f)
    BY <1>1, <2>2 DEF CallOpen, Store!Without
  <2>4. c.op # "create" => kept' = kept
    BY <1>1, <2>2 DEF CallOpen
  <2> QED
    BY <2>2, <2>3, <2>4, StartBegins
<1>2. ASSUME NEW f \in Names, NEW op \in {"sync", "close"}, CallSync(f, op) PROVE Store!Next
  <2>1. PICK c : c = [op |-> op, f |-> f]
    OBVIOUS
  <2>2. c.f = f /\ c.op = op /\ c.op \in CallOps /\ Start(c, 0, "sync") /\ kept' = kept
    BY <1>2, <2>1 DEF CallSync, CallOps
  <2> QED
    BY <2>2, StartBegins
<1>3. ASSUME NEW f \in Names, CallUnlink(f) PROVE Store!Next
  <2>1. PICK c : c = [op |-> "unlink", f |-> f]
    OBVIOUS
  <2>2. c.f = f /\ c.op = "unlink" /\ c.op \in CallOps /\ Start(c, 0, "unlink")
    BY <1>3, <2>1 DEF CallUnlink, CallOps
  <2>3. kept' = Store!Without(kept, f)
    BY <1>3 DEF CallUnlink, Store!Without
  <2> QED
    BY <2>2, <2>3, StartBegins
<1>4. ASSUME NEW f \in Names, NEW n \in Sizes[f], CallWrite(f, n) PROVE Store!Next
  <2>1. PICK c : c = [op |-> "write", f |-> f, n |-> n, v |-> fatCalls']
    OBVIOUS
  <2>2. c.f = f /\ c.op = "write" /\ c.n = n /\ c.op \in CallOps /\ Start(c, n, "write") /\ fil[f].open
    BY <1>4, <2>1 DEF CallWrite, CallOps
  <2>3. \A g \in DOMAIN kept : kept[g] = [i \in DOMAIN kept[g] |-> kept[g][i]]
    <3>1. ASSUME NEW g \in DOMAIN kept PROVE kept[g] = [i \in DOMAIN kept[g] |-> kept[g][i]]
      <4>1. kept[g] \in Seq(Values \cup {Unknown})
        BY <3>1 DEF FilesInv, KeptType, KeptInv
      <4> QED
        BY <4>1
    <3> QED
      BY <3>1
  <2>4. ASSUME NEW g \in DOMAIN kept, g # f PROVE kept'[g] = kept[g]
    BY <1>4, <2>3, <2>4 DEF CallWrite
  <2>5. DOMAIN kept' = DOMAIN kept /\ kept' = [g \in DOMAIN kept |-> kept'[g]] /\ kept = [g \in DOMAIN kept |-> kept[g]]
    BY <1>4 DEF CallWrite, FilesInv, KeptType
  <2>6. ASSUME f \in DOMAIN kept PROVE kept' = Store!Put(kept, f, Store!Unsafe(kept[f], fil[f].fptr, n))
    <3>1. kept'[f] = Store!Unsafe(kept[f], fil[f].fptr, n)
      BY <1>4, <2>6 DEF CallWrite, Store!Unsafe, Overwrites, Unknown, Store!Lost
    <3> QED
      BY <2>4, <2>5, <2>6, <3>1 DEF Store!Put
  <2>7. f \notin DOMAIN kept => kept' = kept
    BY <2>4, <2>5
  <2> QED
    BY <2>2, <2>6, <2>7, StartBegins
<1>5. ASSUME NEW f \in Names, NEW n \in ReadSizes, CallRead(f, n) PROVE Store!Next
  <2>1. PICK c, l : c = [op |-> "read", f |-> f, n |-> n] /\ l = Lesser(n, fil[f].fsize - fil[f].fptr)
    OBVIOUS
  <2>2. c.f = f /\ c.op = "read" /\ c.op \in CallOps /\ Start(c, l, "read") /\ kept' = kept
    BY <1>5, <2>1 DEF CallRead, CallOps
  <2> QED
    BY <2>2, StartBegins
<1>6. ASSUME NEW f \in Names, NEW ofs \in Offsets[f], CallSeek(f, ofs) PROVE Store!Next
  <2>1. PICK c, l : /\ c = [op |-> "seek", f |-> f, n |-> ofs]
                    /\ l = (IF fil[f].write THEN ofs ELSE Lesser(ofs, fil[f].fsize))
    OBVIOUS
  <2>2. c.f = f /\ c.op = "seek" /\ c.op \in CallOps /\ Start(c, l, "seek") /\ kept' = kept
    BY <1>6, <2>1 DEF CallSeek, CallOps
  <2> QED
    BY <2>2, StartBegins
<1> QED
  BY <1>1, <1>2, <1>3, <1>4, <1>5, <1>6 DEF Calls

-----------------------------------------------------------------------------
(* Calls that return.                                                      *)

(* What the files and handles are when a call on f ends.                   *)
EndsWith(f) ==
  /\ cur'.call = Store!NoCall /\ cur.call # Store!NoCall /\ cur.call.f = f
  /\ StoreFiles = before.files /\ StoreHandles = before.handles
  /\ StoreFiles' = IF dir'[f].used THEN Store!Put(before.files, f, View(f)') ELSE Store!Without(before.files, f)
  /\ StoreHandles' = IF fil'[f].open THEN Store!Put(before.handles, f, Handle(f)') ELSE Store!Without(before.handles, f)
  /\ \A g \in DOMAIN before.files : g # f => before.files[g] \in Seq(Values)
  /\ before.files = [g \in DOMAIN before.files |-> before.files[g]]
  /\ before.handles = [g \in DOMAIN before.handles |-> before.handles[g]]
  /\ f \in DOMAIN before.handles <=> fil[f].open
  /\ before.handles[f] = [pos |-> before.handles[f].pos, write |-> fil[f].write] \/ ~ fil[f].open

LEMMA FilesNext ==
  FatInv' => FilesNow' = [g \in Used(dir') |-> View(g)']
<1>1. FatInv => FilesNow = [g \in Used(dir) |-> View(g)]
  BY FilesAre
<1>2. FatInv' => (FilesNow = [g \in Used(dir) |-> View(g)])'
  BY <1>1, PTL
<1> QED
  BY <1>2

LEMMA EndIs ==
  ASSUME FilesInv, FatInv', NEW f \in Names, Now(f, Line), EndCall, fat' = fat, data' = data,
         \A g \in Names : g # f => fil'[g] = fil[g] /\ dir'[g] = dir[g]
  PROVE  EndsWith(f)
<1>1. FatInv /\ cur.call.f = f /\ ~ Idle /\ Idle' /\ cur'.call = Store!NoCall
  BY DEF FilesInv, Now, EndCall, Go, Idle, NoLocals, Store!NoCall
<1>2. /\ \A g \in Names : g # f => AsBefore(g)
      /\ before.handles = [g \in OpenNow |-> before.handles[g]]
      /\ \A g \in OpenNow : HandleBefore(g)
      /\ before.files = [g \in DOMAIN before.files |-> before.files[g]] /\ DOMAIN before.files \subseteq Names
      /\ \A g \in DOMAIN before.files : before.files[g] \in Seq(Values)
  BY <1>1 DEF FilesInv, ViewInv
<1>3. ASSUME NEW g \in Names, g # f PROVE View(g)' = View(g)
  <2>1. Line'[g] = Line[g]
    BY <1>1, <1>3, OtherLines
  <2>2. Mem'[g] = Mem[g]
    BY <1>1, <1>3, <2>1, OthersSame
  <2>3. SizeOf'[g] = SizeOf[g]
    BY <1>1, <1>3, SizeIs, SizeNext
  <2> QED
    BY <2>2, <2>3 DEF View
<1>4. FilesNow' = [g \in Used(dir') |-> View(g)']
  BY FilesNext
<1>5. HandlesNow' = [g \in OpenNow' |-> Handle(g)']
  BY DEF HandlesNow, OpenNow, Handle
<1>6. StoreFiles = before.files /\ StoreHandles = before.handles /\ StoreFiles' = FilesNow' /\ StoreHandles' = HandlesNow'
  BY <1>1 DEF StoreFiles, StoreHandles
<1>7. \A g \in Names : g # f => (g \in DOMAIN before.files <=> g \in Used(dir')) /\ (g \in Used(dir') => before.files[g] = View(g)')
  BY <1>2, <1>3 DEF AsBefore, Used
<1>8. Used(dir') \subseteq Names /\ (f \in Used(dir') <=> dir'[f].used)
  BY DEF Used
<1>9. StoreFiles' = IF dir'[f].used THEN Store!Put(before.files, f, View(f)') ELSE Store!Without(before.files, f)
  <2>1. CASE dir'[f].used
    <3>1. Used(dir') = DOMAIN before.files \cup {f}
      BY <1>2, <1>7, <1>8, <2>1
    <3>2. FilesNow' = [g \in DOMAIN before.files \cup {f} |-> IF g = f THEN View(f)' ELSE before.files[g]]
      BY <1>2, <1>4, <1>7, <3>1
    <3> QED
      BY <1>6, <2>1, <3>2 DEF Store!Put
  <2>2. CASE ~ dir'[f].used
    <3>1. Used(dir') = DOMAIN before.files \ {f}
      BY <1>2, <1>7, <1>8, <2>2
    <3>2. FilesNow' = [g \in DOMAIN before.files \ {f} |-> before.files[g]]
      BY <1>2, <1>4, <1>7, <3>1
    <3> QED
      BY <1>6, <2>2, <3>2 DEF Store!Without
  <2> QED
    BY <2>1, <2>2
<1>10. DOMAIN before.handles = OpenNow /\ OpenNow \subseteq Names /\ OpenNow' \subseteq Names
       /\ (f \in OpenNow' <=> fil'[f].open) /\ (f \in OpenNow <=> fil[f].open)
  BY <1>2 DEF OpenNow
<1>11. \A g \in Names : g # f => (g \in OpenNow' <=> g \in OpenNow) /\ (g \in OpenNow => Handle(g)' = before.handles[g])
  <2>1. ASSUME NEW g \in Names, g # f PROVE (g \in OpenNow' <=> g \in OpenNow) /\ (g \in OpenNow => Handle(g)' = before.handles[g])
    <3>1. ~ Busy(g)
      BY <1>1, <2>1 DEF Busy
    <3>2. g \in OpenNow => before.handles[g] = [pos |-> fil[g].fptr, write |-> fil[g].write]
      BY <1>2, <3>1 DEF HandleBefore
    <3> QED
      BY <2>1, <3>2 DEF OpenNow, Handle
  <2> QED
    BY <2>1
<1>12. StoreHandles' = IF fil'[f].open THEN Store!Put(before.handles, f, Handle(f)') ELSE Store!Without(before.handles, f)
  <2>1. CASE fil'[f].open
    <3>1. OpenNow' = DOMAIN before.handles \cup {f}
      BY <1>10, <1>11, <2>1
    <3>2. HandlesNow' = [g \in DOMAIN before.handles \cup {f} |-> IF g = f THEN Handle(f)' ELSE before.handles[g]]
      BY <1>5, <1>10, <1>11, <3>1
    <3> QED
      BY <1>6, <2>1, <3>2 DEF Store!Put
  <2>2. CASE ~ fil'[f].open
    <3>1. OpenNow' = DOMAIN before.handles \ {f}
      BY <1>10, <1>11, <2>2
    <3>2. HandlesNow' = [g \in DOMAIN before.handles \ {f} |-> before.handles[g]]
      BY <1>5, <1>10, <1>11, <3>1
    <3> QED
      BY <1>6, <2>2, <3>2 DEF Store!Without
  <2> QED
    BY <2>1, <2>2
<1>14. before.handles[f] = [pos |-> before.handles[f].pos, write |-> fil[f].write] \/ ~ fil[f].open
  BY <1>2, <1>10 DEF HandleBefore
<1>15. before.handles = [g \in DOMAIN before.handles |-> before.handles[g]]
  BY <1>2
<1> QED
  BY <1>1, <1>2, <1>6, <1>9, <1>10, <1>12, <1>14, <1>15, NotNone DEF EndsWith

(* The position and the size of an open file change.                       *)
LEMMA MovedView ==
  ASSUME FilesInv, FatInv', NEW f \in Names, fil[f].open, fat' = fat, data' = data, dir' = dir,
         fil'[f].open, fil'[f].dirty = fil[f].dirty, fil'[f].dsect = fil[f].dsect, fil'[f].buf = fil[f].buf, fil'[f].sclust = fil[f].sclust
  PROVE  View(f)' = [i \in 1 .. fil'[f].fsize |-> Mem[f][i - 1]] /\ dir'[f].used /\ fil'[f].fsize \in Nat
<1>1. FatInv
  BY DEF FilesInv
<1>2. Lead(f)' = Lead(f)
  BY DEF Lead
<1>3. Line'[f] = Line[f]
  BY <1>1, <1>2, LinesStay
<1>4. SameUnits(f)
  BY <1>1, <1>3, StaysExtends, OwnSame
<1>5. SizeOf'[f] = fil'[f].fsize /\ SizeOf'[f] \in Nat /\ SizeOf'[f] <= Extent(f)' /\ Extent(f)' \in Nat
  BY SizeNext
<1>6. Extent(f)' = Extent(f)
  BY <1>3 DEF Extent
<1>7. \A i \in 1 .. fil'[f].fsize : Mem'[f][i - 1] = Mem[f][i - 1]
  <2>1. \A i \in 1 .. fil'[f].fsize : i - 1 \in Span(f)
    BY <1>5, <1>6 DEF Span
  <2> QED
    BY <1>4, <2>1 DEF SameUnits
<1>8. dir'[f].used
  <2>1. UnusedInv(f)
    BY <1>1, LineFacts DEF WholeFile, FileInv
  <2> QED
    BY <2>1 DEF UnusedInv
<1> QED
  BY <1>5, <1>7, <1>8 DEF View

LEMMA MovedEnds ==
  ASSUME FilesInv, FatInv', NEW f \in Names, Now(f, Line), fil[f].open, EndCall, UNCHANGED <<windowVars, data>>,
         NEW h, Becomes(f, h), h.open = TRUE, h.dirty = fil[f].dirty, h.dsect = fil[f].dsect, h.buf = fil[f].buf,
         h.sclust = fil[f].sclust, h.write = fil[f].write,
         NEW v, v = [i \in 1 .. h.fsize |-> Mem[f][i - 1]]
  PROVE  /\ EndsWith(f) /\ StoreFiles' = Store!Put(before.files, f, v) /\ h.fsize \in Nat /\ View(f)' = v
         /\ StoreHandles' = Store!Put(before.handles, f, [pos |-> h.fptr, write |-> fil[f].write])
         /\ f \in DOMAIN before.handles /\ before.handles[f] = [pos |-> before.handles[f].pos, write |-> fil[f].write]
<1>1. fat' = fat /\ dir' = dir /\ data' = data
  BY DEF windowVars
<1>2. fil'[f] = h /\ \A g \in Names : g # f => fil'[g] = fil[g]
  BY DEF Becomes
<1>3. EndsWith(f)
  BY <1>1, <1>2, EndIs
<1>4. View(f)' = v /\ dir'[f].used /\ h.fsize \in Nat
  BY <1>1, <1>2, MovedView
<1>5. Handle(f)' = [pos |-> h.fptr, write |-> fil[f].write]
  BY <1>2 DEF Handle
<1> QED
  BY <1>2, <1>3, <1>4, <1>5 DEF EndsWith

LEMMA WriteEnds ==
  ASSUME FilesInv, FatInv', NEW f \in Names, Now(f, Line), f_write
  PROVE  Store!End
<1>1. step \in {"written", "write"} /\ EndCall /\ kept' = kept /\ got' = got /\ UNCHANGED <<windowVars, data>> /\ (step = "write" => cur.left = 0)
  BY DEF f_write
<1>2. fil[f].open /\ cur.call.op = "write"
  BY <1>1, CallKind
<1>3. /\ ViewOf(f) /\ cur.call.f = f /\ File = fil[f] /\ FilType(fil[f]) /\ cur.left \in Nat /\ FatInv
      /\ fil[f].fptr \in Nat /\ fil[f].fsize \in Nat /\ before.handles[f].pos \in Nat
  BY <1>2, NowFacts
<1>4. PICK h, n : n = Greater(fil[f].fsize, fil[f].fptr) /\ h = [fil[f] EXCEPT !.fsize = n, !.written = TRUE]
  OBVIOUS
<1>5. Becomes(f, h)
  BY <1>3, <1>4, BecomesFacts DEF f_write
<1>7. /\ h.open = TRUE /\ h.dirty = fil[f].dirty /\ h.dsect = fil[f].dsect /\ h.buf = fil[f].buf /\ h.fptr = fil[f].fptr
      /\ h.sclust = fil[f].sclust /\ h.fsize = n /\ h.write = fil[f].write
  BY <1>2, <1>3, <1>4 DEF FilType, FilFields
<1>8. PICK at, p, k, v : at = before.handles[f].pos /\ p = fil[f].fptr /\ k = p - at /\ v = [i \in 1 .. n |-> Mem[f][i - 1]]
  OBVIOUS
<1>9. Writing(f) /\ cur.call.n \in Nat
  BY <1>2, <1>3 DEF ViewOf, Moving
<1>10. /\ f \in DOMAIN before.files /\ Len(before.files[f]) = fil[f].fsize /\ at <= p /\ at <= fil[f].fsize
       /\ p + cur.left = at + cur.call.n /\ (step = "written" => Full)
       /\ \A i \in 1 .. n : Mem[f][i - 1] = IF i \in at + 1 .. p THEN cur.call.v ELSE before.files[f][i]
  BY <1>4, <1>8, <1>9 DEF Writing
<1>11. k \in 0 .. cur.call.n /\ (k < cur.call.n => Full) /\ at + k = p
  <2>1. PICK m, l : m = cur.call.n /\ l = cur.left
    OBVIOUS
  <2>2. m \in Nat /\ l \in Nat /\ p \in Nat /\ at \in Nat /\ at <= p /\ p + l = at + m /\ k = p - at
    BY <1>3, <1>8, <1>9, <1>10, <2>1
  <2>3. k \in 0 .. m /\ at + k = p /\ (k < m => l # 0)
    BY <2>2
  <2>4. l # 0 => Full
    BY <1>1, <1>10, <2>1
  <2> QED
    BY <2>1, <2>3, <2>4
<1>12. /\ EndsWith(f) /\ StoreFiles' = Store!Put(before.files, f, v)
       /\ StoreHandles' = Store!Put(before.handles, f, [pos |-> p, write |-> fil[f].write])
       /\ f \in DOMAIN before.handles /\ before.handles[f] = [pos |-> at, write |-> fil[f].write]
  <2>1. v = [i \in 1 .. h.fsize |-> Mem[f][i - 1]] /\ h.fptr = p
    BY <1>7, <1>8
  <2>2. /\ EndsWith(f) /\ StoreFiles' = Store!Put(before.files, f, v)
        /\ StoreHandles' = Store!Put(before.handles, f, [pos |-> h.fptr, write |-> fil[f].write])
        /\ f \in DOMAIN before.handles /\ before.handles[f] = [pos |-> before.handles[f].pos, write |-> fil[f].write]
    BY <1>1, <1>2, <1>5, <1>7, <2>1, MovedEnds
  <2> QED
    BY <1>8, <2>1, <2>2
<1>13. v = Store!Overwritten(before.files[f], at, k, cur.call.v)
  <2>1. n = IF at + k > Len(before.files[f]) THEN at + k ELSE Len(before.files[f])
    BY <1>3, <1>4, <1>8, <1>10, <1>11 DEF Greater
  <2> QED
    BY <1>8, <1>10, <1>11, <2>1 DEF Store!Overwritten
<1>14. StoreFiles' = [StoreFiles EXCEPT ![f] = Store!Overwritten(@, StoreHandles[f].pos, k, cur.call.v)]
  <2>1. StoreFiles = before.files /\ StoreHandles = before.handles /\ before.files = [g \in DOMAIN before.files |-> before.files[g]]
    BY <1>12 DEF EndsWith
  <2>2. Store!Overwritten(StoreFiles[f], StoreHandles[f].pos, k, cur.call.v) = v
    BY <1>8, <1>13, <2>1
  <2>3. StoreFiles' = [StoreFiles EXCEPT ![f] = v]
    BY <1>10, <1>12, <2>1 DEF Store!Put
  <2> QED
    BY <2>2, <2>3
<1>15. StoreHandles' = [StoreHandles EXCEPT ![f].pos = @ + k]
  <2>1. [before.handles[f] EXCEPT !.pos = @ + k] = [pos |-> p, write |-> fil[f].write]
    BY <1>11, <1>12
  <2>2. StoreHandles = before.handles /\ before.handles = [g \in DOMAIN before.handles |-> before.handles[g]]
    BY <1>12 DEF EndsWith
  <2> QED
    BY <1>12, <2>1, <2>2 DEF Store!Put
<1>16. Store!Write(f, cur.call.n, cur.call.v)
  BY <1>1, <1>11, <1>14, <1>15 DEF Store!Write, StoreFiles, StoreHandles, Full
<1>17. Store!Return /\ cur.call # Store!NoCall /\ cur.call.f = f
  BY <1>12 DEF EndsWith, Store!Return
<1> QED
  BY <1>2, <1>16, <1>17 DEF Store!End

(* What the file of a call that does not change it was before.             *)
LEMMA SameBefore ==
  ASSUME FilesInv, NEW f \in Names, Now(f, Line), fil[f].open, AsBefore(f)
  PROVE  /\ f \in DOMAIN before.files /\ before.files[f] = View(f) /\ Len(View(f)) = fil[f].fsize /\ View(f) \in Seq(Values)
         /\ View(f) = [i \in 1 .. fil[f].fsize |-> Mem[f][i - 1]]
<1>1. FatInv /\ DataInv
  BY DEF FilesInv
<1>2. dir[f].used
  <2>1. UnusedInv(f)
    BY <1>1, LineFacts DEF WholeFile, FileInv
  <2> QED
    BY <2>1 DEF UnusedInv
<1>3. SizeOf[f] = fil[f].fsize
  BY <1>1, SizeIs
<1> QED
  BY <1>1, <1>2, <1>3, ViewSeq DEF AsBefore, View

LEMMA ViewSeqNext ==
  FatInv' /\ DataInv' => \A f \in Names : View(f)' \in Seq(Values) /\ Len(View(f)') = SizeOf'[f]
                                                                      /\ \A i \in 1 .. SizeOf'[f] : View(f)'[i] = Mem'[f][i - 1]
<1>1. FatInv /\ DataInv => \A f \in Names : View(f) \in Seq(Values) /\ Len(View(f)) = SizeOf[f]
                                                                      /\ \A i \in 1 .. SizeOf[f] : View(f)[i] = Mem[f][i - 1]
  BY ViewSeq
<1>2. FatInv' /\ DataInv' => (\A f \in Names : View(f) \in Seq(Values) /\ Len(View(f)) = SizeOf[f]
                                                                      /\ \A i \in 1 .. SizeOf[f] : View(f)[i] = Mem[f][i - 1])'
  BY <1>1, PTL
<1> QED
  BY <1>2

LEMMA SameFiles ==
  ASSUME NEW f, EndsWith(f), StoreFiles' = Store!Put(before.files, f, before.files[f]), f \in DOMAIN before.files
  PROVE  StoreFiles' = StoreFiles
BY DEF EndsWith, Store!Put

LEMMA ReadEnds ==
  ASSUME FilesInv, FatInv', NEW f \in Names, Now(f, Line), f_read
  PROVE  Store!End
<1>1. step = "read" /\ cur.left = 0 /\ got' = cur.out /\ EndCall /\ kept' = kept /\ fil' = fil /\ UNCHANGED <<windowVars, data>>
  BY DEF f_read
<1>2. fil[f].open /\ cur.call.op = "read"
  BY <1>1, CallKind
<1>3. /\ ViewOf(f) /\ cur.call.f = f /\ FilType(fil[f]) /\ FatInv
      /\ fil[f].fptr \in Nat /\ fil[f].fsize \in Nat /\ before.handles[f].pos \in Nat
  BY <1>2, NowFacts
<1>4. Reading(f) /\ AsBefore(f) /\ cur.call.n \in Nat
  BY <1>2, <1>3 DEF ViewOf, Moving
<1>5. PICK h, at, to, s, m : h = fil[f] /\ at = before.handles[f].pos /\ to = fil[f].fptr /\ s = View(f) /\ m = cur.call.n
  OBVIOUS
<1>6. /\ f \in DOMAIN before.files /\ before.files[f] = s /\ Len(s) = fil[f].fsize /\ s \in Seq(Values)
      /\ s = [i \in 1 .. fil[f].fsize |-> Mem[f][i - 1]]
  BY <1>2, <1>4, <1>5, SameBefore
<1>7. /\ at \in Nat /\ to \in Nat /\ at <= to /\ to = Lesser(at + m, fil[f].fsize) /\ m \in Nat
      /\ cur.out \in Seq(Values) /\ Len(cur.out) = to - at
      /\ \A i \in 1 .. to - at : cur.out[i] = Mem[f][at + i - 1]
  <2>1. /\ at <= to /\ to + cur.left = Lesser(at + m, fil[f].fsize)
        /\ cur.out \in Seq(Values) /\ Len(cur.out) = to - at
        /\ \A i \in 1 .. to - at : cur.out[i] = Mem[f][at + i - 1]
    BY <1>4, <1>5 DEF Reading
  <2>2. at \in Nat /\ to \in Nat /\ m \in Nat
    BY <1>3, <1>4, <1>5
  <2>3. to + cur.left = to
    BY <1>1, <2>2
  <2> QED
    BY <2>1, <2>2, <2>3
<1>8. to = Store!Least(at + m, Len(s)) /\ to <= Len(s)
  BY <1>3, <1>6, <1>7 DEF Store!Least, Lesser
<1>9. got' = SubSeq(s, at + 1, to)
  <2>0. \A i \in 1 .. to - at : at + i \in 1 .. Len(s)
    <3>1. PICK e : e = Len(s)
      OBVIOUS
    <3>2. e \in Nat /\ to <= e /\ at \in Nat /\ to \in Nat
      BY <1>3, <1>6, <1>7, <1>8, <3>1
    <3>3. \A i \in 1 .. to - at : at + i \in 1 .. e
      BY <3>2
    <3> QED
      BY <3>1, <3>3
  <2>1. PICK t : t = SubSeq(s, at + 1, to)
    OBVIOUS
  <2>2. t \in Seq(Values) /\ Len(t) = to - at /\ \A i \in 1 .. to - at : t[i] = s[at + i]
    <3>1. t = [i \in 1 .. to - at |-> s[at + i]]
      BY <1>7, <2>1 DEF SubSeq
    <3>2. ASSUME NEW i \in 1 .. to - at PROVE s[at + i] \in Values
      BY <1>6, <2>0, <3>2, ElementOfSeq
    <3>3. t \in [1 .. to - at -> Values] /\ to - at \in Nat
      BY <1>7, <3>1, <3>2
    <3> QED
      BY <3>1, <3>3, FunctionIsSeq
  <2>3. \A i \in 1 .. to - at : cur.out[i] = t[i]
    <3>1. ASSUME NEW i \in 1 .. to - at PROVE cur.out[i] = t[i]
      <4>1. at + i \in 1 .. fil[f].fsize
        BY <1>6, <2>0, <3>1
      <4>2. s[at + i] = Mem[f][(at + i) - 1]
        BY <1>6, <4>1
      <4>3. cur.out[i] = Mem[f][at + i - 1]
        BY <1>7, <3>1
      <4>4. t[i] = s[at + i]
        BY <2>2, <3>1
      <4>5. (at + i) - 1 = at + i - 1
        <5>1. at \in Nat /\ to \in Nat /\ i \in Int
          BY <1>7, <3>1
        <5>2. PICK x : x = at
          OBVIOUS
        <5>3. x \in Nat
          BY <5>1, <5>2
        <5>4. (x + i) - 1 = x + i - 1
          BY <5>1, <5>3
        <5> QED
          BY <5>2, <5>4
      <4> QED
        BY <4>2, <4>3, <4>4, <4>5
    <3> QED
      BY <3>1
  <2>4. cur.out = t
    BY <1>7, <2>2, <2>3, SeqSame
  <2> QED
    BY <1>1, <2>1, <2>4
<1>10. /\ EndsWith(f) /\ StoreFiles' = Store!Put(before.files, f, s)
       /\ StoreHandles' = Store!Put(before.handles, f, [pos |-> to, write |-> fil[f].write])
       /\ f \in DOMAIN before.handles /\ before.handles[f] = [pos |-> at, write |-> fil[f].write]
  <2>1. Becomes(f, h) /\ h.open = TRUE
    BY <1>1, <1>2, <1>3, <1>5, BecomesFacts DEF FilType
  <2>2. /\ s = [i \in 1 .. h.fsize |-> Mem[f][i - 1]] /\ h.fptr = to
        /\ h.dirty = fil[f].dirty /\ h.dsect = fil[f].dsect /\ h.buf = fil[f].buf /\ h.sclust = fil[f].sclust /\ h.write = fil[f].write
    BY <1>5, <1>6
  <2>3. /\ EndsWith(f) /\ StoreFiles' = Store!Put(before.files, f, s)
        /\ StoreHandles' = Store!Put(before.handles, f, [pos |-> h.fptr, write |-> fil[f].write])
        /\ f \in DOMAIN before.handles /\ before.handles[f] = [pos |-> before.handles[f].pos, write |-> fil[f].write]
    BY <1>1, <1>2, <2>1, <2>2, MovedEnds
  <2> QED
    BY <1>5, <2>2, <2>3
<1>11. StoreFiles' = StoreFiles
  BY <1>6, <1>10, SameFiles
<1>12. /\ StoreFiles = before.files /\ StoreHandles = before.handles /\ before.handles = [g \in DOMAIN before.handles |-> before.handles[g]]
       /\ Store!Return /\ cur.call # Store!NoCall /\ cur.call.f = f
  BY <1>10 DEF EndsWith, Store!Return
<1>13. StoreHandles' = [StoreHandles EXCEPT ![f].pos = to]
  <2>1. [before.handles[f] EXCEPT !.pos = to] = [pos |-> to, write |-> fil[f].write]
    BY <1>10
  <2> QED
    BY <1>10, <1>12, <2>1 DEF Store!Put
<1>14. StoreFiles[f] = s /\ StoreHandles[f].pos = at
  BY <1>5, <1>6, <1>12
<1>15. Store!Read(f, m)
  BY <1>1, <1>8, <1>9, <1>11, <1>13, <1>14 DEF Store!Read, StoreFiles, StoreHandles
<1> QED
  BY <1>2, <1>5, <1>12, <1>15 DEF Store!End

LEMMA SeekEnds ==
  ASSUME FilesInv, FatInv', NEW f \in Names, Now(f, Line), f_lseek
  PROVE  Store!End
<1>1. step = "fill" /\ EndCall /\ kept' = kept /\ got' = got /\ UNCHANGED <<windowVars, data>>
  BY DEF f_lseek
<1>2. fil[f].open /\ cur.call.op = "seek"
  BY <1>1, CallKind
<1>3. /\ ViewOf(f) /\ cur.call.f = f /\ File = fil[f] /\ FilType(fil[f]) /\ FatInv /\ fil[f].fptr \in Nat /\ fil[f].fsize \in Nat
      /\ before.handles[f].pos \in Nat
  BY <1>2, NowFacts
<1>4. Seeking(f) /\ AsBefore(f) /\ cur.call.n \in Nat
  BY <1>2, <1>3 DEF ViewOf, Moving
<1>5. PICK h, n, w : /\ n = Greater(fil[f].fsize, fil[f].fptr) /\ w = (fil[f].written \/ fil[f].fptr > fil[f].fsize)
                     /\ h = [fil[f] EXCEPT !.fsize = n, !.written = w]
  OBVIOUS
<1>6. Becomes(f, h)
  BY <1>3, <1>5, BecomesFacts DEF f_lseek
<1>7. /\ h.open = TRUE /\ h.dirty = fil[f].dirty /\ h.dsect = fil[f].dsect /\ h.buf = fil[f].buf /\ h.fptr = fil[f].fptr
      /\ h.sclust = fil[f].sclust /\ h.fsize = n /\ h.write = fil[f].write
  BY <1>2, <1>3, <1>5 DEF FilType, FilFields
<1>8. PICK at, pos, s, v, to, end :
        /\ at = before.handles[f].pos /\ pos = fil[f].fptr /\ s = View(f) /\ v = [i \in 1 .. n |-> Mem[f][i - 1]]
        /\ to = Goal(f) /\ end = fil[f].fsize
  OBVIOUS
<1>9. /\ f \in DOMAIN before.files /\ before.files[f] = s /\ Len(s) = end /\ s \in Seq(Values)
      /\ s = [i \in 1 .. end |-> Mem[f][i - 1]]
  BY <1>2, <1>4, <1>8, SameBefore
<1>10. pos = to \/ (Full /\ pos >= end /\ pos <= to)
  BY <1>1, <1>4, <1>8 DEF Seeking
<1>11. pos \in Nat /\ end \in Nat /\ to \in Nat /\ to = IF fil[f].write THEN cur.call.n ELSE Store!Least(cur.call.n, end)
  BY <1>3, <1>4, <1>8 DEF Goal, Lesser, Store!Least
<1>12. pos \in 0 .. to /\ (pos < to => Full /\ pos >= end)
  BY <1>10, <1>11
<1>13. /\ EndsWith(f) /\ StoreFiles' = Store!Put(before.files, f, v) /\ View(f)' = v
       /\ StoreHandles' = Store!Put(before.handles, f, [pos |-> pos, write |-> fil[f].write])
       /\ f \in DOMAIN before.handles /\ before.handles[f] = [pos |-> at, write |-> fil[f].write]
  <2>1. v = [i \in 1 .. h.fsize |-> Mem[f][i - 1]] /\ h.fptr = pos
    BY <1>7, <1>8
  <2>2. /\ EndsWith(f) /\ StoreFiles' = Store!Put(before.files, f, v) /\ View(f)' = v
        /\ StoreHandles' = Store!Put(before.handles, f, [pos |-> h.fptr, write |-> fil[f].write])
        /\ f \in DOMAIN before.handles /\ before.handles[f] = [pos |-> before.handles[f].pos, write |-> fil[f].write]
    BY <1>1, <1>2, <1>6, <1>7, <2>1, MovedEnds
  <2> QED
    BY <1>8, <2>1, <2>2
<1>14. /\ StoreFiles = before.files /\ StoreHandles = before.handles /\ before.handles = [g \in DOMAIN before.handles |-> before.handles[g]]
       /\ \A g \in DOMAIN before.files : g # f => before.files[g] \in Seq(Values)
       /\ Store!Return /\ cur.call # Store!NoCall /\ cur.call.f = f
  BY <1>13 DEF EndsWith, Store!Return
<1>15. v \in Seq(Values) /\ Len(v) = n
  <2>1. DataInv'
    BY SeekFiles DEF FilesInv
  <2>2. View(f)' \in Seq(Values)
    BY <2>1, ViewSeqNext
  <2>3. n \in Nat
    BY <1>3, <1>5 DEF Greater
  <2>4. DOMAIN v = 1 .. n
    BY <1>8
  <2> QED
    BY <1>13, <2>2, <2>3, <2>4, LenProperties
<1>16. n = IF pos > end THEN pos ELSE end
  BY <1>5, <1>8, <1>11 DEF Greater
<1>17. SubSeq(v, 1, end) = s
  <2>1. SubSeq(v, 1, end) = [i \in 1 .. end |-> v[i]]
    BY <1>11, <1>15 DEF SubSeq
  <2>2. \A i \in 1 .. end : v[i] = s[i]
    BY <1>8, <1>9, <1>11, <1>16
  <2> QED
    BY <1>9, <2>1, <2>2
<1>18. /\ StoreFiles' \in [DOMAIN StoreFiles -> Seq(Values)] /\ StoreFiles'[f] = v
       /\ \A g \in DOMAIN StoreFiles \ {f} : StoreFiles'[g] = StoreFiles[g]
  BY <1>9, <1>13, <1>14, <1>15 DEF Store!Put
<1>19. StoreHandles' = [StoreHandles EXCEPT ![f].pos = pos]
  <2>1. [before.handles[f] EXCEPT !.pos = pos] = [pos |-> pos, write |-> fil[f].write]
    BY <1>13
  <2> QED
    BY <1>13, <1>14, <2>1 DEF Store!Put
<1>20. StoreFiles[f] = s /\ StoreHandles[f].write = fil[f].write
  BY <1>9, <1>13, <1>14
<1>21. Store!Seek(f, cur.call.n)
  BY <1>1, <1>9, <1>11, <1>12, <1>15, <1>16, <1>17, <1>18, <1>19, <1>20 DEF Store!Seek, StoreFiles, StoreHandles, Full, Values
<1> QED
  BY <1>2, <1>14, <1>21 DEF Store!End

(* An f_open() that returns a file.                                        *)
LEMMA OpenedEnds ==
  ASSUME FilesInv, FatInv', NEW f \in Names, Now(f, Line), cur.call.op \in OpenOps, ~ fil[f].open, fat' = fat, data' = data,
         NEW e, NEW wn, Opened(e, wn), \A g \in Names : g # f => dir'[g] = dir[g], dir'[f].used,
         \/ View(f)' = << >> /\ (cur.call.op = "create" \/ (cur.call.op = "openAlways" /\ f \notin DOMAIN before.files))
         \/ f \in DOMAIN before.files /\ View(f)' = before.files[f] /\ cur.call.op # "create"
  PROVE  Store!End
<1>0. PICK op : op = cur.call.op
  OBVIOUS
<1>1. PICK wr, sc, size : wr = (op # "openExisting") /\ sc = e.first /\ size = e.size
  OBVIOUS
<1>2. PICK h : h = [Closed EXCEPT !.open = TRUE, !.write = wr, !.written = wn, !.sclust = sc, !.fsize = size]
  OBVIOUS
<1>3. FatInv /\ cur.call.f = f
  BY DEF FilesInv, Now
<1>4. Becomes(f, h) /\ EndCall /\ kept' = kept /\ got' = got
  BY <1>0, <1>1, <1>2, <1>3, BecomesFacts DEF Opened
<1>5. h.open = TRUE /\ h.fptr = 0 /\ h.write = (op # "openExisting")
  BY <1>1, <1>2 DEF Closed
<1>6. fil'[f] = h /\ \A g \in Names : g # f => fil'[g] = fil[g]
  BY <1>4 DEF Becomes
<1>7. EndsWith(f)
  BY <1>4, <1>6, EndIs
<1>8. Handle(f)' = [pos |-> 0, write |-> op # "openExisting"]
  BY <1>5, <1>6 DEF Handle
<1>9. /\ StoreFiles = before.files /\ StoreHandles = before.handles
      /\ StoreFiles' = Store!Put(before.files, f, View(f)')
      /\ StoreHandles' = Store!Put(before.handles, f, [pos |-> 0, write |-> op # "openExisting"])
      /\ Store!Return /\ cur.call # Store!NoCall
  BY <1>5, <1>6, <1>7, <1>8 DEF EndsWith, Store!Return
<1>10. f \in DOMAIN StoreFiles'
  BY <1>9 DEF Store!Put
<1>11. StoreFiles' = CASE op = "create" -> Store!Put(StoreFiles, f, << >>)
                       [] op = "openAlways" /\ f \notin DOMAIN StoreFiles -> Store!Put(StoreFiles, f, << >>)
                       [] OTHER -> StoreFiles
  <2>1. CASE View(f)' = << >> /\ (op = "create" \/ (op = "openAlways" /\ f \notin DOMAIN before.files))
    BY <1>9, <2>1
  <2>2. CASE f \in DOMAIN before.files /\ View(f)' = before.files[f] /\ op # "create"
    <3>1. StoreFiles' = StoreFiles
      BY <1>7, <1>9, <2>2, SameFiles
    <3> QED
      BY <1>9, <2>2, <3>1
  <2> QED
    BY <1>0, <2>1, <2>2
<1>12. Store!Open(f)
  BY <1>0, <1>4, <1>9, <1>10, <1>11 DEF Store!Open, StoreFiles, StoreHandles
<1> QED
  BY <1>3, <1>9, <1>12 DEF Store!End, OpenOps

LEMMA NewView ==
  ASSUME FilesInv, FilesInv', NEW f \in Names, fil'[f].open, fil'[f].fsize = 0
  PROVE  View(f)' = << >>
<1>1. SizeOf'[f] = 0
  BY SizeNext DEF FilesInv
<1>2. View(f)' \in Seq(Values) /\ Len(View(f)') = 0
  BY <1>1, ViewSeqNext DEF FilesInv
<1> QED
  BY <1>2, EmptySeq

LEMMA NewOpen ==
  ASSUME FilesInv, NEW f \in Names, cur.call.f = f, NEW e, NEW wn, Opened(e, wn)
  PROVE  fil'[f].open /\ fil'[f].sclust = e.first /\ fil'[f].fsize = e.size /\ fil'[f].dirty = FALSE
<1>1. PICK wr, sc, size : wr = (cur.call.op # "openExisting") /\ sc = e.first /\ size = e.size
  OBVIOUS
<1>2. PICK h : h = [Closed EXCEPT !.open = TRUE, !.write = wr, !.written = wn, !.sclust = sc, !.fsize = size]
  OBVIOUS
<1>3. Becomes(f, h)
  BY <1>1, <1>2, BecomesFacts DEF Opened, FilesInv
<1>4. h.open = TRUE /\ h.dirty = FALSE /\ h.sclust = sc /\ h.fsize = size
  BY <1>2 DEF Closed
<1> QED
  BY <1>1, <1>3, <1>4 DEF Becomes

LEMMA OpenEnds ==
  ASSUME FilesInv, FilesInv', NEW f \in Names, Now(f, Line), f_open
  PROVE  Store!End \/ UNCHANGED Store!vars
<1>1. step = "open" /\ step \in Looking /\ data' = data
  BY DEF f_open, Looking
<1>2. /\ FatInv /\ cur.call.f = f /\ ~ Idle /\ ~ fil[f].open /\ ~ fil[f].dirty /\ dir[f].first = Lead(f)
      /\ dir[f] \in DirEntries /\ cur.call.op \in OpenOps /\ FilType(fil[f])
  BY <1>1, LookedUp
<1>3. FatInv' /\ TypesW
  BY <1>2 DEF FilesInv, FatInv, WInv
<1>4. AsBefore(f)
  BY <1>1, <1>2 DEF FilesInv, ViewInv, ViewOf
<1>5. ASSUME PutEntry(f, Entry(0, 0)) PROVE \A g \in Names : g # f => dir'[g] = dir[g]
  BY <1>3, <1>5 DEF PutEntry, TypesW
<1>6. CASE ~ dir[f].used /\ cur.call.op = "openExisting"
  <2>1. ReadOver({DirSector}, DirSector) /\ EndCall /\ UNCHANGED <<fil, got, kept>>
    BY <1>2, <1>6 DEF f_open
  <2>2. fat' = fat /\ dir' = dir
    BY <2>1 DEF ReadOver
  <2>3. EndsWith(f) /\ ~ dir'[f].used /\ ~ fil'[f].open
    BY <1>1, <1>2, <1>3, <1>6, <2>1, <2>2, EndIs
  <2>4. f \notin DOMAIN before.files
    BY <1>4, <1>6 DEF AsBefore
  <2>5. /\ StoreFiles = before.files /\ StoreHandles = before.handles /\ StoreFiles' = before.files /\ StoreHandles' = before.handles
        /\ Store!Return /\ cur.call # Store!NoCall
    BY <1>2, <2>3, <2>4 DEF EndsWith, Store!Return, Store!Without
  <2>6. Store!Open(f)
    BY <1>6, <2>1, <2>4, <2>5 DEF Store!Open, StoreFiles, StoreHandles
  <2> QED
    BY <1>2, <2>5, <2>6 DEF Store!End, OpenOps
<1>7. ASSUME cur.call.op # "openExisting", PutEntry(f, Entry(0, 0)), Opened(Entry(0, 0), TRUE),
             cur.call.op = "create" \/ ~ dir[f].used
      PROVE  Store!End
  <2>1. fat' = fat /\ dir'[f].used
    BY <1>3, <1>7 DEF PutEntry, Entry, TypesW
  <2>2. fil'[f].open /\ fil'[f].fsize = 0
    BY <1>2, <1>7, NewOpen DEF Entry
  <2>3. View(f)' = << >>
    BY <2>2, NewView
  <2>4. cur.call.op = "create" \/ (cur.call.op = "openAlways" /\ f \notin DOMAIN before.files)
    BY <1>2, <1>4, <1>7 DEF OpenOps, AsBefore
  <2> QED
    BY <1>1, <1>2, <1>3, <1>5, <1>7, <2>1, <2>3, <2>4, OpenedEnds
<1>8. CASE ~ dir[f].used /\ cur.call.op # "openExisting"
  <2>1. PutEntry(f, Entry(0, 0)) /\ Opened(Entry(0, 0), TRUE)
    BY <1>2, <1>8 DEF f_open
  <2> QED
    BY <1>7, <1>8, <2>1
<1>9. CASE dir[f].used /\ cur.call.op # "create"
  <2>1. ReadOver({DirSector}, DirSector) /\ Opened(dir[f], FALSE)
    BY <1>2, <1>9 DEF f_open
  <2>2. fat' = fat /\ dir' = dir
    BY <2>1 DEF ReadOver
  <2>3. fil'[f].open /\ fil'[f].sclust = dir[f].first /\ fil'[f].fsize = dir[f].size /\ fil'[f].dirty = FALSE
    BY <1>2, <2>1, NewOpen
  <2>4. Lead(f)' = Lead(f)
    BY <1>2, <2>3 DEF Lead
  <2>5. Line'[f] = Line[f]
    BY <1>2, <1>3, <2>2, <2>4, LinesStay
  <2>6. SameUnits(f)
    <3>1. Extends(f)
      BY <1>2, <2>5, StaysExtends
    <3>2. fil[f].dirty = FALSE
      BY <1>2 DEF FilType
    <3> QED
      BY <1>1, <1>2, <1>3, <2>3, <3>1, <3>2, OwnSame
  <2>7. SizeOf'[f] = SizeOf[f]
    BY <1>2, <1>3, <2>3, SizeIs, SizeNext
  <2>8. View(f)' = before.files[f] /\ f \in DOMAIN before.files
    BY <1>2, <1>4, <1>9, <2>6, <2>7, ViewSame DEF AsBefore
  <2> QED
    BY <1>1, <1>2, <1>3, <1>9, <2>1, <2>2, <2>8, OpenedEnds
<1>10. CASE dir[f].used /\ cur.call.op = "create" /\ dir[f].first = 0
  <2>1. PutEntry(f, Entry(0, 0)) /\ Opened(Entry(0, 0), TRUE)
    BY <1>2, <1>10 DEF f_open
  <2> QED
    BY <1>7, <1>10, <2>1
<1>11. CASE dir[f].used /\ cur.call.op = "create" /\ dir[f].first # 0
  <2>1. cur' = [cur EXCEPT !.clust = dir[f].first, !.new = dir[f].first] /\ Go("replace") /\ UNCHANGED historyVars
    BY <1>2, <1>11 DEF f_open
  <2>2. cur'.call = cur.call /\ ~ Idle' /\ got' = got /\ kept' = kept /\ before' = before
    <3>1. CurType(cur)
      BY DEF Now
    <3> QED
      BY <2>1, <3>1 DEF Go, Idle, historyVars, CurType
  <2> QED
    BY <1>2, <2>2, WithinUnseen
<1> QED
  BY <1>6, <1>8, <1>9, <1>10, <1>11

LEMMA ReplacedEnds ==
  ASSUME FilesInv, FilesInv', NEW f \in Names, Now(f, Line), OpenReplaced
  PROVE  Store!End
<1>1. step = "opened" /\ step \in Looking /\ data' = data /\ ReadOver({DirSector}, DirSector)
  BY DEF OpenReplaced, Looking
<1>2. /\ FatInv /\ cur.call.f = f /\ ~ Idle /\ ~ fil[f].open /\ File = fil[f]
  BY <1>1, LookedUp DEF Now
<1>3. FatInv' /\ dir[f] = Entry(0, 0) /\ cur.call.op = "create" /\ cur.call.op \in OpenOps
  BY <1>1, <1>2 DEF FilesInv, ViewInv, ViewOf, FatInv, CallInv, OpenOps
<1>4. fat' = fat /\ dir' = dir /\ Opened(dir[f], TRUE)
  BY <1>1, <1>2 DEF ReadOver, OpenReplaced
<1>5. fil'[f].open /\ fil'[f].fsize = 0 /\ dir[f].used
  <2>1. PICK e, wn : e = dir[f] /\ wn = TRUE
    OBVIOUS
  <2>2. fil'[f].open /\ fil'[f].fsize = e.size
    BY <1>2, <1>4, <2>1, NewOpen
  <2> QED
    BY <1>3, <2>1, <2>2 DEF Entry
<1>6. View(f)' = << >>
  BY <1>5, NewView
<1> QED
  BY <1>1, <1>2, <1>3, <1>4, <1>5, <1>6, OpenedEnds

LEMMA SyncEnds ==
  ASSUME FilesInv, FatInv', NEW f \in Names, Now(f, Line), sync_fs
  PROVE  Store!End
<1>1. fat' = fat /\ dir' = dir /\ data' = data /\ EndCall /\ got' = got
  BY SyncDisk DEF sync_fs
<1>2. Ends /\ step \in Ending /\ step # "flush"
  BY DEF sync_fs, Ends, Ending
<1>3. /\ FatInv /\ cur.call.f = f /\ File = fil[f] /\ FilType(fil[f]) /\ ~ Idle /\ Busy(f)
      /\ cur.call.op \in {"sync", "close", "unlink"}
      /\ cur.call.op # "unlink" => fil[f].open /\ dir[f].used /\ AsBefore(f)
      /\ cur.call.op = "unlink" => ~ fil[f].open /\ ~ dir[f].used
  BY <1>2, EndingIs
<1>4. CASE cur.call.op = "unlink"
  <2>1. fil' = fil /\ kept' = kept
    BY <1>4 DEF sync_fs
  <2>2. EndsWith(f)
    BY <1>1, <2>1, EndIs
  <2>3. /\ StoreFiles = before.files /\ StoreHandles = before.handles /\ StoreFiles' = Store!Without(before.files, f)
        /\ StoreHandles' = before.handles /\ Store!Return /\ cur.call # Store!NoCall
    BY <1>1, <1>3, <1>4, <2>1, <2>2 DEF EndsWith, Store!Return, Store!Without
  <2>4. Store!Unlink(f)
    BY <1>1, <2>1, <2>3 DEF Store!Unlink, StoreFiles, StoreHandles
  <2> QED
    BY <1>3, <1>4, <2>3, <2>4 DEF Store!End
<1>5. CASE cur.call.op # "unlink"
  <2>1. /\ fil'[f] \in {fil[f], Closed} /\ \A g \in Names : g # f => fil'[g] = fil[g]
        /\ cur.call.op = "close" => fil'[f] = Closed
        /\ cur.call.op = "sync" => fil'[f] = fil[f]
        /\ SameUnits(f) /\ SizeOf'[f] = SizeOf[f] /\ fil[f].open /\ dir[f].used
    BY <1>5, SyncedIs
  <2>2. EndsWith(f)
    BY <1>1, <2>1, EndIs
  <2>3. View(f)' = before.files[f] /\ f \in DOMAIN before.files /\ before.files[f] = View(f)
    BY <1>3, <1>5, <2>1, ViewSame DEF AsBefore
  <2>4. StoreFiles' = StoreFiles
    <3>1. StoreFiles' = Store!Put(before.files, f, before.files[f])
      BY <1>1, <2>1, <2>2, <2>3 DEF EndsWith
    <3> QED
      BY <2>2, <2>3, <3>1, SameFiles
  <2>5. kept' = Store!Put(kept, f, StoreFiles[f])
    <3>1. kept' = [g \in DOMAIN kept \cup {f} |-> IF g = f THEN OfHandle(fil[f]) ELSE kept[g]]
      BY <1>3, <1>5 DEF sync_fs
    <3>2. OfHandle(fil[f]) = StoreFiles[f]
      BY <1>3, <2>1, <2>2, <2>3, HandleView DEF EndsWith
    <3> QED
      BY <3>1, <3>2 DEF Store!Put
  <2>6. Store!Sync(f) /\ Store!Return /\ cur.call # Store!NoCall /\ StoreHandles = before.handles
    BY <1>1, <2>2, <2>4, <2>5 DEF Store!Sync, StoreFiles, EndsWith, Store!Return
  <2>7. CASE cur.call.op = "close"
    <3>1. ~ fil'[f].open
      BY <2>1, <2>7 DEF Closed
    <3>2. StoreHandles' = Store!Without(StoreHandles, f)
      BY <2>2, <3>1 DEF EndsWith
    <3> QED
      BY <1>3, <2>6, <2>7, <3>2 DEF Store!End, StoreHandles
  <2>8. CASE cur.call.op = "sync"
    <3>1. HandleBefore(f) /\ before.handles = [g \in DOMAIN before.handles |-> before.handles[g]] /\ f \in DOMAIN before.handles
      BY <1>3, <2>1, <2>2 DEF FilesInv, ViewInv, OpenNow, EndsWith
    <3>2. before.handles[f] = [pos |-> fil[f].fptr, write |-> fil[f].write]
      BY <2>8, <3>1 DEF HandleBefore, Moving
    <3>3. Handle(f)' = before.handles[f]
      BY <2>1, <2>8, <3>2 DEF Handle
    <3>4. StoreHandles' = Store!Put(before.handles, f, before.handles[f])
      BY <2>1, <2>2, <2>8, <3>3 DEF EndsWith
    <3>5. StoreHandles' = StoreHandles
      BY <2>6, <3>1, <3>4 DEF Store!Put
    <3> QED
      BY <1>3, <2>6, <2>8, <3>5 DEF Store!End, StoreHandles
  <2> QED
    BY <1>3, <1>5, <2>7, <2>8
<1> QED
  BY <1>4, <1>5

(* What was kept is there after a power failure.                           *)
LEMMA RestartMoves ==
  ASSUME FilesInv, FilesInv', Restart
  PROVE  Store!Restart
<1>1. /\ cur' = NoLocals /\ got' = << >> /\ kept' = kept /\ Idle' /\ fil' = [f \in Names |-> Closed]
  BY DEF Restart, Idle
<1>2. cur'.call = Store!NoCall
  BY <1>1 DEF NoLocals, Store!NoCall
<1>3. StoreHandles' = << >>
  <2>1. HandlesNow' = [f \in {} |-> HandlesNow'[f]]
    BY <1>1 DEF HandlesNow, Closed
  <2>2. HandlesNow' = << >>
    BY <2>1, NoFunction
  <2> QED
    BY <1>1, <2>2 DEF StoreHandles
<1>4. StoreFiles' = [f \in Used(dir') |-> View(f)']
  BY <1>1, FilesNext DEF StoreFiles, FilesInv
<1>5. KeptType /\ KeptType'
  BY DEF FilesInv
<1>6. ASSUME NEW f \in DOMAIN kept PROVE f \in DOMAIN StoreFiles' /\ Store!Safe(StoreFiles'[f], kept[f])
  <2>1. f \in Names /\ KeptInv(f)'
    BY <1>5, <1>6 DEF KeptType, FilesInv
  <2>2. PICK k, s : k = kept[f] /\ s = View(f)'
    OBVIOUS
  <2>3. /\ dir'[f].used /\ k \in Seq(Values \cup {Unknown}) /\ Len(k) <= SizeOf'[f]
        /\ \A i \in 1 .. Len(k) : k[i] # Unknown => k[i] = Mem'[f][i - 1]
    BY <1>1, <1>6, <2>1, <2>2 DEF KeptInv, KeptUnits
  <2>4. f \in DOMAIN StoreFiles' /\ StoreFiles'[f] = s
    BY <1>4, <2>1, <2>2, <2>3 DEF Used
  <2>5. s \in Seq(Values) /\ Len(s) = SizeOf'[f] /\ \A i \in 1 .. SizeOf'[f] : s[i] = Mem'[f][i - 1]
    BY <2>1, <2>2, ViewSeqNext DEF FilesInv
  <2>6. DOMAIN k = 1 .. Len(k) /\ Len(k) \in Nat /\ Len(s) \in Nat
    BY <2>3, <2>5, LenProperties
  <2>7. \A i \in 1 .. Len(k) : i \in 1 .. SizeOf'[f]
    BY <2>3, <2>5, <2>6
  <2>8. Store!Safe(s, k)
    BY <2>3, <2>5, <2>6, <2>7 DEF Store!Safe, Store!Lost, Unknown
  <2> QED
    BY <2>2, <2>4, <2>8
<1> QED
  BY <1>1, <1>2, <1>3, <1>6 DEF Store!Restart, StoreFiles, StoreHandles

(* The steps between the start and the return of a call.                   *)
Returns == f_open \/ OpenReplaced \/ f_write \/ f_read \/ f_lseek \/ sync_fs

LEMMA StepsUnseen ==
  ASSUME FilesInv, NEW f \in Names, Now(f, Line), Steps
  PROVE  Returns \/ UNCHANGED Store!vars
<1>1. ~ Idle /\ CurType(cur)
  BY DEF Now
<1>2. ASSUME cur'.call = cur.call, ~ Idle', UNCHANGED historyVars PROVE UNCHANGED Store!vars
  BY <1>1, <1>2, WithinUnseen DEF historyVars
<1>3. remove_chain \/ f_unlink \/ Follow \/ NewCluster \/ LinkCluster => UNCHANGED Store!vars
  <2>1. remove_chain \/ f_unlink => cur'.call = cur.call /\ ~ Idle' /\ UNCHANGED historyVars
    BY <1>1 DEF remove_chain, RemoveCluster, f_unlink, CurType, Go, Idle
  <2>2. Follow \/ NewCluster \/ LinkCluster => cur'.call = cur.call /\ ~ Idle' /\ UNCHANGED historyVars
    BY <1>1 DEF Follow, NewCluster, LinkCluster, CurType, Go, Idle
  <2> QED
    BY <1>2, <2>1, <2>2
<1>4. WriteChunk \/ WriteGot \/ WriteStore \/ WriteFit => UNCHANGED Store!vars
  <2>1. WriteChunk \/ WriteGot \/ WriteStore \/ WriteFit => cur'.call = cur.call /\ ~ Idle' /\ UNCHANGED historyVars
    BY <1>1 DEF WriteChunk, WriteGot, WriteStore, WriteFit, CurType, Go, Idle, callVars
  <2> QED
    BY <1>2, <2>1
<1>5. ReadChunk \/ ReadFetch \/ ReadPick => UNCHANGED Store!vars
  <2>1. ReadChunk \/ ReadFetch \/ ReadPick => cur'.call = cur.call /\ ~ Idle' /\ UNCHANGED historyVars
    BY <1>1 DEF ReadChunk, ReadFetch, ReadPick, CurType, Go, Idle, callVars
  <2> QED
    BY <1>2, <2>1
<1>6. SeekStart \/ SeekFollow \/ SeekGot \/ SeekFill => UNCHANGED Store!vars
  <2>1. SeekStart \/ SeekFollow \/ SeekGot \/ SeekFill => cur'.call = cur.call /\ ~ Idle' /\ UNCHANGED historyVars
    BY <1>1 DEF SeekStart, SeekFollow, SeekGot, SeekFill, Advance, CurType, Go, Idle, callVars
  <2> QED
    BY <1>2, <2>1
<1>7. SyncBuffer \/ SyncEntry \/ SyncWindow => UNCHANGED Store!vars
  <2>1. SyncBuffer \/ SyncEntry \/ SyncWindow => cur'.call = cur.call /\ ~ Idle' /\ UNCHANGED historyVars
    BY <1>1 DEF SyncBuffer, SyncEntry, SyncWindow, CurType, Go, Idle, callVars
  <2> QED
    BY <1>2, <2>1
<1> QED
  BY <1>3, <1>4, <1>5, <1>6, <1>7 DEF Steps, Returns

LEMMA StepsMove ==
  ASSUME FilesInv, FilesInv', Steps
  PROVE  [Store!Next]_(Store!vars)
<1>1. PICK f \in Names : Now(f, Line)
  <2>1. FatInv /\ ~ Idle
    BY StepsInCall DEF FilesInv
  <2> QED
    BY <2>1, LineInCall
<1>2. FatInv'
  BY DEF FilesInv
<1>3. Returns => Store!End \/ UNCHANGED Store!vars
  BY <1>1, <1>2, OpenEnds, ReplacedEnds, WriteEnds, ReadEnds, SeekEnds, SyncEnds DEF Returns
<1>4. Returns \/ UNCHANGED Store!vars
  BY <1>1, StepsUnseen
<1> QED
  BY <1>3, <1>4 DEF Store!Next

LEMMA SameStore ==
  ASSUME UNCHANGED fatVars
  PROVE  UNCHANGED Store!vars
<1>1. /\ cur' = cur /\ got' = got /\ kept' = kept /\ fat' = fat /\ dir' = dir /\ data' = data /\ fil' = fil
      /\ step' = step /\ before' = before
  BY DEF fatVars, windowVars, callVars, historyVars
<1>2. Idle' <=> Idle
  BY <1>1 DEF Idle
<1> QED
  BY <1>1, <1>2, WithinUnseen, BetweenUnseen

LEMMA CountUnseen ==
  ASSUME f_getfree
  PROVE  UNCHANGED Store!vars
<1>1. /\ cur' = cur /\ got' = got /\ kept' = kept /\ fat' = fat /\ dir' = dir /\ data' = data /\ fil' = fil /\ Idle /\ Idle'
  BY DEF f_getfree, ReadOver, callVars, historyVars, Idle
<1> QED
  BY <1>1, BetweenUnseen

LEMMA VolumeMoves ==
  ASSUME FilesInv, [FatNext]_fatVars
  PROVE  [Store!Next]_(Store!vars)
<1>1. FilesInv'
  BY FilesNextKeeps
<1>2. CASE UNCHANGED fatVars
  BY <1>2, SameStore
<1>3. CASE Calls
  BY <1>3, CallsBegin
<1>4. CASE Steps
  BY <1>1, <1>4, StepsMove
<1>5. CASE f_getfree
  BY <1>5, CountUnseen
<1>6. CASE Restart
  BY <1>1, <1>6, RestartMoves DEF Store!Next
<1> QED
  BY <1>2, <1>3, <1>4, <1>5, <1>6 DEF FatNext

(* Whatever the sectors, buffers and chains a call goes through, and       *)
(* whenever the power fails: FatFs keeps the promises of FileStore.        *)
THEOREM VolumeImplementsFiles == FatSpec => ImplementsFiles
<1>1. FatInit => Store!Init
  BY InitStores
<1>2. FilesInv /\ [FatNext]_fatVars => [Store!Next]_(Store!vars)
  BY VolumeMoves
<1>3. FatSpec => []FilesInv
  BY FilesInvariance
<1> QED
  BY <1>1, <1>2, <1>3, PTL DEF FatSpec, ImplementsFiles, Store!Spec
=============================================================================
