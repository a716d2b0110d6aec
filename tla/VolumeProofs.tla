----------------------------- MODULE VolumeProofs -----------------------------
(***************************************************************************)
(* The volume, for any files, sizes of sectors and clusters, writes,       *)
(* offsets and power failures: that FatInv of StorageProofs is invariant,  *)
(* what that shows of its tables, and the invariant of its data, which     *)
(* module FileStoreProofs needs.                                           *)
(*                                                                         *)
(* FatInv says which clusters are in the chain of each file.  FilesInv     *)
(* says which units these hold: Raw as they are stored, Mem as they are    *)
(* read, through the buffer of the file.  A buffer agrees with the sector  *)
(* it holds; what was synchronised and not written over is in both; a file *)
(* that was not written since is on the disk as a whole; and what the call *)
(* in progress has done so far is what its promise says of the files there *)
(* were when it started.                                                   *)
(***************************************************************************)
EXTENDS StorageProofs

-----------------------------------------------------------------------------
(* f_sync(), f_close() and the end of f_unlink().                          *)
LEMMA SyncBufferKeeps ==
  ASSUME FatInv, NEW f \in Names, NEW ch \in Families, Now(f, ch), SyncBuffer
  PROVE  FatInv'
<1> DEFINE s == ch[f]
<1>1. /\ step = "sync" /\ step' = "sync" /\ cur' = cur /\ WriteBack /\ UNCHANGED <<windowVars, fsiVars, historyVars>>
      /\ restarts' = restarts /\ fatCalls' = fatCalls
  BY QuietVars DEF SyncBuffer, callVars
<1>2. /\ cur.call.f = f /\ File = fil[f] /\ FilType(fil[f]) /\ CurType(cur) /\ ~ Idle /\ FileInv(f, s)
  BY DEF Now
<1>3. fil[f].open /\ cur.call.op \in {"sync", "close"}
  BY <1>1, <1>2 DEF FatInv, CallInv
<1>4. SetFile([fil[f] EXCEPT !.dirty = FALSE])
  BY <1>1, <1>2 DEF WriteBack
<1>5. PICK h : h = [fil[f] EXCEPT !.dirty = FALSE]
  OBVIOUS
<1>6. Becomes(f, h)
  BY <1>2, <1>4, <1>5, BecomesFacts
<1>7. Fields(h, fil[f].open, fil[f].write, fil[f].written, FALSE, fil[f].sclust, fil[f].clust, fil[f].fsize, fil[f].fptr)
  BY <1>2, <1>5, SetClean
<1>8. /\ DOMAIN fil' = Names /\ (\A g \in Names : g # f => fil'[g] = fil[g])
      /\ File' = fil'[f] /\ FilType(fil'[f]) /\ fil'[f].open = fil[f].open /\ fil'[f].write = fil[f].write
      /\ fil'[f].written = fil[f].written /\ fil'[f].dirty = FALSE /\ fil'[f].sclust = fil[f].sclust
      /\ fil'[f].clust = fil[f].clust /\ fil'[f].fsize = fil[f].fsize /\ fil'[f].fptr = fil[f].fptr
  BY <1>1, <1>2, <1>6, <1>7 DEF Becomes, Fields, File
<1>9. Quiet
  BY <1>1, QuietSame
<1>10. /\ step' \in Steppings /\ ~ Idle' /\ cur'.call = cur.call /\ step # "link" /\ step' # "link"
       /\ UNCHANGED fsiVars /\ CurType(cur')
  BY <1>1, <1>2 DEF Steppings, Idle
<1>11. Orphan' = Orphan
  BY <1>1 DEF Orphan
<1>12. CallInv'
  BY <1>1, <1>2, <1>3, <1>8 DEF CallInv, Opening, WriteSteps, ReadSteps, SeekSteps, Chaining
<1>13. dir' = dir /\ Busy(f)' /\ Busy(f)
  BY <1>1, <1>2, <1>9, <1>10 DEF Quiet, Busy
<1>14. FileInv(f, s)'
  <2>1. UnusedInv(f)' /\ DirtyInv(f)'
    BY <1>2, <1>8, <1>13 DEF FileInv, UnusedInv, DirtyInv
  <2>2. RoomInv(f, s)'
    BY <1>2, <1>8, <1>13 DEF FileInv, RoomInv
  <2>3. PlaceInv(f, s)'
    BY <1>1, <1>2, <1>8, <1>13 DEF FileInv, PlaceInv, PosInv, Behind, Chaining
  <2>4. EntryInv(f)'
    BY <1>1, <1>2, <1>8, <1>13 DEF FileInv, EntryInv
  <2> QED
    BY <2>1, <2>2, <2>3, <2>4 DEF FileInv
<1>15. ProgressInv(s)'
  BY <1>1 DEF ProgressInv, LeftInv, ReadInv, SectorInv, SeekInv, LinkInv, GotInv, ChainInv, ReadSteps, Chaining
<1> QED
  BY <1>1, <1>8, <1>9, <1>10, <1>11, <1>12, <1>14, <1>15, CallStep

Ending == {"sync", "flush", "fsinfo"}

(* What holds while a file is synchronised or removed at last.             *)
LEMMA EndingFacts ==
  ASSUME FatInv, NEW f \in Names, NEW ch \in Families, Now(f, ch), step \in Ending
  PROVE  /\ cur.call.f = f /\ File = fil[f] /\ FilType(fil[f]) /\ CurType(cur) /\ ~ Idle /\ FileInv(f, ch[f]) /\ FatInvOf(ch)
         /\ cur.call.op \in {"sync", "close", "unlink"}
         /\ step = "sync" => cur.call.op # "unlink"
         /\ cur.call.op # "unlink" => fil[f].open
         /\ cur.call.op = "unlink" => ~ fil[f].open
         /\ step # "sync" /\ cur.call.op # "unlink" => ~ fil[f].written
         /\ Orphan = 0 /\ Loose = 0
<1>1. /\ cur.call.f = f /\ File = fil[f] /\ FilType(fil[f]) /\ CurType(cur) /\ ~ Idle /\ FileInv(f, ch[f]) /\ FatInvOf(ch)
      /\ CallInv
  BY DEF Now, FatInv
<1>2. Orphan = 0 /\ Loose = 0
  BY DEF Orphan, Loose, Ending
<1>3. step \in {"sync", "flush", "fsinfo"}
  BY DEF Ending
<1> QED
  BY <1>1, <1>2, <1>3 DEF CallInv

(* The file and its entry stay as they are.                                *)
LEMMA FileCalm ==
  ASSUME NEW f \in Names, NEW s, FileInv(f, s), ~ Idle, cur.call.f = f, step \in Ending,
         cur.call.op \in {"sync", "close", "unlink"}, fil' = fil, dir' = dir,
         step' = "rest" \/ (step' \in Ending /\ cur' = cur)
  PROVE  FileInv(f, s)'
<1>1. step \in {"sync", "flush", "fsinfo"} /\ (step' = "rest" \/ (step' \in {"sync", "flush", "fsinfo"} /\ cur' = cur))
  BY DEF Ending
<1>2. (Busy(f)' => cur' = cur /\ step' # "rest") /\ Busy(f)
  BY <1>1 DEF Busy, Idle
<1>3. UnusedInv(f)' /\ DirtyInv(f)' /\ RoomInv(f, s)'
  BY <1>2 DEF FileInv, UnusedInv, DirtyInv, RoomInv
<1>4. PosInv(f, s) => PosInv(f, s)'
  BY <1>1 DEF PosInv, Behind, Chaining
<1>5. PlaceInv(f, s)'
  BY <1>2, <1>4 DEF FileInv, PlaceInv
<1>6. EntryInv(f)'
  BY <1>2 DEF FileInv, EntryInv
<1> QED
  BY <1>3, <1>5, <1>6 DEF FileInv

LEMMA SyncEntryKeeps ==
  ASSUME FatInv, NEW f \in Names, NEW ch \in Families, Now(f, ch), SyncEntry
  PROVE  FatInv'
<1> DEFINE s == ch[f]
<1>1. /\ step = "sync" /\ step \in Ending /\ step' = "flush" /\ cur' = cur /\ UNCHANGED <<fsiVars, historyVars>>
      /\ restarts' = restarts /\ fatCalls' = fatCalls
  BY QuietVars DEF SyncEntry, Ending, Go
<1>2. /\ cur.call.f = f /\ File = fil[f] /\ FilType(fil[f]) /\ CurType(cur) /\ ~ Idle /\ FileInv(f, s) /\ FatInvOf(ch)
      /\ cur.call.op \in {"sync", "close"} /\ fil[f].open /\ Orphan = 0 /\ Loose = 0
  BY <1>1, EndingFacts
<1>3. PICK e : e = Entry(fil[f].fsize, fil[f].sclust)
  OBVIOUS
<1>4. e \in DirEntries /\ e.size = fil[f].fsize /\ e.first = fil[f].sclust /\ e.used
  BY <1>2, <1>3 DEF FilType, Entry, DirEntries, Starts
<1>5. PutEntry(f, e) /\ SetFile([fil[f] EXCEPT !.written = FALSE]) /\ ~ fil[f].dirty
  BY <1>2, <1>3 DEF SyncEntry
<1>6. PICK h : h = [fil[f] EXCEPT !.written = FALSE]
  OBVIOUS
<1>7. Becomes(f, h)
  BY <1>2, <1>5, <1>6, BecomesFacts
<1>8. Fields(h, fil[f].open, fil[f].write, FALSE, fil[f].dirty, fil[f].sclust, fil[f].clust, fil[f].fsize, fil[f].fptr)
  <2>1. FALSE \in BOOLEAN /\ fil[f].fsize \in Nat
    BY <1>2 DEF FilType
  <2> QED
    BY <1>2, <1>6, <2>1, SetSize
<1>9. /\ DOMAIN fil' = Names /\ (\A g \in Names : g # f => fil'[g] = fil[g])
      /\ File' = fil'[f] /\ FilType(fil'[f]) /\ fil'[f].open = fil[f].open /\ fil'[f].write = fil[f].write
      /\ fil'[f].written = FALSE /\ fil'[f].dirty = fil[f].dirty /\ fil'[f].sclust = fil[f].sclust
      /\ fil'[f].clust = fil[f].clust /\ fil'[f].fsize = fil[f].fsize /\ fil'[f].fptr = fil[f].fptr
  BY <1>1, <1>2, <1>7, <1>8 DEF Becomes, Fields, File
<1>10. /\ WInv' /\ DiskStep /\ disk'.free = disk.free /\ fat' = fat
       /\ dir'[f] = e /\ \A g \in Names : g # f => dir'[g] = dir[g]
  BY <1>1, <1>4, <1>5, WindowEntry DEF FatInv
<1>11. Same(f) /\ Lead(f)' = Lead(f) /\ Orphan' = Orphan /\ Loose' = Loose
  BY <1>1, <1>2, <1>9, <1>10 DEF Same, Lead, Orphan, Loose
<1>12. CallInv'
  BY <1>1, <1>2, <1>9 DEF CallInv, Opening, WriteSteps, ReadSteps, SeekSteps, Chaining
<1>13. Busy(f)' /\ Busy(f) /\ ~ Idle'
  BY <1>1, <1>2 DEF Busy, Idle
<1>14. FileInv(f, s)'
  <2>1. UnusedInv(f)' /\ DirtyInv(f)'
    BY <1>4, <1>5, <1>9, <1>10 DEF UnusedInv, DirtyInv
  <2>2. RoomInv(f, s)'
    BY <1>2, <1>4, <1>9, <1>10 DEF FileInv, RoomInv
  <2>3. PlaceInv(f, s)'
    BY <1>1, <1>2, <1>9, <1>13 DEF FileInv, PlaceInv, PosInv, Behind, Chaining
  <2>4. EntryInv(f)'
    BY <1>4, <1>9, <1>10 DEF EntryInv
  <2> QED
    BY <2>1, <2>2, <2>3, <2>4 DEF FileInv
<1>15. ProgressInv(s)'
  BY <1>1 DEF ProgressInv, LeftInv, ReadInv, SectorInv, SeekInv, LinkInv, GotInv, ChainInv, ReadSteps, Chaining
<1>16. /\ step' \in Steppings /\ CurType(cur') /\ fatCalls' \in 0 .. MaxFatCalls /\ freeClust' = freeClust
       /\ fsiFlag' \in BOOLEAN /\ lastClust' \in 1 .. LastCluster /\ disk'.free \in {disk.free, freeClust}
  BY <1>1, <1>2, <1>10 DEF Steppings, fsiVars, FatInv, Types, TypesC, TypesN
<1>17. (~ Idle => cur.call.f = f) /\ (~ Idle' => cur'.call.f = f)
  BY <1>1, <1>2
<1> QED
  BY <1>1, <1>2, <1>9, <1>10, <1>11, <1>12, <1>14, <1>15, <1>16, <1>17, KeepChains

LEMMA SyncWindowKeeps ==
  ASSUME FatInv, NEW f \in Names, NEW ch \in Families, Now(f, ch), SyncWindow
  PROVE  FatInv'
<1> DEFINE s == ch[f]
<1>1. /\ step = "flush" /\ step \in Ending /\ step' = "fsinfo" /\ cur' = cur /\ UNCHANGED <<fsiVars, historyVars, fil>>
      /\ fat' = fat /\ dir' = dir /\ restarts' = restarts /\ fatCalls' = fatCalls
  BY QuietVars DEF SyncWindow, Ending, Go
<1>2. /\ cur.call.f = f /\ File = fil[f] /\ FilType(fil[f]) /\ CurType(cur) /\ ~ Idle /\ FileInv(f, s) /\ FatInvOf(ch)
      /\ cur.call.op \in {"sync", "close", "unlink"}
      /\ (cur.call.op # "unlink" => fil[f].open /\ ~ fil[f].written)
      /\ (cur.call.op = "unlink" => ~ fil[f].open) /\ Orphan = 0 /\ Loose = 0
  BY <1>1, EndingFacts
<1>3. WInv' /\ DiskStep /\ disk'.free = disk.free
  BY WindowSynced DEF SyncWindow, FatInv
<1>4. /\ DOMAIN fil' = Names /\ (\A g \in Names : g # f => fil'[g] = fil[g])
      /\ fil'[f] = fil[f] /\ File' = fil[f]
  BY <1>1, <1>2 DEF FatInv, Types, TypesF, File
<1>5. Same(f) /\ Lead(f)' = Lead(f) /\ Orphan' = Orphan /\ Loose' = Loose
  BY <1>1, <1>2, <1>4 DEF Same, Lead, Orphan, Loose
<1>6. CallInv'
  BY <1>1, <1>2, <1>4 DEF CallInv, Opening, WriteSteps, ReadSteps, SeekSteps, Chaining
<1>7. FileInv(f, s)'
  <2>1. fil' = fil /\ (step' \in Ending /\ cur' = cur)
    BY <1>1 DEF Ending
  <2> QED
    BY <1>1, <1>2, <2>1, FileCalm
<1>8. ProgressInv(s)'
  BY <1>1 DEF ProgressInv, LeftInv, ReadInv, SectorInv, SeekInv, LinkInv, GotInv, ChainInv, ReadSteps, Chaining
<1>9. /\ step' \in Steppings /\ CurType(cur') /\ fatCalls' \in 0 .. MaxFatCalls /\ freeClust' = freeClust
      /\ fsiFlag' \in BOOLEAN /\ lastClust' \in 1 .. LastCluster /\ disk'.free \in {disk.free, freeClust}
  BY <1>1, <1>2, <1>3 DEF Steppings, fsiVars, FatInv, Types, TypesC, TypesN
<1>10. (~ Idle => cur.call.f = f) /\ (~ Idle' => cur'.call.f = f)
  BY <1>1, <1>2
<1>11. FilType(fil'[f])
  BY <1>2, <1>4
<1> QED
  BY <1>1, <1>2, <1>3, <1>5, <1>6, <1>7, <1>8, <1>9, <1>10, <1>11, KeepChains

LEMMA SyncKeeps ==
  ASSUME FatInv, NEW f \in Names, NEW ch \in Families, Now(f, ch), sync_fs
  PROVE  FatInv'
<1> DEFINE s == ch[f]
<1>1. /\ step = "fsinfo" \/ (step = "sync" /\ ~ File.written)
      /\ step \in Ending /\ step' = "rest" /\ step' # "fsinfo" /\ cur' = NoLocals /\ UNCHANGED <<freeClust, lastClust>>
      /\ fat' = fat /\ dir' = dir /\ wflag' = wflag /\ restarts' = restarts /\ fatCalls' = fatCalls
  BY DEF sync_fs, Ends, Ending, EndCall, Go
<1>2. /\ cur.call.f = f /\ File = fil[f] /\ FilType(fil[f]) /\ CurType(cur) /\ ~ Idle /\ FileInv(f, s) /\ FatInvOf(ch)
      /\ cur.call.op \in {"sync", "close", "unlink"}
      /\ (cur.call.op # "unlink" => fil[f].open /\ ~ fil[f].written)
      /\ (cur.call.op = "unlink" => ~ fil[f].open) /\ Orphan = 0 /\ Loose = 0
  <2>1. /\ cur.call.f = f /\ File = fil[f] /\ FilType(fil[f]) /\ CurType(cur) /\ ~ Idle /\ FileInv(f, ch[f]) /\ FatInvOf(ch)
        /\ cur.call.op \in {"sync", "close", "unlink"}
        /\ step = "sync" => cur.call.op # "unlink"
        /\ cur.call.op # "unlink" => fil[f].open
        /\ cur.call.op = "unlink" => ~ fil[f].open
        /\ step # "sync" /\ cur.call.op # "unlink" => ~ fil[f].written
        /\ Orphan = 0 /\ Loose = 0
    BY <1>1, EndingFacts
  <2> QED
    BY <1>1, <2>1
<1>3. freeClust \in Int /\ lastClust \in 1 .. LastCluster /\ fsiFlag \in BOOLEAN
  BY DEF FatInv, Types, TypesC
<1>4. WInv' /\ DiskStep /\ disk'.free \in {disk.free, freeClust} /\ fsiFlag' \in BOOLEAN
  <2>1. CASE step = "fsinfo" /\ fsiFlag
    <3>1. disk' = [disk EXCEPT !.free = freeClust, !.last = lastClust] /\ winsect' = InfoSector /\ fsiFlag' = FALSE
      BY <2>1 DEF sync_fs
    <3>2. UNCHANGED <<fat, dir, wflag>> /\ step' # "fsinfo" /\ WInv
      BY <1>1 DEF FatInv
    <3>3. WInv' /\ DiskStep /\ disk'.free = freeClust
      BY <1>3, <2>1, <3>1, <3>2, WindowInfo
    <3> QED
      BY <3>1, <3>3
  <2>2. CASE ~ (step = "fsinfo" /\ fsiFlag)
    <3>1. UNCHANGED <<disk, winsect, fsiFlag>>
      BY <2>2 DEF sync_fs
    <3>2. UNCHANGED windowVars
      BY <1>1, <3>1 DEF windowVars
    <3>3. Quiet
      BY <1>1, <3>2, QuietSame
    <3> QED
      BY <1>3, <3>1, <3>3 DEF Quiet
  <2> QED
    BY <2>1, <2>2
<1>5. /\ CurType(cur') /\ CallInv' /\ Idle'
  BY <1>1, NoLocalsFacts DEF Locals, CallInv, Idle
<1>6. /\ Becomes(f, fil'[f]) /\ FilType(fil'[f]) /\ Lead(f)' = Lead(f) /\ FileInv(f, s)'
  <2>1. CASE fil' = fil
    <3>1. Becomes(f, fil[f])
      BY <2>1, BecomesFacts
    <3>2. FileInv(f, s)'
      BY <1>1, <1>2, <2>1, FileCalm
    <3> QED
      BY <1>1, <1>2, <2>1, <3>1, <3>2 DEF Lead
  <2>2. CASE SetFile(Closed) /\ cur.call.op = "close"
    <3>1. Becomes(f, Closed)
      BY <1>2, <2>2, BecomesFacts
    <3>2. fil'[f] = Closed /\ FilType(Closed) /\ Closed.open = FALSE /\ Closed.dirty = FALSE
      BY <3>1, SetOpen, FatConstants DEF Becomes, Fields, Starts
    <3>3. fil[f].open /\ dir[f].first = fil[f].sclust
      BY <1>2, <2>2 DEF FileInv, EntryInv
    <3>4. Lead(f)' = Lead(f)
      BY <1>1, <3>2, <3>3 DEF Lead
    <3>5. UnusedInv(f)' /\ RoomInv(f, s)'
      BY <1>1, <1>2, <3>2 DEF FileInv, UnusedInv, RoomInv
    <3>6. DirtyInv(f)' /\ PlaceInv(f, s)' /\ EntryInv(f)'
      BY <3>2 DEF DirtyInv, PlaceInv, EntryInv
    <3> QED
      BY <3>1, <3>2, <3>4, <3>5, <3>6 DEF FileInv
  <2> QED
    BY <2>1, <2>2 DEF sync_fs
<1>7. Same(f) /\ Orphan' = Orphan /\ Loose' = Loose
  BY <1>1, <1>2, <1>6 DEF Same, Becomes, Orphan, Loose
<1>8. /\ step' \in Steppings /\ fatCalls' \in 0 .. MaxFatCalls /\ freeClust' = freeClust
      /\ lastClust' \in 1 .. LastCluster
  BY <1>1, <1>3 DEF Steppings, FatInv, Types, TypesN
<1>9. (~ Idle => cur.call.f = f) /\ (~ Idle' => cur'.call.f = f) /\ (~ Idle' => ProgressInv(s)')
  BY <1>2, <1>5
<1> QED
  BY <1>1, <1>2, <1>4, <1>5, <1>6, <1>7, <1>8, <1>9, KeepChains

-----------------------------------------------------------------------------
(* f_open() and f_unlink().                                                *)

(* What holds of a file that is looked up or removed: it is not open.      *)
Looking == {"open", "unlink", "opened"}
LEMMA LookingFacts ==
  ASSUME FatInv, NEW f \in Names, NEW ch \in Families, Now(f, ch), step \in Looking
  PROVE  /\ cur.call.f = f /\ FilType(fil[f]) /\ CurType(cur) /\ ~ Idle /\ FatInvOf(ch)
         /\ ~ fil[f].open /\ ~ fil[f].dirty /\ UnusedInv(f)
         /\ dir[f] \in DirEntries /\ dir[f].size <= Len(ch[f]) * ClusterUnits /\ dir[f].first = Lead(f)
         /\ Len(ch[f]) \in Nat
         /\ step = "open" => cur.call.op \in OpenOps
         /\ step = "unlink" => cur.call.op = "unlink"
         /\ step = "opened" => cur.new \in Clusters \ {Root} /\ dir[f] = Entry(0, 0)
         /\ Orphan = 0 /\ Loose = 0
<1>1. /\ cur.call.f = f /\ File = fil[f] /\ FilType(fil[f]) /\ CurType(cur) /\ ~ Idle /\ FileInv(f, ch[f]) /\ FatInvOf(ch)
      /\ CallInv /\ TypesW /\ Len(ch[f]) \in Nat
  BY DEF Now, FatInv, WInv
<1>2. Orphan = 0 /\ Loose = 0
  BY DEF Orphan, Loose, Looking
<1>3. step \in {"open", "unlink", "opened"}
  BY DEF Looking
<1>4. /\ step \in {"open", "opened"} => cur.call.op \in OpenOps /\ ~ File.open
      /\ step = "unlink" => cur.call.op = "unlink" /\ ~ File.open
      /\ step = "opened" => cur.new \in Clusters \ {Root} /\ dir[f] = Entry(0, 0)
  BY <1>1, <1>3 DEF CallInv, Opening
<1>5. ~ fil[f].open
  BY <1>1, <1>3, <1>4
<1>6. /\ ~ fil[f].dirty /\ UnusedInv(f) /\ dir[f].size <= Len(ch[f]) * ClusterUnits
  BY <1>1, <1>5 DEF FileInv, DirtyInv, RoomInv
<1>7. dir[f] \in DirEntries /\ dir[f].first = Lead(f)
  BY <1>1, <1>5 DEF TypesW, Lead
<1> QED
  BY <1>1, <1>2, <1>4, <1>5, <1>6, <1>7

LEMMA NewEntry ==
  /\ Entry(0, 0) \in DirEntries /\ Entry(0, 0).size = 0 /\ Entry(0, 0).first = 0 /\ Entry(0, 0).used = TRUE
  /\ NoEntry \in DirEntries /\ NoEntry.size = 0 /\ NoEntry.first = 0 /\ NoEntry.used = FALSE
BY DEF Entry, NoEntry, DirEntries

(* The file is open with the entry e.                                      *)
LEMMA OpenStep ==
  ASSUME FatInv, NEW f \in Names, NEW ch \in Families, Now(f, ch), step \in {"open", "opened"},
         NEW e \in DirEntries, e.used, e.first = Lead(f), e.size <= Len(ch[f]) * ClusterUnits,
         NEW wn \in BOOLEAN, Opened(e, wn),
         WInv', DiskStep, disk'.free = disk.free, fat' = fat,
         dir'[f] = e, \A g \in Names : g # f => dir'[g] = dir[g],
         UNCHANGED <<freeClust, fsiFlag>>, lastClust' \in 1 .. LastCluster
  PROVE  FatInv'
<1> DEFINE s == ch[f]
<1>1. /\ cur.call.f = f /\ FilType(fil[f]) /\ CurType(cur) /\ ~ Idle /\ FatInvOf(ch) /\ Len(s) \in Nat
      /\ ~ fil[f].open /\ Orphan = 0 /\ Loose = 0
  BY LookingFacts DEF Looking
<1>2. /\ step' = "rest" /\ cur' = NoLocals /\ restarts' = restarts /\ fatCalls' = fatCalls
  BY DEF Opened, EndCall, Go
<1>3. /\ CurType(cur') /\ CallInv' /\ Idle'
  BY <1>2, NoLocalsFacts DEF Locals, CallInv, Idle
<1>4. PICK wr : wr = (cur.call.op # "openExisting")
  OBVIOUS
<1>5. PICK h : h = [Closed EXCEPT !.open = TRUE, !.write = wr, !.written = wn, !.sclust = e.first, !.fsize = e.size]
  OBVIOUS
<1>6. Becomes(f, h)
  BY <1>1, <1>4, <1>5, BecomesFacts DEF Opened
<1>7. Fields(h, TRUE, wr, wn, FALSE, e.first, 0, e.size, 0)
  <2>1. wr \in BOOLEAN /\ e.first \in Starts /\ e.size \in Nat
    BY <1>4 DEF DirEntries, Starts
  <2> QED
    BY <1>5, <2>1, SetOpen
<1>8. /\ fil'[f] = h /\ FilType(h) /\ h.open = TRUE /\ h.written = wn /\ h.dirty = FALSE /\ h.sclust = e.first
      /\ h.fsize = e.size /\ h.fptr = 0
  BY <1>6, <1>7 DEF Becomes, Fields
<1>9. Same(f) /\ Lead(f)' = Lead(f) /\ Orphan' = Orphan /\ Loose' = Loose
  BY <1>1, <1>2, <1>6, <1>8 DEF Same, Becomes, Lead, Orphan, Loose
<1>10. FileInv(f, s)'
  <2>1. UnusedInv(f)' /\ DirtyInv(f)' /\ EntryInv(f)'
    BY <1>8 DEF UnusedInv, DirtyInv, EntryInv
  <2>2. RoomInv(f, s)'
    BY <1>8 DEF RoomInv
  <2>3. ~ Busy(f)'
    BY <1>2 DEF Busy, Idle
  <2>4. 0 <= Len(s) * ClusterUnits /\ ~ (0 > 0) /\ e.size \in Nat
    BY <1>1, FatConstants, Times, SMT DEF DirEntries
  <2>5. PlaceInv(f, s)'
    BY <1>8, <2>3, <2>4 DEF PlaceInv, PosInv, Behind
  <2> QED
    BY <2>1, <2>2, <2>5 DEF FileInv
<1>11. /\ step' \in Steppings /\ fatCalls' \in 0 .. MaxFatCalls /\ freeClust' = freeClust
       /\ fsiFlag' \in BOOLEAN /\ disk'.free \in {disk.free, freeClust}
  BY <1>2 DEF Steppings, FatInv, Types, TypesN, TypesC
<1>12. (~ Idle => cur.call.f = f) /\ (~ Idle' => cur'.call.f = f) /\ (~ Idle' => ProgressInv(s)')
  BY <1>1, <1>3
<1>13. FilType(fil'[f])
  BY <1>8
<1> QED
  BY <1>1, <1>2, <1>3, <1>9, <1>10, <1>11, <1>12, <1>13, KeepChains

(* The file's chain is to be unlinked: its entry, that becomes e, forgets  *)
(* it first.                                                               *)
LEMMA ForgetStep ==
  ASSUME FatInv, NEW f \in Names, NEW ch \in Families, Now(f, ch), step \in {"open", "unlink"},
         NEW e \in {NoEntry, Entry(0, 0)}, PutEntry(f, e), UNCHANGED <<fil, fsiVars, historyVars>>,
         CurType(cur'), cur'.call = cur.call, cur'.clust = Lead(f),
         step' \in {"replace", "remove", "flush"}, step' = "flush" <=> Lead(f) = 0 /\ step = "unlink",
         step = "open" => step' = "replace" /\ cur'.new = Lead(f) /\ e = Entry(0, 0) /\ Lead(f) # 0,
         step = "unlink" => step' # "replace"
  PROVE  FatInv'
<1>1. /\ cur.call.f = f /\ FilType(fil[f]) /\ CurType(cur) /\ ~ Idle /\ FatInvOf(ch)
      /\ ~ fil[f].open /\ ~ fil[f].dirty /\ dir[f].first = Lead(f)
      /\ step = "open" => cur.call.op \in OpenOps
      /\ step = "unlink" => cur.call.op = "unlink"
      /\ Orphan = 0 /\ Loose = 0
  BY LookingFacts DEF Looking
<1>2. restarts' = restarts /\ fatCalls' = fatCalls
  BY QuietVars
<1>3. e \in DirEntries /\ e.size = 0 /\ e.first = 0 /\ (~ e.used => e = NoEntry)
  BY NewEntry
<1>4. /\ WInv' /\ DiskStep /\ disk'.free = disk.free /\ fat' = fat
      /\ dir'[f] = e /\ \A g \in Names : g # f => dir'[g] = dir[g]
  BY <1>3, WindowEntry DEF FatInv
<1>5. /\ DOMAIN fil' = Names /\ (\A g \in Names : g # f => fil'[g] = fil[g])
      /\ fil'[f] = fil[f] /\ File' = fil[f]
  BY <1>1 DEF FatInv, Types, TypesF, File
<1>6. Same(f) /\ Lead(f)' = 0 /\ Loose' = Loose
  BY <1>1, <1>3, <1>4, <1>5 DEF Same, Lead, Loose
<1>7. Orphan' = Lead(f)
  BY <1>1 DEF Orphan
<1>8. Lead(f) # 0 => Lead(f) \in Clusters \ {Root}
  <2>1. /\ \A i \in 1 .. Len(ch[f]) : ch[f][i] \in Clusters /\ ch[f][i] # Root /\ fat[ch[f][i]] # 0
        /\ Lead(f) = 0 <=> ch[f] = <<>>
        /\ ch[f] # <<>> => /\ 1 \in 1 .. Len(ch[f]) /\ Len(ch[f]) \in 1 .. Len(ch[f])
                           /\ Lead(f) = ch[f][1] /\ Lead(f) \in Clusters
    BY <1>1, FileFacts
  <2> QED
    BY <2>1
<1>9. CallInv'
  <2>1. CASE step = "open"
    BY <1>1, <1>4, <1>5, <1>8, <2>1 DEF CallInv, Opening, WriteSteps, ReadSteps, SeekSteps, Chaining
  <2>2. CASE step = "unlink"
    BY <1>1, <1>4, <1>5, <1>8, <2>2 DEF CallInv, Opening, WriteSteps, ReadSteps, SeekSteps, Chaining
  <2> QED
    BY <2>1, <2>2
<1>10. FileInv(f, <<>>)'
  <2>1. UnusedInv(f)' /\ DirtyInv(f)'
    BY <1>1, <1>3, <1>4, <1>5 DEF UnusedInv, DirtyInv
  <2>2. EntryInv(f)' /\ PlaceInv(f, <<>>)'
    BY <1>1, <1>5 DEF EntryInv, PlaceInv
  <2>3. 0 <= Len(<<>>) * ClusterUnits
    <3>1. Len(<<>>) = 0
      BY EmptySeq
    <3> QED
      BY <3>1, FatConstants, SMT
  <2>4. RoomInv(f, <<>>)'
    BY <1>1, <1>3, <1>4, <1>5, <2>3 DEF RoomInv
  <2> QED
    BY <2>1, <2>2, <2>4 DEF FileInv
<1>11. ProgressInv(<<>>)'
  BY DEF ProgressInv, LeftInv, ReadInv, SectorInv, SeekInv, LinkInv, GotInv, ChainInv, ReadSteps, Chaining
<1>12. /\ step' \in Steppings /\ disk'.free \in {disk.free, freeClust} /\ UNCHANGED fsiVars
       /\ (~ Idle => cur.call.f = f) /\ (~ Idle' => cur'.call.f = f) /\ (~ Idle' => ProgressInv(<<>>)')
       /\ FilType(fil'[f])
  BY <1>1, <1>4, <1>5, <1>11 DEF Steppings
<1> QED
  BY <1>1, <1>2, <1>4, <1>6, <1>7, <1>9, <1>10, <1>12, LoseChain

LEMMA OpenReplacedKeeps ==
  ASSUME FatInv, NEW f \in Names, NEW ch \in Families, Now(f, ch), OpenReplaced
  PROVE  FatInv'
<1>1. /\ cur.call.f = f /\ dir[f] \in DirEntries /\ dir[f].size <= Len(ch[f]) * ClusterUnits /\ dir[f].first = Lead(f)
      /\ cur.new \in Clusters \ {Root} /\ dir[f] = Entry(0, 0)
  BY LookingFacts DEF OpenReplaced, Looking
<1>2. step' # "fsinfo" /\ step = "opened"
  BY DEF OpenReplaced, Opened, EndCall, Go
<1>3. Quiet
  BY <1>2, QuietRead, SectorFacts DEF OpenReplaced
<1>4. lastClust' \in 1 .. LastCluster
  <2>1. PICK n : n = cur.new
    OBVIOUS
  <2>2. n \in Nat /\ n >= 2 /\ n <= LastCluster /\ n # 2 /\ LastCluster \in Nat
    BY <1>1, <2>1, FatConstants DEF Root
  <2>3. n - 1 \in 1 .. LastCluster
    BY <2>2, SMT
  <2> QED
    BY <2>1, <2>3 DEF OpenReplaced
<1>5. Opened(dir[f], TRUE) /\ dir[f].used /\ UNCHANGED <<freeClust, fsiFlag>>
  BY <1>1, NewEntry DEF OpenReplaced
<1>6. /\ WInv' /\ DiskStep /\ disk'.free = disk.free /\ fat' = fat
      /\ dir'[f] = dir[f] /\ \A g \in Names : g # f => dir'[g] = dir[g]
  BY <1>3 DEF Quiet
<1>7. TRUE \in BOOLEAN /\ step \in {"open", "opened"}
  BY <1>2
<1> QED
  BY <1>1, <1>4, <1>5, <1>6, <1>7, OpenStep

LEMMA UnlinkKeeps ==
  ASSUME FatInv, NEW f \in Names, NEW ch \in Families, Now(f, ch), f_unlink
  PROVE  FatInv'
<1>1. /\ cur.call.f = f /\ CurType(cur) /\ dir[f] \in DirEntries /\ dir[f].first = Lead(f)
  BY LookingFacts DEF f_unlink, Looking
<1>2. /\ step = "unlink" /\ PutEntry(f, NoEntry) /\ UNCHANGED <<fil, fsiVars, historyVars>>
      /\ cur' = [cur EXCEPT !.clust = Lead(f)] /\ step' = IF Lead(f) = 0 THEN "flush" ELSE "remove"
  BY <1>1 DEF f_unlink, Go
<1>3. Lead(f) \in Starts \cup {LastLink}
  BY <1>1 DEF DirEntries, Starts
<1>4. Locals(cur', cur.call, cur.left, Lead(f), cur.new)
  BY <1>1, <1>2, <1>3, SetCur DEF CurType
<1>5. CurType(cur') /\ cur'.call = cur.call /\ cur'.clust = Lead(f)
  BY <1>4 DEF Locals
<1>6. /\ step' \in {"replace", "remove", "flush"} /\ (step' = "flush" <=> Lead(f) = 0 /\ step = "unlink")
      /\ (step = "open" => step' = "replace" /\ cur'.new = Lead(f) /\ NoEntry = Entry(0, 0) /\ Lead(f) # 0)
      /\ (step = "unlink" => step' # "replace") /\ step \in {"open", "unlink"}
  BY <1>2
<1> QED
  BY <1>2, <1>5, <1>6, ForgetStep

LEMMA OpenKeeps ==
  ASSUME FatInv, NEW f \in Names, NEW ch \in Families, Now(f, ch), f_open
  PROVE  FatInv'
<1>1. step = "open" /\ UNCHANGED fsiVars
  BY DEF f_open
<1>2. /\ cur.call.f = f /\ FilType(fil[f]) /\ CurType(cur) /\ ~ Idle /\ FatInvOf(ch)
      /\ ~ fil[f].open /\ ~ fil[f].dirty /\ UnusedInv(f) /\ Len(ch[f]) \in Nat
      /\ dir[f] \in DirEntries /\ dir[f].size <= Len(ch[f]) * ClusterUnits /\ dir[f].first = Lead(f)
      /\ cur.call.op \in OpenOps
  BY <1>1, LookingFacts DEF Looking
<1>3. UNCHANGED <<freeClust, fsiFlag>> /\ lastClust' \in 1 .. LastCluster
  BY <1>1 DEF fsiVars, FatInv, Types, TypesC
<1>4. ASSUME PutEntry(f, Entry(0, 0)), Opened(Entry(0, 0), TRUE), dir[f].first = 0
      PROVE  FatInv'
  <2>1. step' # "fsinfo"
    BY <1>4 DEF Opened, EndCall, Go
  <2>2. PICK e : e = Entry(0, 0)
    OBVIOUS
  <2>3. e \in DirEntries /\ e.used /\ e.first = Lead(f) /\ e.size = 0
    BY <1>2, <1>4, <2>2, NewEntry
  <2>4. /\ WInv' /\ DiskStep /\ disk'.free = disk.free /\ fat' = fat
        /\ dir'[f] = e /\ \A g \in Names : g # f => dir'[g] = dir[g]
    BY <1>4, <2>1, <2>2, <2>3, WindowEntry DEF FatInv
  <2>5. e.size <= Len(ch[f]) * ClusterUnits
    BY <1>2, <2>3, FatConstants, Times, SMT
  <2>6. TRUE \in BOOLEAN /\ step \in {"open", "opened"} /\ Opened(e, TRUE)
    BY <1>1, <1>4, <2>2
  <2> QED
    BY <1>3, <2>3, <2>4, <2>5, <2>6, OpenStep
<1>5. CASE ~ dir[f].used /\ cur.call.op = "openExisting"
  <2>1. ReadOver({DirSector}, DirSector) /\ EndCall /\ fil' = fil
    BY <1>1, <1>2, <1>5 DEF f_open
  <2>2. step' = "rest"
    BY <2>1 DEF EndCall, Go
  <2>3. Quiet
    BY <2>1, <2>2, QuietRead, SectorFacts
  <2>4. Becomes(f, fil[f])
    BY <2>1, BecomesFacts
  <2>5. FileInv(f, ch[f])'
    <3>1. dir'[f] = dir[f] /\ fil'[f] = fil[f]
      BY <2>1, <2>3 DEF Quiet
    <3>2. UnusedInv(f)' /\ DirtyInv(f)' /\ RoomInv(f, ch[f])'
      BY <1>2, <3>1 DEF UnusedInv, DirtyInv, RoomInv
    <3>3. PlaceInv(f, ch[f])' /\ EntryInv(f)'
      BY <1>2, <3>1 DEF PlaceInv, EntryInv
    <3> QED
      BY <3>2, <3>3 DEF FileInv
  <2>6. step \notin {"link", "got", "remove", "replace"}
    BY <1>1
  <2> QED
    BY <1>1, <1>2, <2>1, <2>3, <2>4, <2>5, <2>6, EndStep
<1>6. CASE ~ dir[f].used /\ cur.call.op # "openExisting"
  <2>1. PutEntry(f, Entry(0, 0)) /\ Opened(Entry(0, 0), TRUE)
    BY <1>1, <1>2, <1>6 DEF f_open
  <2>2. dir[f].first = 0
    BY <1>2, <1>6, NewEntry DEF UnusedInv
  <2> QED
    BY <1>4, <2>1, <2>2
<1>7. CASE dir[f].used /\ cur.call.op # "create"
  <2>1. ReadOver({DirSector}, DirSector) /\ Opened(dir[f], FALSE)
    BY <1>1, <1>2, <1>7 DEF f_open
  <2>2. step' # "fsinfo"
    BY <2>1 DEF Opened, EndCall, Go
  <2>3. Quiet
    BY <2>1, <2>2, QuietRead, SectorFacts
  <2>4. /\ WInv' /\ DiskStep /\ disk'.free = disk.free /\ fat' = fat
        /\ dir'[f] = dir[f] /\ \A g \in Names : g # f => dir'[g] = dir[g]
    BY <2>3 DEF Quiet
  <2>5. FALSE \in BOOLEAN /\ step \in {"open", "opened"}
    BY <1>1
  <2> QED
    BY <1>2, <1>3, <1>7, <2>1, <2>4, <2>5, OpenStep
<1>8. CASE dir[f].used /\ cur.call.op = "create" /\ dir[f].first = 0
  <2>1. PutEntry(f, Entry(0, 0)) /\ Opened(Entry(0, 0), TRUE)
    BY <1>1, <1>2, <1>8 DEF f_open
  <2> QED
    BY <1>4, <1>8, <2>1
<1>9. CASE dir[f].used /\ cur.call.op = "create" /\ dir[f].first # 0
  <2>1. PICK c : c = Lead(f)
    OBVIOUS
  <2>2. /\ PutEntry(f, Entry(0, 0)) /\ cur' = [cur EXCEPT !.clust = c, !.new = c]
        /\ step' = "replace" /\ UNCHANGED <<fil, historyVars>>
    BY <1>1, <1>2, <1>9, <2>1 DEF f_open, Go
  <2>3. c \in Starts /\ c \in Starts \cup {LastLink}
    BY <1>2, <2>1 DEF DirEntries, Starts
  <2>4. Locals(cur', cur.call, cur.left, c, c)
    BY <1>2, <2>2, <2>3, SetCur DEF CurType
  <2>5. CurType(cur') /\ cur'.call = cur.call /\ cur'.clust = Lead(f)
    BY <2>1, <2>4 DEF Locals
  <2>6. /\ step' \in {"replace", "remove", "flush"} /\ (step' = "flush" <=> Lead(f) = 0 /\ step = "unlink")
        /\ (step = "open" => step' = "replace" /\ cur'.new = Lead(f) /\ Entry(0, 0) = Entry(0, 0) /\ Lead(f) # 0)
        /\ (step = "unlink" => step' # "replace") /\ step \in {"open", "unlink"}
    BY <1>1, <1>2, <1>9, <2>1, <2>2, <2>4 DEF Locals
  <2> QED
    BY <1>1, <2>2, <2>5, <2>6, ForgetStep
<1> QED
  BY <1>5, <1>6, <1>7, <1>8, <1>9

-----------------------------------------------------------------------------
(* remove_chain().                                                         *)

LEMMA FreeOneMore ==
  ASSUME TypesW, fat[Root] # 0, NEW c \in Clusters, fat[c] # 0, fat' = [fat EXCEPT ![c] = 0]
  PROVE  Cardinality(Free)' = Cardinality(Free) + 1 /\ Cardinality(Free)' \in Nat
<1>1. Free' = Free \cup {c} /\ c \notin Free
  BY DEF Free, TypesW, Tables
<1>2. IsFiniteSet(Free) /\ Cardinality(Free) \in Nat
  BY FreeFacts
<1>3. Cardinality(Free \cup {c}) = Cardinality(Free) + 1
  BY <1>1, <1>2, FS_AddElement
<1> QED
  BY <1>1, <1>2, <1>3

(* The first of the clusters that are to be given back.                    *)
LEMMA RemoveStep ==
  ASSUME FatInv, NEW f \in Names, NEW ch \in Families, Now(f, ch), step \in {"remove", "replace"},
         NEW c, c = cur.clust, put_fat(c, 0), FreeMore(1), cur' = [cur EXCEPT !.clust = fat[c]],
         step' = IF fat[c] \in Clusters THEN step ELSE IF step = "remove" THEN "flush" ELSE "opened",
         UNCHANGED <<lastClust, fil, historyVars>>
  PROVE  FatInv'
<1> DEFINE c2 == [ch EXCEPT ![Nobody] = Tail(ch[Nobody])]
<1>1. /\ cur.call.f = f /\ File = fil[f] /\ FilType(fil[f]) /\ CurType(cur) /\ ~ Idle /\ FileInv(f, ch[f]) /\ FatInvOf(ch)
      /\ CallInv /\ TypesW /\ fat \in Tables /\ fat[Root] # 0 /\ Chains(fat, Heads, ch) /\ AccountInv(ch)
  BY DEF Now, FatInv, WInv, FatInvOf, TypesW
<1>2. /\ restarts' = restarts /\ fatCalls' = fatCalls
  BY QuietVars
<1>3. /\ ~ fil[f].open /\ c # 0
      /\ step = "remove" => cur.call.op = "unlink"
      /\ step = "replace" => cur.call.op \in OpenOps /\ cur.new \in Clusters \ {Root} /\ dir[f] = Entry(0, 0)
  BY <1>1 DEF CallInv, Opening
<1>4. /\ MoveOver({FatSector(c)}, FatSector(c)) /\ fat' = [fat EXCEPT ![c] = 0] /\ wflag' = TRUE /\ dir' = dir
  BY DEF put_fat
<1>5. Orphan = c /\ Loose = 0 /\ Loose' = 0
  BY DEF Orphan, Loose
<1>6. PICK nxt : nxt = fat[c]
  OBVIOUS
<1>7. Orphan = Heads[Nobody] /\ DOMAIN Heads = Owners /\ (\A o \in Names : Heads[o] = Lead(o)) /\ c = Heads[Nobody]
  BY <1>5, HeadsFacts
<1>8. c \in Clusters /\ c # Root /\ nxt # 0 /\ nxt \in Clusters \cup {LastLink}
  <2>1. /\ IsChain(fat, Orphan, ch[Nobody]) /\ Len(ch[Nobody]) \in Nat
        /\ \A i \in 1 .. Len(ch[Nobody]) : ch[Nobody][i] \in Clusters
        /\ Orphan = 0 <=> ch[Nobody] = <<>>
        /\ ch[Nobody] = <<>> <=> Len(ch[Nobody]) = 0
        /\ ch[Nobody] # <<>> => Orphan = ch[Nobody][1]
    BY <1>1, NobodyFacts
  <2>2. 1 \in 1 .. Len(ch[Nobody]) /\ c = ch[Nobody][1]
    BY <1>3, <1>5, <2>1
  <2>3. Nobody \in Owners
    BY HeadsFacts
  <2>4. /\ \A i \in 1 .. Len(ch[Nobody]) : ch[Nobody][i] \in Clusters /\ ch[Nobody][i] # Root /\ fat[ch[Nobody][i]] # 0
    BY <1>1, <1>7, <2>3, FamilyFacts
  <2>5. c \in Clusters /\ c # Root /\ nxt # 0
    BY <1>6, <2>2, <2>4
  <2> QED
    BY <1>1, <1>6, <2>5 DEF Tables
<1>9. WInv' /\ DiskStep /\ disk'.free = disk.free
  <2>1. step' # "fsinfo" /\ 0 \in {0} \cup Clusters \cup {LastLink} /\ (c = Root => 0 # 0) /\ FatSector(c) \in {FatSector(c)}
    BY <1>8
  <2> QED
    BY <1>4, <1>8, <2>1, WindowPut DEF FatInv
<1>10. Locals(cur', cur.call, cur.left, nxt, cur.new)
  <2>1. nxt \in Starts \cup {LastLink}
    BY <1>8 DEF Starts
  <2> QED
    BY <1>1, <1>6, <2>1, SetCur DEF CurType
<1>11. /\ CurType(cur') /\ cur'.call = cur.call /\ cur'.clust = nxt /\ cur'.new = cur.new /\ File' = fil[f]
  BY <1>1, <1>10 DEF Locals, File
<1>12. /\ Same(f) /\ (\A o \in Names : Lead(o)' = Lead(o)) /\ FilType(fil'[f])
  BY <1>1, <1>4 DEF Same, Lead, FatInv, Types, TypesF
<1>13. Orphan' = IF nxt \in Clusters THEN nxt ELSE 0
  BY <1>6, <1>11 DEF Orphan
<1>14. RemoveFamily(fat, Heads, ch, fat', Heads', c2)
  <2>1. DOMAIN Heads' = Owners /\ Heads'[Nobody] = Orphan' /\ \A o \in Names : Heads'[o] = Heads[o]
    BY <1>7, <1>12, HeadsNext
  <2>2. Heads'[Nobody] = IF fat[Heads[Nobody]] \in Clusters THEN fat[Heads[Nobody]] ELSE 0
    BY <1>6, <1>7, <1>13, <2>1
  <2>3. Heads[Nobody] # 0 /\ fat' = [fat EXCEPT ![Heads[Nobody]] = 0]
    BY <1>3, <1>4, <1>7
  <2> QED
    BY <1>1, <1>7, <2>1, <2>2, <2>3 DEF RemoveFamily
<1>15. c2[f] = ch[f] /\ \A g \in Names : g # f => c2[g] = ch[g]
  BY HeadsFacts DEF Families
<1> HIDE DEF c2
<1>16. c2 \in Families /\ Chains(fat', Heads', c2) /\ (Owned(fat, ch) => Owned(fat', c2))
  BY <1>14, FamilyRemove
<1>17. Cardinality(Free)' = Cardinality(Free) + 1 /\ Cardinality(Free)' \in Nat
  BY <1>1, <1>4, <1>6, <1>8, FreeOneMore
<1>18. /\ CountInv' /\ TypesC' /\ TypesN'
       /\ restarts = 0 /\ freeClust = Cardinality(Free) + Loose => freeClust' = Cardinality(Free)' + Loose'
  <2>1. lastClust' \in 1 .. LastCluster
    BY DEF FatInv, Types, TypesC
  <2>2. Cardinality(Free) \in Nat
    BY <1>1, FreeFacts
  <2>3. Cardinality(Free)' + Loose' = Cardinality(Free) + Loose + 1
    BY <1>5, <1>17, <2>2
  <2>4. 1 \in {-1, 1} /\ (1 = -1 => Loose = 1)
    OBVIOUS
  <2> QED
    BY <1>2, <1>9, <1>17, <2>1, <2>3, <2>4, FreeMoreFacts
<1>19. AccountInv(c2)'
  BY <1>1, <1>2, <1>16, <1>18 DEF AccountInv, Owned
<1>20. ~ fil[f].dirty
  BY <1>1, <1>3 DEF FileInv, DirtyInv
<1>21. CallInv'
  <2>1. CASE step = "remove"
    BY <1>1, <1>3, <1>4, <1>6, <1>8, <1>11, <2>1 DEF CallInv, Opening, WriteSteps, ReadSteps, SeekSteps, Chaining
  <2>2. CASE step = "replace"
    BY <1>1, <1>3, <1>4, <1>6, <1>8, <1>11, <1>20, <2>2 DEF CallInv, Opening, WriteSteps, ReadSteps, SeekSteps, Chaining
  <2> QED
    BY <2>1, <2>2
<1>22. FileInv(f, ch[f])'
  <2>1. UnusedInv(f)' /\ DirtyInv(f)' /\ RoomInv(f, ch[f])'
    BY <1>1, <1>3, <1>4, <1>20 DEF FileInv, UnusedInv, DirtyInv, RoomInv
  <2>2. PlaceInv(f, ch[f])' /\ EntryInv(f)'
    BY <1>3 DEF PlaceInv, EntryInv
  <2> QED
    BY <2>1, <2>2 DEF FileInv
<1>23. ProgressInv(c2[f])'
  <2>1. step' \in {"remove", "replace", "flush", "opened"}
    OBVIOUS
  <2> QED
    BY <2>1 DEF ProgressInv, LeftInv, ReadInv, SectorInv, SeekInv, LinkInv, GotInv, ChainInv, ReadSteps, Chaining
<1>24. (~ Idle => cur.call.f = f) /\ (~ Idle' => cur'.call.f = f) /\ (~ Idle' => ProgressInv(c2[f])') /\ FileInv(f, c2[f])'
  BY <1>1, <1>11, <1>15, <1>22, <1>23
<1>25. step' \in Steppings
  BY DEF Steppings
<1> QED
  BY <1>1, <1>9, <1>11, <1>12, <1>15, <1>16, <1>18, <1>19, <1>21, <1>24, <1>25, Conclude

LEMMA RemoveKeeps ==
  ASSUME FatInv, NEW f \in Names, NEW ch \in Families, Now(f, ch), remove_chain
  PROVE  FatInv'
<1>1. step \in {"remove", "replace"} /\ UNCHANGED <<lastClust, fil, historyVars>>
  BY DEF remove_chain
<1>2. PICK c : c = cur.clust
  OBVIOUS
<1>3. fat[c] # 0
  <2>1. /\ FatInvOf(ch) /\ ~ Idle /\ CallInv /\ Chains(fat, Heads, ch)
    BY DEF Now, FatInv, FatInvOf
  <2>2. c # 0 /\ Orphan = c
    BY <1>1, <1>2, <2>1 DEF CallInv, Orphan
  <2>3. Orphan = Heads[Nobody] /\ DOMAIN Heads = Owners /\ Nobody \in Owners
    BY HeadsFacts
  <2>4. /\ \A i \in 1 .. Len(ch[Nobody]) : ch[Nobody][i] \in Clusters /\ ch[Nobody][i] # Root /\ fat[ch[Nobody][i]] # 0
    BY <2>1, <2>3, FamilyFacts
  <2>5. /\ IsChain(fat, Orphan, ch[Nobody]) /\ Len(ch[Nobody]) \in Nat
        /\ \A i \in 1 .. Len(ch[Nobody]) : ch[Nobody][i] \in Clusters
        /\ Orphan = 0 <=> ch[Nobody] = <<>>
        /\ ch[Nobody] = <<>> <=> Len(ch[Nobody]) = 0
        /\ ch[Nobody] # <<>> => Orphan = ch[Nobody][1]
    BY <2>1, NobodyFacts
  <2>6. 1 \in 1 .. Len(ch[Nobody]) /\ c = ch[Nobody][1]
    BY <2>2, <2>5
  <2> QED
    BY <2>4, <2>6
<1>4. ASSUME NEW z, RemoveCluster(z)
      PROVE  /\ put_fat(c, 0) /\ FreeMore(1) /\ cur' = [cur EXCEPT !.clust = fat[c]]
             /\ step' = IF fat[c] \in Clusters THEN step ELSE z
  BY <1>2, <1>3, <1>4 DEF RemoveCluster, Go
<1>5. CASE step = "remove" /\ RemoveCluster("flush")
  BY <1>1, <1>2, <1>4, <1>5, RemoveStep
<1>6. CASE step = "replace" /\ RemoveCluster("opened")
  BY <1>1, <1>2, <1>4, <1>6, RemoveStep
<1> QED
  BY <1>5, <1>6 DEF remove_chain

-----------------------------------------------------------------------------
(* Between calls.                                                          *)

-----------------------------------------------------------------------------
(* No file changes, and no call goes on.                                   *)
LEMMA StillStep ==
  ASSUME FatInv, UNCHANGED <<fil, step, cur, fatCalls, restarts, lastClust>>, fsiFlag' \in BOOLEAN,
         WInv', DiskStep, disk'.free = disk.free, fat' = fat, dir' = dir,
         freeClust' = freeClust \/ (Idle /\ freeClust' = Cardinality(Free))
  PROVE  FatInv'
<1>1. TypesW /\ TypesF /\ WInv /\ DiskInv /\ CallInv /\ CountInv /\ Types
  BY DEF FatInv, Types
<1>2. PICK ch \in Families : FatInvOf(ch)
  BY DEF FatInv, Families
<1>3. Cardinality(Free) \in Nat /\ Loose \in {0, 1} /\ Free' = Free /\ Loose' = Loose /\ (Idle => Loose = 0)
  BY <1>1, FreeFacts DEF Free, Loose, WInv, Idle
<1>4. restarts \in Nat /\ LastCluster - 1 \in Nat /\ freeClust \in Int
  BY <1>1, FatConstants, FatAssumption DEF Types, TypesN, TypesC
<1>5. PICK r : r = restarts * (LastCluster - 1)
  OBVIOUS
<1>6. r \in Nat
  BY <1>4, <1>5, SMT
<1>7. CountInv'
  <2>1. /\ freeClust >= Unknown /\ freeClust <= Cardinality(Free) + Loose + r
        /\ disk.free >= Unknown /\ disk.free <= (restarts + 1) * (LastCluster - 1)
    BY <1>1, <1>5 DEF CountInv
  <2>2. freeClust' >= Unknown /\ freeClust' <= Cardinality(Free) + Loose + r
    BY <1>3, <1>4, <1>6, <2>1 DEF Unknown
  <2> QED
    BY <1>3, <1>5, <2>1, <2>2 DEF CountInv
<1>8. Types'
  <2>1. freeClust' \in Int
    BY <1>3, <1>4
  <2>2. TypesF' /\ TypesN' /\ TypesC'
    BY <1>1, <2>1 DEF Types, TypesF, TypesN, TypesC
  <2> QED
    BY <1>1, <2>2 DEF Types, WInv
<1>9. DiskInv'
  BY <1>1, <1>2, DiskKept
<1>10. CallInv'
  BY <1>1 DEF CallInv, Idle, File
<1>11. Heads' = Heads
  BY DEF Heads, FirstOf, Orphan, File
<1>12. \A g \in Names : FileInv(g, ch[g])'
  <2>1. SUFFICES ASSUME NEW g \in Names, FileInv(g, ch[g]) PROVE FileInv(g, ch[g])'
    BY <1>2 DEF FatInvOf
  <2>2. PosInv(g, ch[g]) => PosInv(g, ch[g])'
    BY DEF PosInv, Busy, Idle, Ahead, Behind
  <2>3. UnusedInv(g)' /\ DirtyInv(g)' /\ RoomInv(g, ch[g])' /\ EntryInv(g)'
    BY <2>1 DEF FileInv, UnusedInv, DirtyInv, RoomInv, EntryInv, Busy, Idle
  <2>4. PlaceInv(g, ch[g])'
    BY <2>1, <2>2 DEF FileInv, PlaceInv, Busy, Idle
  <2> QED
    BY <2>3, <2>4 DEF FileInv
<1>13. ~ Idle' => ProgressInv(ch[cur.call.f])'
  <2> DEFINE s == ch[cur.call.f]
  <2>1. SUFFICES ASSUME ~ Idle PROVE ProgressInv(s)'
    BY DEF Idle
  <2>2. ProgressInv(s)
    BY <1>2, <2>1 DEF FatInvOf
  <2>3. s' = s
    OBVIOUS
  <2> HIDE DEF s
  <2>4. LeftInv' /\ ReadInv' /\ SectorInv' /\ SeekInv'
    BY <2>2 DEF ProgressInv, LeftInv, ReadInv, SectorInv, SeekInv, File, AtSector, AtEdge
  <2>5. ChainInv(s)' /\ LinkInv(s)' /\ GotInv(s)'
    BY <2>2, <2>3 DEF ProgressInv, ChainInv, LinkInv, GotInv, File, AtEdge
  <2> QED
    BY <2>4, <2>5 DEF ProgressInv
<1>14. AccountInv(ch)'
  <2>1. AccountInv(ch)
    BY <1>2 DEF FatInvOf
  <2>2. freeClust = Cardinality(Free) + Loose => freeClust' = Cardinality(Free) + Loose
    BY <1>3
  <2> QED
    BY <1>3, <2>1, <2>2 DEF AccountInv, Owned
<1>15. FatInvOf(ch)'
  <2>1. Chains(fat', Heads', ch)
    BY <1>2, <1>11 DEF FatInvOf
  <2> QED
    BY <1>12, <1>13, <1>14, <2>1 DEF FatInvOf
<1> QED
  BY <1>7, <1>8, <1>9, <1>10, <1>15 DEF FatInv, Families

(* f_getfree() takes the count anew.                                       *)
LEMMA CountKeeps ==
  ASSUME FatInv, f_getfree
  PROVE  FatInv'
<1>1. /\ Idle /\ UNCHANGED <<fil, step, cur, fatCalls, restarts, lastClust>> /\ fsiFlag' \in BOOLEAN
      /\ freeClust' = Cardinality(Free) /\ step' # "fsinfo"
  BY DEF f_getfree, callVars, historyVars, Free, Idle
<1>2. LastCluster \in Clusters
  BY FatConstants DEF Clusters
<1>3. FatSector(LastCluster) \in Sectors /\ FatSector(LastCluster) \in {FatSector(c) : c \in Clusters}
  BY <1>2, SectorFacts
<1>4. Quiet
  BY <1>1, <1>3, QuietRead DEF f_getfree
<1> QED
  BY <1>1, <1>4, StillStep DEF Quiet

LEMMA StutterKeeps ==
  ASSUME FatInv, UNCHANGED fatVars
  PROVE  FatInv'
<1>1. /\ UNCHANGED <<fil, step, cur, fatCalls, restarts, lastClust>> /\ fsiFlag' = fsiFlag /\ freeClust' = freeClust
      /\ fat' = fat /\ dir' = dir /\ disk' = disk /\ winsect' = winsect /\ wflag' = wflag
  BY DEF fatVars, windowVars, fsiVars, callVars, historyVars
<1>2. WInv /\ fsiFlag \in BOOLEAN
  BY DEF FatInv, Types, TypesC
<1>3. TypesW' /\ WindowInv'
  BY <1>1, <1>2 DEF WInv, TypesW, WindowInv
<1>4. WInv' /\ DiskStep
  BY <1>1, <1>2, <1>3 DEF WInv, DiskStep
<1> QED
  BY <1>1, <1>2, <1>4, StillStep

(* The power fails: the chains are those of the disk.                      *)
LEMMA RestartKeeps ==
  ASSUME FatInv, Restart
  PROVE  FatInv'
<1>1. /\ restarts' = restarts + 1 /\ fat' = disk.fat /\ dir' = disk.dir /\ freeClust' = disk.free /\ lastClust' = disk.last
      /\ fsiFlag' = FALSE /\ winsect' = InfoSector /\ wflag' = FALSE
      /\ fil' = [f \in Names |-> Closed] /\ step' = "rest" /\ cur' = NoLocals /\ disk' = disk /\ fatCalls' = fatCalls
      /\ restarts < MaxRestarts
  BY DEF Restart
<1>2. TypesW /\ WInv /\ DiskInv /\ CountInv /\ Types
  BY DEF FatInv, WInv
<1>3. /\ disk.fat \in Tables /\ disk.dir \in [Names -> DirEntries] /\ disk.free \in Int /\ disk.last \in 1 .. LastCluster
      /\ disk \in [fat : Tables, dir : [Names -> DirEntries], free : Int, last : 1 .. LastCluster]
  <2> HIDE DEF Tables, DirEntries
  <2> QED
    BY <1>2 DEF TypesW
<1>4. restarts \in Nat /\ restarts + 1 \in 0 .. MaxRestarts /\ LastCluster - 1 \in Nat
  BY <1>1, <1>2, FatConstants, FatAssumption DEF Types, TypesN
<1>5. TypesW' /\ WInv'
  <2>1. TypesW'
    BY <1>1, <1>3, SectorFacts DEF TypesW
  <2>2. WindowInv'
    BY <1>1 DEF WindowInv
  <2> QED
    BY <1>1, <1>2, <2>1, <2>2 DEF WInv
<1>6. /\ CurType(cur') /\ CallInv' /\ Idle' /\ step' \in Steppings /\ Orphan' = 0 /\ Loose' = 0
  BY <1>1, NoLocalsFacts DEF Locals, CallInv, Idle, Steppings, Orphan, Loose
<1>7. \A f \in Names : /\ FilType(fil'[f]) /\ fil'[f].open = FALSE /\ fil'[f].dirty = FALSE
  <2>1. Fields(Closed, FALSE, FALSE, FALSE, FALSE, 0, 0, 0, 0)
    BY SetOpen, FatConstants DEF Starts
  <2> QED
    BY <1>1, <2>1 DEF Fields
<1>8. Types'
  <2>1. TypesF' /\ TypesN' /\ TypesC'
    BY <1>1, <1>2, <1>3, <1>4, <1>7 DEF Types, TypesF, TypesN, TypesC
  <2> QED
    BY <1>5, <1>6, <2>1 DEF Types
<1>9. DiskInv'
  BY <1>1, <1>2 DEF DiskInv
<1>10. CountInv'
  <2>1. PICK r : r = restarts * (LastCluster - 1)
    OBVIOUS
  <2>2. r \in Nat /\ (restarts + 1) * (LastCluster - 1) = r + (LastCluster - 1)
        /\ (restarts + 1 + 1) * (LastCluster - 1) = r + (LastCluster - 1) + (LastCluster - 1)
    BY <1>4, <2>1, SMT
  <2>3. disk.free >= Unknown /\ disk.free <= r + (LastCluster - 1)
    BY <1>2, <2>2 DEF CountInv
  <2>4. Cardinality(Free)' \in Nat
    <3>1. IsFiniteSet(Clusters) /\ Free' \subseteq Clusters
      BY ClustersFinite DEF Free
    <3> QED
      BY <3>1, FS_Subset, FS_CardinalityType
  <2>5. PICK n : n = Cardinality(Free)'
    OBVIOUS
  <2>6. disk.free <= n + 0 + (r + (LastCluster - 1)) /\ disk.free <= r + (LastCluster - 1) + (LastCluster - 1)
    BY <1>3, <1>4, <2>2, <2>3, <2>4, <2>5, SMT
  <2> QED
    BY <1>1, <1>6, <2>2, <2>3, <2>5, <2>6 DEF CountInv
<1>11. PICK cd \in [Names -> Seq(Clusters)] :
         /\ Chains(disk.fat, HeadsOf(disk.dir), cd)
         /\ \A f \in Names : disk.dir[f].size <= Len(cd[f]) * ClusterUnits
  BY <1>2 DEF DiskInv
<1> DEFINE c2 == [o \in Owners |-> IF o = Nobody THEN <<>> ELSE cd[o]]
<1>12. c2 \in Families /\ c2[Nobody] = <<>> /\ \A f \in Names : c2[f] = cd[f]
  <2>1. <<>> \in Seq(Clusters)
    BY EmptySeq
  <2>2. \A o \in Owners : o # Nobody => o \in Names
    BY DEF Owners
  <2> QED
    BY <1>11, <2>1, <2>2, HeadsFacts DEF Families
<1> HIDE DEF c2
<1>13. Chains(fat', Heads', c2)
  <2>1. DOMAIN Heads' = Owners /\ Heads'[Nobody] = Orphan' /\ \A f \in Names : Heads'[f] = Lead(f)'
    BY HeadsNext
  <2>2. Heads'[Nobody] = 0 /\ \A f \in Names : Heads'[f] = HeadsOf(disk.dir)[f]
    BY <1>1, <1>6, <1>7, <2>1 DEF Lead, HeadsOf
  <2>3. DOMAIN HeadsOf(disk.dir) = Names
    BY DEF HeadsOf
  <2>4. IsChain(fat', 0, <<>>) /\ \A i \in 1 .. Len(<<>>) : FALSE
    <3>1. Len(<<>>) = 0 /\ \A i \in 1 .. 0 : FALSE
      BY EmptySeq
    <3> QED
      BY <3>1, ChainNone
  <2>5. ASSUME NEW o \in Owners
        PROVE  IsChain(fat', Heads'[o], c2[o]) /\ \A i \in 1 .. Len(c2[o]) : c2[o][i] # Root
    <3>1. CASE o = Nobody
      BY <1>12, <2>2, <2>4, <3>1
    <3>2. CASE o # Nobody
      <4>1. o \in Names
        BY <3>2 DEF Owners
      <4> QED
        BY <1>1, <1>11, <1>12, <2>2, <2>3, <4>1 DEF Chains
    <3> QED
      BY <3>1, <3>2
  <2>6. ASSUME NEW o \in Owners, NEW q \in Owners, o # q
        PROVE  Apart(c2[o], c2[q])
    <3>1. CASE o = Nobody \/ q = Nobody
      BY <1>12, <2>4, <3>1 DEF Apart
    <3>2. CASE o # Nobody /\ q # Nobody
      <4>1. o \in Names /\ q \in Names
        BY <3>2 DEF Owners
      <4> QED
        BY <1>11, <1>12, <2>3, <2>6, <4>1 DEF Chains
    <3> QED
      BY <3>1, <3>2
  <2> QED
    BY <2>1, <2>5, <2>6 DEF Chains
<1>14. ASSUME NEW f \in Names PROVE FileInv(f, c2[f])'
  <2>1. dir'[f] \in DirEntries /\ dir'[f].size <= Len(c2[f]) * ClusterUnits
    BY <1>1, <1>3, <1>11, <1>12
  <2>2. UnusedInv(f)' /\ DirtyInv(f)' /\ RoomInv(f, c2[f])'
    BY <1>7, <2>1 DEF UnusedInv, DirtyInv, RoomInv, DirEntries
  <2>3. PlaceInv(f, c2[f])' /\ EntryInv(f)'
    BY <1>7 DEF PlaceInv, EntryInv
  <2> QED
    BY <2>2, <2>3 DEF FileInv
<1>15. AccountInv(c2)'
  BY <1>1, <1>4 DEF AccountInv
<1>16. FatInvOf(c2)'
  BY <1>6, <1>13, <1>14, <1>15 DEF FatInvOf
<1> QED
  BY <1>5, <1>6, <1>8, <1>9, <1>10, <1>12, <1>16 DEF FatInv, Families

-----------------------------------------------------------------------------
(* The theorems.                                                           *)

LEMMA FatInitHolds ==
  ASSUME FatInit
  PROVE  FatInv
<1>1. /\ fat = [c \in Clusters |-> IF c = Root THEN LastLink ELSE 0] /\ dir = [f \in Names |-> NoEntry]
      /\ freeClust = LastCluster - Root /\ lastClust = Root /\ fsiFlag = FALSE
      /\ disk = [fat |-> fat, dir |-> dir, free |-> freeClust, last |-> lastClust]
      /\ winsect = InfoSector /\ wflag = FALSE /\ fil = [f \in Names |-> Closed]
      /\ step = "rest" /\ cur = NoLocals /\ fatCalls = 0 /\ restarts = 0
  BY DEF FatInit
<1>2. /\ LastCluster \in Nat /\ LastCluster >= 3 /\ Root \in Clusters /\ Root = 2 /\ LastLink # 0
      /\ MaxFatCalls \in Nat /\ MaxRestarts \in Nat
  BY FatConstants, FatAssumption DEF Root
<1>3. fat \in Tables /\ fat[Root] # 0 /\ dir \in [Names -> DirEntries] /\ freeClust \in Int /\ lastClust \in 1 .. LastCluster
  <2>1. fat \in Tables /\ fat[Root] # 0
    BY <1>1, <1>2 DEF Tables
  <2>2. freeClust \in Int /\ lastClust \in 1 .. LastCluster
    BY <1>1, <1>2
  <2> QED
    BY <1>1, <2>1, <2>2, NewEntry
<1>4. /\ disk.fat = fat /\ disk.dir = dir /\ disk.free = freeClust
      /\ disk \in [fat : Tables, dir : [Names -> DirEntries], free : Int, last : 1 .. LastCluster]
  <2> HIDE DEF Tables, DirEntries
  <2> QED
    BY <1>1, <1>3
<1>5. TypesW /\ WInv
  <2>1. TypesW
    BY <1>1, <1>3, <1>4, SectorFacts DEF TypesW
  <2> QED
    BY <1>1, <1>3, <1>4, <2>1 DEF WInv, WindowInv
<1>6. /\ CurType(cur) /\ CallInv /\ Idle /\ step \in Steppings /\ Orphan = 0 /\ Loose = 0
  BY <1>1, NoLocalsFacts DEF Locals, CallInv, Idle, Steppings, Orphan, Loose
<1>7. \A f \in Names : /\ FilType(fil[f]) /\ fil[f].open = FALSE /\ fil[f].dirty = FALSE
  <2>1. Fields(Closed, FALSE, FALSE, FALSE, FALSE, 0, 0, 0, 0)
    BY SetOpen, FatConstants DEF Starts
  <2> QED
    BY <1>1, <2>1 DEF Fields
<1>8. Types
  <2>1. TypesF
    BY <1>1, <1>7 DEF TypesF
  <2>2. TypesN
    BY <1>1, <1>2 DEF TypesN
  <2>3. TypesC
    BY <1>1, <1>3 DEF TypesC
  <2> QED
    BY <1>5, <1>6, <2>1, <2>2, <2>3 DEF Types
<1>9. Cardinality(Free) = LastCluster - 2 /\ freeClust = Cardinality(Free) + Loose /\ freeClust \in Nat
  <2>1. Free = Clusters \ {Root}
    BY <1>1, <1>2 DEF Free
  <2>2. IsFiniteSet(Clusters) /\ Cardinality(Clusters) = LastCluster - 1
    BY ClustersFinite
  <2>3. Cardinality(Clusters \ {Root}) = Cardinality(Clusters) - 1
    BY <1>2, <2>2, FS_RemoveElement
  <2> QED
    BY <1>1, <1>2, <1>6, <2>1, <2>2, <2>3
<1>10. CountInv
  <2>1. 0 * (LastCluster - 1) = 0 /\ (0 + 1) * (LastCluster - 1) = LastCluster - 1
    BY <1>2
  <2> QED
    BY <1>1, <1>2, <1>4, <1>6, <1>9, <2>1 DEF CountInv, Unknown
<1>11. Len(<<>>) = 0 /\ <<>> \in Seq(Clusters) /\ (\A i \in 1 .. 0 : FALSE) /\ 0 * ClusterUnits = 0
  BY EmptySeq, FatConstants
<1>12. \A t, g, x : DOMAIN g = x /\ (\A o \in x : g[o] = 0) => Chains(t, g, [o \in x |-> <<>>])
  BY <1>11, ChainNone DEF Chains, Apart
<1>13. DiskInv
  <2> DEFINE cd == [f \in Names |-> <<>>]
  <2>1. cd \in [Names -> Seq(Clusters)]
    BY <1>11
  <2>2. DOMAIN HeadsOf(disk.dir) = Names /\ \A f \in Names : HeadsOf(disk.dir)[f] = 0
    BY <1>1, <1>4, NewEntry DEF HeadsOf
  <2>3. Chains(disk.fat, HeadsOf(disk.dir), cd)
    BY <1>12, <2>2
  <2>4. \A f \in Names : disk.dir[f].size <= Len(cd[f]) * ClusterUnits
    BY <1>1, <1>4, <1>11, NewEntry
  <2> QED
    BY <2>1, <2>3, <2>4 DEF DiskInv
<1> DEFINE c0 == [o \in Owners |-> <<>>]
<1>14. c0 \in Families /\ \A o \in Owners : c0[o] = <<>>
  BY <1>11 DEF Families
<1>15. Chains(fat, Heads, c0)
  <2>1. DOMAIN Heads = Owners /\ Heads[Nobody] = Orphan /\ \A f \in Names : Heads[f] = Lead(f)
    BY HeadsFacts
  <2>2. \A f \in Names : Lead(f) = 0
    BY <1>1, <1>7, NewEntry DEF Lead
  <2>3. \A o \in Owners : Heads[o] = 0
    BY <1>6, <2>1, <2>2 DEF Owners
  <2> QED
    BY <1>12, <2>1, <2>3
<1> HIDE DEF c0
<1>16. ASSUME NEW f \in Names PROVE FileInv(f, c0[f])
  <2>1. dir[f] = NoEntry /\ NoEntry.size <= Len(c0[f]) * ClusterUnits
    BY <1>1, <1>11, <1>14, NewEntry DEF Owners
  <2>2. UnusedInv(f) /\ DirtyInv(f) /\ RoomInv(f, c0[f])
    BY <1>7, <2>1 DEF UnusedInv, DirtyInv, RoomInv
  <2>3. PlaceInv(f, c0[f]) /\ EntryInv(f)
    BY <1>7 DEF PlaceInv, EntryInv
  <2> QED
    BY <2>2, <2>3 DEF FileInv
<1>17. AccountInv(c0)
  <2>1. \A c \in Clusters : fat[c] # 0 <=> c = Root
    BY <1>1, <1>2
  <2>2. Owned(fat, c0)
    BY <1>11, <1>14, <2>1 DEF Owned
  <2> QED
    BY <1>9, <2>2 DEF AccountInv
<1>18. FatInvOf(c0)
  BY <1>6, <1>15, <1>16, <1>17 DEF FatInvOf
<1> QED
  BY <1>5, <1>6, <1>8, <1>10, <1>13, <1>14, <1>18 DEF FatInv, Families

LEMMA StepsKeep ==
  ASSUME FatInv, Steps
  PROVE  FatInv'
<1>1. ~ Idle
  <2>1. step # "rest"
    BY DEF Steps, f_open, OpenReplaced, remove_chain, f_unlink, Follow, NewCluster, LinkCluster,
           WriteChunk, WriteGot, WriteStore, WriteFit, f_write, ReadChunk, ReadFetch, ReadPick, f_read,
           SeekStart, SeekFollow, SeekGot, SeekFill, f_lseek, SyncBuffer, SyncEntry, SyncWindow, sync_fs, Ends
  <2> QED
    BY <2>1 DEF Idle
<1>2. PICK f \in Names, ch \in Families : Now(f, ch)
  BY <1>1, InCall
<1>3. CASE f_open \/ OpenReplaced \/ remove_chain \/ f_unlink
  BY <1>2, <1>3, OpenKeeps, OpenReplacedKeeps, RemoveKeeps, UnlinkKeeps
<1>4. CASE Follow \/ NewCluster \/ LinkCluster
  BY <1>2, <1>4, FollowKeeps, NewClusterKeeps, LinkClusterKeeps
<1>5. CASE WriteChunk \/ WriteGot \/ WriteStore \/ WriteFit \/ f_write
  BY <1>2, <1>5, WriteChunkKeeps, WriteGotKeeps, WriteStoreKeeps, WriteFitKeeps, WriteKeeps
<1>6. CASE ReadChunk \/ ReadFetch \/ ReadPick \/ f_read
  BY <1>2, <1>6, ReadChunkKeeps, ReadFetchKeeps, ReadPickKeeps, ReadKeeps
<1>7. CASE SeekStart \/ SeekFollow \/ SeekGot \/ SeekFill \/ f_lseek
  BY <1>2, <1>7, SeekStartKeeps, SeekFollowKeeps, SeekGotKeeps, SeekFillKeeps, SeekKeeps
<1>8. CASE SyncBuffer \/ SyncEntry \/ SyncWindow \/ sync_fs
  BY <1>2, <1>8, SyncBufferKeeps, SyncEntryKeeps, SyncWindowKeeps, SyncKeeps
<1> QED
  BY <1>3, <1>4, <1>5, <1>6, <1>7, <1>8 DEF Steps

LEMMA FatNextKeeps ==
  ASSUME FatInv, [FatNext]_fatVars
  PROVE  FatInv'
BY CallsKeep, StepsKeep, CountKeeps, RestartKeeps, StutterKeeps DEF FatNext

(* The chains of the files, of what is being unlinked or linked, the window *)
(* and the disk, the position of every file and the progress of the call,  *)
(* for any files, sizes of sectors and clusters, and any power failures.   *)
THEOREM VolumeInvariance == FatSpec => []FatInv
<1>1. FatInit => FatInv
  BY FatInitHolds
<1>2. FatInv /\ [FatNext]_fatVars => FatInv'
  BY FatNextKeeps
<1> QED
  BY <1>1, <1>2, PTL DEF FatSpec

LEMMA InvIsSound ==
  ASSUME FatInv
  PROVE  VolumeIsSound
<1>1. TypesW /\ TypesF /\ DiskInv
  BY DEF FatInv, Types
<1>2. PICK ch \in Families : FatInvOf(ch)
  BY DEF FatInv, Families
<1>3. DiskIsSound
  <2>1. PICK cd \in [Names -> Seq(Clusters)] :
          /\ Chains(disk.fat, HeadsOf(disk.dir), cd)
          /\ \A f \in Names : disk.dir[f].size <= Len(cd[f]) * ClusterUnits
    BY <1>1 DEF DiskInv
  <2> DEFINE names == Used(disk.dir)
             first == [f \in names |-> disk.dir[f].first]
             size  == [f \in names |-> disk.dir[f].size]
  <2>2. names \subseteq Names /\ DOMAIN HeadsOf(disk.dir) = Names
    BY DEF Used, HeadsOf
  <2>3. disk.dir \in [Names -> DirEntries]
    <3> HIDE DEF DirEntries
    <3> QED
      BY <1>1 DEF TypesW
  <2>4. \A f \in names : first[f] = HeadsOf(disk.dir)[f] /\ size[f] \in Nat /\ size[f] <= Len(cd[f]) * ClusterUnits
    BY <2>1, <2>2, <2>3 DEF HeadsOf, DirEntries
  <2>5. Sound(disk.fat, first, size, names)
    <3> HIDE DEF names, first, size
    <3> QED
      BY <2>1, <2>2, <2>4, ChainsAreSound
  <2> QED
    BY <2>5 DEF DiskIsSound
<1>4. \A f \in Names : /\ FirstOf[f] = Lead(f) /\ FirstOf[f] = Heads[f] /\ SizeOf[f] \in Nat
                       /\ SizeOf[f] <= Len(ch[f]) * ClusterUnits
  <2>1. SUFFICES ASSUME NEW f \in Names
                 PROVE  /\ FirstOf[f] = Lead(f) /\ FirstOf[f] = Heads[f] /\ SizeOf[f] \in Nat
                        /\ SizeOf[f] <= Len(ch[f]) * ClusterUnits
    OBVIOUS
  <2>2. FirstOf[f] = Lead(f) /\ Lead(f) = Heads[f]
    BY HeadsFacts DEF FirstOf, Lead
  <2>3. dir[f] \in DirEntries /\ fil[f].fsize \in Nat
    BY <1>1 DEF TypesW, TypesF, FilType
  <2>4. dir[f].size \in Nat
    BY <2>3 DEF DirEntries
  <2>5. RoomInv(f, ch[f])
    BY <1>2 DEF FatInvOf, FileInv
  <2> QED
    BY <2>2, <2>3, <2>4, <2>5 DEF RoomInv, SizeOf
<1>5. ImageIsSound
  <2>1. Chains(fat, Heads, ch) /\ DOMAIN Heads = Owners /\ Used(dir) \subseteq Names /\ Names \subseteq Owners
    BY <1>2, HeadsFacts DEF FatInvOf, Used
  <2>2. Sound(fat, FirstOf, SizeOf, Used(dir))
    BY <1>4, <2>1, ChainsAreSound
  <2> QED
    BY <2>2 DEF ImageIsSound
<1>6. NothingLost
  <2>1. SUFFICES ASSUME Idle, restarts = 0
                 PROVE  /\ Allocated = {Root} \cup UNION {ChainOf(fat, FirstOf[f]) : f \in Used(dir)}
                        /\ freeClust = Cardinality(Clusters \ Allocated)
    BY DEF NothingLost
  <2>2. Owned(fat, ch) /\ freeClust = Cardinality(Free) + Loose
    BY <1>2, <2>1 DEF FatInvOf, AccountInv
  <2>3. Loose = 0 /\ Orphan = 0
    BY <2>1 DEF Idle, Loose, Orphan
  <2>4. ch[Nobody] = <<>> /\ Len(ch[Nobody]) = 0
    <3>1. /\ IsChain(fat, Orphan, ch[Nobody]) /\ Len(ch[Nobody]) \in Nat
          /\ \A i \in 1 .. Len(ch[Nobody]) : ch[Nobody][i] \in Clusters
          /\ Orphan = 0 <=> ch[Nobody] = <<>>
          /\ ch[Nobody] = <<>> <=> Len(ch[Nobody]) = 0
          /\ ch[Nobody] # <<>> => Orphan = ch[Nobody][1]
      BY <1>2, NobodyFacts
    <3> QED
      BY <2>3, <3>1
  <2>5. ASSUME NEW f \in Names
        PROVE  /\ IsChain(fat, FirstOf[f], ch[f])
               /\ f \notin Used(dir) => Len(ch[f]) = 0
    <3>1. /\ IsChain(fat, Lead(f), ch[f]) /\ Len(ch[f]) \in Nat /\ ch[f] \in Seq(Clusters)
          /\ \A i \in 1 .. Len(ch[f]) : ch[f][i] \in Clusters /\ ch[f][i] # Root /\ fat[ch[f][i]] # 0
          /\ Lead(f) = 0 <=> ch[f] = <<>>
          /\ ch[f] = <<>> <=> Len(ch[f]) = 0
          /\ ch[f] # <<>> => /\ 1 \in 1 .. Len(ch[f]) /\ Len(ch[f]) \in 1 .. Len(ch[f])
                             /\ Lead(f) = ch[f][1] /\ Lead(f) \in Clusters
      BY <1>2, FileFacts
    <3>2. UnusedInv(f)
      BY <1>2 DEF FatInvOf, FileInv
    <3>3. f \notin Used(dir) => Lead(f) = 0
      BY <3>2, NewEntry DEF UnusedInv, Used, Lead
    <3> QED
      BY <1>4, <3>1, <3>3
  <2>6. ASSUME NEW c \in Clusters
        PROVE  fat[c] # 0 <=> c = Root \/ \E f \in Used(dir) : c \in ChainOf(fat, FirstOf[f])
    <3>1. fat[c] # 0 <=> c = Root \/ \E o \in Owners : \E i \in 1 .. Len(ch[o]) : ch[o][i] = c
      BY <2>2 DEF Owned
    <3>2. \A f \in Names : c \in ChainOf(fat, FirstOf[f]) <=> \E i \in 1 .. Len(ch[f]) : ch[f][i] = c
      BY <2>5, ChainOfIs
    <3>3. \A o \in Owners : (\E i \in 1 .. Len(ch[o]) : ch[o][i] = c) => o \in Used(dir)
      <4>1. \A i \in 1 .. 0 : FALSE
        BY SMT
      <4> QED
        BY <2>4, <2>5, <4>1 DEF Owners
    <3> QED
      BY <3>1, <3>2, <3>3 DEF Used, Owners
  <2>7. \A f \in Names : ChainOf(fat, FirstOf[f]) \subseteq Clusters
    BY DEF ChainOf
  <2>8. Allocated = {Root} \cup UNION {ChainOf(fat, FirstOf[f]) : f \in Used(dir)}
    <3>1. Root \in Clusters /\ Used(dir) \subseteq Names
      BY FatConstants DEF Used
    <3> QED
      BY <2>6, <2>7, <3>1 DEF Allocated
  <2>9. Clusters \ Allocated = Free
    BY DEF Allocated, Free
  <2>10. Cardinality(Free) \in Nat
    BY FreeFacts DEF FatInv, WInv
  <2>11. freeClust = Cardinality(Free)
    BY <2>2, <2>3, <2>10
  <2>12. freeClust = Cardinality(Clusters \ Allocated)
    BY <2>9, <2>11
  <2> QED
    BY <2>8, <2>12
<1> QED
  BY <1>3, <1>5, <1>6 DEF VolumeIsSound

(* At every moment of every call, a power failure would leave chains that  *)
(* end, are long enough for their files and share no cluster; and between  *)
(* calls, until the power fails, no cluster is lost.                       *)
THEOREM VolumeAlwaysSound == FatSpec => []VolumeIsSound
BY VolumeInvariance, InvIsSound, PTL

LEMMA InvIsTyped ==
  ASSUME FatInv
  PROVE  FatTypeOK
<1>1. TypesW /\ Types /\ CountInv /\ fat[Root] # 0
  BY DEF FatInv, WInv
<1>2. fat \in Tables /\ disk.fat \in Tables
  <2> HIDE DEF Tables, DirEntries
  <2> QED
    BY <1>1 DEF TypesW
<1>3. freeClust \in Unknown .. LastCluster * (MaxRestarts + 1)
  <2>1. /\ freeClust \in Int /\ restarts \in 0 .. MaxRestarts /\ MaxRestarts \in Nat
        /\ LastCluster - 1 \in Nat /\ LastCluster \in Nat
    BY <1>1, FatConstants, FatAssumption DEF Types, TypesC, TypesN
  <2>2. freeClust >= Unknown /\ freeClust <= Cardinality(Free) + Loose + restarts * (LastCluster - 1)
    BY <1>1 DEF CountInv
  <2>3. Cardinality(Free) + Loose <= LastCluster - 1 /\ Cardinality(Free) + Loose \in Nat
    BY <1>1, FreeFacts
  <2>4. restarts * (LastCluster - 1) <= MaxRestarts * (LastCluster - 1) /\ restarts * (LastCluster - 1) \in Nat
    BY <2>1, SMT
  <2>5. (LastCluster - 1) + MaxRestarts * (LastCluster - 1) <= LastCluster * (MaxRestarts + 1)
        /\ MaxRestarts * (LastCluster - 1) \in Nat /\ LastCluster * (MaxRestarts + 1) \in Nat
    BY <2>1, SMT
  <2>6. PICK a, b, d, e : /\ a = Cardinality(Free) + Loose /\ b = restarts * (LastCluster - 1)
                          /\ d = MaxRestarts * (LastCluster - 1) /\ e = LastCluster * (MaxRestarts + 1)
    OBVIOUS
  <2>7. freeClust <= a + b /\ a <= LastCluster - 1 /\ b <= d /\ (LastCluster - 1) + d <= e
        /\ a \in Nat /\ b \in Nat /\ d \in Nat /\ e \in Nat
    BY <2>2, <2>3, <2>4, <2>5, <2>6
  <2>8. freeClust <= e
    BY <2>1, <2>7
  <2> QED
    BY <2>1, <2>2, <2>6, <2>7, <2>8 DEF Unknown
<1>4. \A f \in Names : fil[f].dirty => fil[f].written \/ ~ Idle
  BY DEF FatInv, FatInvOf, FileInv, DirtyInv, Busy
<1>5. winsect \in Sectors /\ wflag \in BOOLEAN /\ fsiFlag \in BOOLEAN /\ lastClust \in 1 .. LastCluster
      /\ fatCalls \in 0 .. MaxFatCalls /\ restarts \in 0 .. MaxRestarts
  BY <1>1 DEF TypesW, Types, TypesC, TypesN
<1> QED
  BY <1>2, <1>3, <1>4, <1>5 DEF FatTypeOK, Tables, Sectors

(* The links, the window and the counts stay in their ranges, and a buffer *)
(* is dirty only if its file's entry is going to be written.               *)
THEOREM VolumeTyped == FatSpec => []FatTypeOK
BY VolumeInvariance, InvIsTyped, PTL

-----------------------------------------------------------------------------
(* The two parts together.                                                 *)

LEMMA StorageSteps ==
  ASSUME FlIInv, FatInv, [Next]_vars
  PROVE  FlIInv' /\ FatInv' /\ part' = part
<1>1. [FlNext]_flVars /\ [FatNext]_fatVars /\ part' = part
  BY DEF Next, vars
<1> QED
  BY <1>1, StepInv, FatNextKeeps

(* Every variable of the logger and of the volume has its type, for every  *)
(* value of the constants.                                                 *)
THEOREM StorageTyped == Spec => []StorageTypeOK
<1>1. Init => FlIInv /\ FatInv
  BY InitInv, FatInitHolds DEF Init
<1>2. FlIInv /\ FatInv /\ [Next]_vars => FlIInv' /\ FatInv'
  BY StorageSteps
<1>3. FlIInv /\ FatInv => StorageTypeOK
  BY InvIsTyped DEF StorageTypeOK, FlIInv
<1> QED
  BY <1>1, <1>2, <1>3, PTL DEF Spec

-----------------------------------------------------------------------------
(* The chain of each file, on the disk and as the calls see it.            *)

ChainFrom(table, first) == CHOOSE s : IsChain(table, first, s)
Line == [o \in Owners |-> ChainFrom(fat, Heads[o])]
DiskLine == [f \in Names |-> ChainFrom(disk.fat, disk.dir[f].first)]

(* A chain that only gets longer keeps its clusters.                       *)
LEMMA ChainGrows ==
  ASSUME NEW table, NEW first, NEW s, IsChain(table, first, s),
         NEW tab, NEW first2, NEW t, IsChain(tab, first2, t), s # <<>> => first2 = first,
         \A i \in 1 .. Len(s) : i < Len(s) => tab[s[i]] = table[s[i]]
  PROVE  Len(s) <= Len(t) /\ \A i \in 1 .. Len(s) : t[i] = s[i]
<1>1. Len(s) \in Nat /\ \A i \in 1 .. Len(s) : s[i] \in Clusters
  BY ChainFacts
<1>2. Len(t) \in Nat /\ \A i \in 1 .. Len(t) : t[i] \in Clusters
  BY ChainFacts
<1> DEFINE Bad == {i \in 1 .. Len(s) : ~ (i <= Len(t) /\ t[i] = s[i])}
<1>3. ASSUME NEW k \in Bad PROVE FALSE
  <2>1. Bad \subseteq Nat
    BY <1>1, SMT
  <2>2. PICK m \in Bad : \A j \in Bad : ~ (<<j, m>> \in OpToRel(<, Nat))
    <3>1. IsWellFoundedOn(OpToRel(<, Nat), Nat)
      BY NatLessThanWellFounded
    <3> HIDE DEF Bad
    <3> QED
      BY <1>3, <2>1, <3>1, WFMin
  <2>3. m \in 1 .. Len(s) /\ ~ (m <= Len(t) /\ t[m] = s[m]) /\ m \in Nat
    BY <2>1, <2>2
  <2>4. CASE m = 1
    <3>1. s # <<>>
      BY <1>1, <2>3, ChainFacts, SMT
    <3>2. first \in Clusters /\ first = s[1] /\ first2 = first
      BY <3>1, ChainFacts
    <3>3. t # <<>>
      BY <3>2, FatConstants DEF IsChain
    <3>4. 1 \in 1 .. Len(t) /\ first2 = t[1]
      BY <3>3, ChainFacts
    <3> QED
      BY <1>2, <2>3, <2>4, <3>2, <3>4
  <2>5. CASE m # 1
    <3>1. m - 1 \in 1 .. Len(s) /\ m - 1 < Len(s) /\ m - 1 \in Nat /\ m - 1 < m /\ (m - 1) + 1 = m
      BY <1>1, <2>3, <2>5, SMT
    <3>2. <<m - 1, m>> \in OpToRel(<, Nat)
      BY <2>3, <3>1 DEF OpToRel
    <3>3. m - 1 <= Len(t) /\ t[m - 1] = s[m - 1]
      BY <2>2, <3>1, <3>2
    <3>4. table[s[m - 1]] = s[m]
      BY <3>1 DEF IsChain
    <3>5. tab[s[m - 1]] = s[m] /\ s[m] \in Clusters
      BY <1>1, <2>3, <3>1, <3>4
    <3>6. m - 1 \in 1 .. Len(t)
      BY <1>2, <3>1, <3>3
    <3>7. tab[t[m - 1]] = IF m - 1 = Len(t) THEN LastLink ELSE t[m]
      BY <3>1, <3>6 DEF IsChain
    <3>8. m - 1 # Len(t) /\ t[m] = s[m]
      BY <3>3, <3>5, <3>7, FatConstants
    <3> QED
      BY <1>2, <2>3, <3>6, <3>8, SMT
  <2> QED
    BY <2>4, <2>5
<1>4. \A i \in 1 .. Len(s) : i <= Len(t) /\ t[i] = s[i]
  BY <1>3
<1>5. CASE Len(s) = 0
  BY <1>2, <1>4, <1>5
<1>6. CASE Len(s) # 0
  <2>1. Len(s) \in 1 .. Len(s)
    BY <1>1, <1>6
  <2> QED
    BY <1>4, <2>1
<1> QED
  BY <1>5, <1>6

LEMMA SeqSame ==
  ASSUME NEW S, NEW s \in Seq(S), NEW t \in Seq(S), Len(s) = Len(t), \A i \in 1 .. Len(s) : s[i] = t[i]
  PROVE  s = t
BY SeqEqual

(* A table has one chain from a cluster.                                   *)
LEMMA ChainUnique ==
  ASSUME NEW table, NEW first, NEW s, IsChain(table, first, s), NEW tab, NEW t, IsChain(tab, first, t),
         \A i \in 1 .. Len(s) : tab[s[i]] = table[s[i]]
  PROVE  s = t
<1>0. IsChain(tab, first, s)
  BY ChainKept
<1>1. Len(s) <= Len(t) /\ \A i \in 1 .. Len(s) : t[i] = s[i]
  BY <1>0, ChainGrows
<1>2. Len(t) <= Len(s)
  BY <1>0, ChainGrows
<1>3. Len(s) \in Nat /\ Len(t) \in Nat
  BY ChainFacts
<1>4. Len(s) = Len(t) /\ \A i \in 1 .. Len(s) : s[i] = t[i]
  BY <1>1, <1>2, <1>3
<1>5. s \in Seq(Clusters) /\ t \in Seq(Clusters)
  BY DEF IsChain
<1> HIDE DEF Clusters
<1> QED
  BY <1>4, <1>5, SeqSame

LEMMA LineIs ==
  FatInv => Line \in Families /\ FatInvOf(Line)
<1> SUFFICES ASSUME FatInv PROVE Line \in Families /\ FatInvOf(Line)
  OBVIOUS
<1>1. PICK ch \in Families : FatInvOf(ch)
  BY DEF FatInv, Families
<1>2. ASSUME NEW o \in Owners PROVE Line[o] = ch[o]
  <2>1. IsChain(fat, Heads[o], ch[o])
    BY <1>1, <1>2, HeadsFacts DEF FatInvOf, Chains
  <2>2. IsChain(fat, Heads[o], Line[o])
    BY <1>2, <2>1 DEF Line, ChainFrom
  <2> QED
    BY <2>1, <2>2, ChainUnique
<1>3. Line = ch
  <2>1. DOMAIN ch = Owners /\ DOMAIN Line = Owners /\ Line = [o \in Owners |-> Line[o]] /\ ch = [o \in Owners |-> ch[o]]
    BY <1>1 DEF Families, Line
  <2> QED
    BY <1>2, <2>1
<1> QED
  BY <1>1, <1>3

LEMMA LineInCall ==
  ASSUME FatInv, ~ Idle
  PROVE  \E f \in Names : \E ch \in Families : Now(f, ch) /\ ch = Line
<1>1. PICK f \in Names : \E ch \in Families : Now(f, ch)
  BY InCall
<1>2. PICK c2 \in Families : Now(f, c2)
  BY <1>1
<1>3. PICK ch \in Families : FatInvOf(ch) /\ ch = Line
  BY LineIs
<1>4. /\ ~ Idle /\ cur.call.f = f /\ File = fil[f] /\ FilType(fil[f]) /\ CurType(cur)
  BY <1>2 DEF Now
<1>5. FileInv(f, ch[f]) /\ ProgressInv(ch[f])
  BY <1>3, <1>4 DEF FatInvOf
<1>6. /\ IsChain(fat, Lead(f), ch[f]) /\ Len(ch[f]) \in Nat
      /\ \A i \in 1 .. Len(ch[f]) : ch[f][i] \in Clusters
      /\ Lead(f) = 0 <=> ch[f] = <<>>
      /\ ch[f] = <<>> <=> Len(ch[f]) = 0
      /\ ch[f] # <<>> => Lead(f) = ch[f][1]
  BY <1>3, FileFacts
<1> QED
  BY <1>3, <1>4, <1>5, <1>6 DEF Now

(* What is always so of the chain of a file.                               *)
WholeFile(f) ==
  /\ Line[f] \in Seq(Clusters) /\ Len(Line[f]) \in Nat /\ IsChain(fat, Lead(f), Line[f])
  /\ \A i \in 1 .. Len(Line[f]) : Line[f][i] \in Clusters /\ Line[f][i] # Root /\ fat[Line[f][i]] # 0
  /\ \A i, j \in 1 .. Len(Line[f]) : Line[f][i] = Line[f][j] => i = j
  /\ Lead(f) = 0 <=> Line[f] = <<>>
  /\ Line[f] = <<>> <=> Len(Line[f]) = 0
  /\ FileInv(f, Line[f])
  /\ FilType(fil[f]) /\ dir[f] \in DirEntries
  /\ fil[f].dirty => fil[f].open

LEMMA LineFacts ==
  FatInv => \A f \in Names : WholeFile(f)
<1> SUFFICES ASSUME FatInv, NEW f \in Names PROVE WholeFile(f)
  OBVIOUS
<1>1. PICK ch \in Families : FatInvOf(ch) /\ ch = Line
  BY LineIs
<1>2. /\ IsChain(fat, Lead(f), ch[f]) /\ Len(ch[f]) \in Nat /\ ch[f] \in Seq(Clusters)
      /\ \A i \in 1 .. Len(ch[f]) : ch[f][i] \in Clusters /\ ch[f][i] # Root /\ fat[ch[f][i]] # 0
      /\ Lead(f) = 0 <=> ch[f] = <<>>
      /\ ch[f] = <<>> <=> Len(ch[f]) = 0
  BY <1>1, FileFacts
<1>3. FileInv(f, ch[f])
  BY <1>1 DEF FatInvOf
<1>4. fil[f].dirty => fil[f].open
  BY <1>3 DEF FileInv, DirtyInv
<1>5. \A i, j \in 1 .. Len(ch[f]) : ch[f][i] = ch[f][j] => i = j
  BY <1>2 DEF IsChain
<1>6. FilType(fil[f]) /\ dir[f] \in DirEntries
  BY DEF FatInv, Types, TypesF, TypesW
<1> QED
  BY <1>1, <1>2, <1>3, <1>4, <1>5, <1>6 DEF WholeFile

LEMMA LinesApart ==
  FatInv => \A o, q \in Owners : o # q => \A i \in 1 .. Len(Line[o]), j \in 1 .. Len(Line[q]) : Line[o][i] # Line[q][j]
<1> SUFFICES ASSUME FatInv, NEW o \in Owners, NEW q \in Owners, o # q
             PROVE  \A i \in 1 .. Len(Line[o]), j \in 1 .. Len(Line[q]) : Line[o][i] # Line[q][j]
  OBVIOUS
<1>1. FatInvOf(Line)
  BY LineIs
<1>2. Apart(Line[o], Line[q])
  BY <1>1, HeadsFacts DEF FatInvOf, Chains
<1> QED
  BY <1>2 DEF Apart

LEMMA LineNext ==
  FatInv' => \A f \in Names : WholeFile(f)'
<1>1. FatInv' => (\A f \in Names : WholeFile(f))'
  BY LineFacts, PTL
<1> QED
  BY <1>1

Extends(f) == Len(Line[f]) <= Len(Line'[f]) /\ \A i \in 1 .. Len(Line[f]) : Line'[f][i] = Line[f][i]

LEMMA LineGrows ==
  ASSUME FatInv, FatInv', NEW f \in Names, Line[f] # <<>> => Lead(f)' = Lead(f),
         \A i \in 1 .. Len(Line[f]) : i < Len(Line[f]) => fat'[Line[f][i]] = fat[Line[f][i]]
  PROVE  Extends(f)
<1>1. IsChain(fat, Lead(f), Line[f])
  BY LineFacts DEF WholeFile
<1>3. IsChain(fat', Lead(f)', Line'[f])
  BY LineNext DEF WholeFile
<1> QED
  BY <1>1, <1>3, ChainGrows DEF Extends

LEMMA LineStays ==
  ASSUME FatInv, FatInv', NEW f \in Names, Lead(f)' = Lead(f),
         \A i \in 1 .. Len(Line[f]) : fat'[Line[f][i]] = fat[Line[f][i]]
  PROVE  Line'[f] = Line[f]
<1>1. IsChain(fat, Lead(f), Line[f])
  BY LineFacts DEF WholeFile
<1>3. IsChain(fat', Lead(f)', Line'[f])
  BY LineNext DEF WholeFile
<1>4. IsChain(fat', Lead(f), Line'[f])
  BY <1>3
<1> QED
  BY <1>1, <1>4, ChainUnique

LEMMA StaysExtends ==
  ASSUME FatInv, NEW f \in Names, Line'[f] = Line[f]
  PROVE  Extends(f)
BY LineFacts DEF Extends, WholeFile

-----------------------------------------------------------------------------
(* What is stored in each file, and what is read from it.                  *)

Values == 0 .. MaxFatCalls
Extent(f) == Len(Line[f]) * ClusterUnits
Span(f) == 0 .. Extent(f) - 1

(* The m-th sector of a chain, from 0.                                     *)
SectorAt(s, m) == <<s[(m \div ClusterSize) + 1], m % ClusterSize>>

Raw == [f \in Names |-> [i \in Span(f) |-> data[Line[f][(i \div ClusterUnits) + 1]][i % ClusterUnits]]]
InBuffer(f, i) == fil[f].dirty /\ fil[f].dsect = SectorAt(Line[f], i \div SectorSize)
Mem == [f \in Names |-> [i \in Span(f) |-> IF InBuffer(f, i) THEN fil[f].buf[i % SectorSize] ELSE Raw[f][i]]]

InCluster == 0 .. ClusterUnits - 1
InSector == 0 .. SectorSize - 1
DataInv ==
  /\ data \in [Clusters -> [InCluster -> Values]]
  /\ \A f \in Names : fil[f].buf \in [InSector -> Values]

LEMMA Digits ==
  ASSUME NEW p \in Nat
  PROVE  /\ (p \div SectorSize) \in Nat /\ (p % SectorSize) \in InSector
         /\ p = (p \div SectorSize) * SectorSize + (p % SectorSize)
         /\ ((p \div SectorSize) \div ClusterSize) = (p \div ClusterUnits)
         /\ ((p \div SectorSize) % ClusterSize) \in Nat /\ ((p \div SectorSize) % ClusterSize) < ClusterSize
         /\ (p % ClusterUnits) = ((p \div SectorSize) % ClusterSize) * SectorSize + (p % SectorSize)
         /\ ((p % ClusterUnits) \div SectorSize) = ((p \div SectorSize) % ClusterSize)
         /\ ((p % ClusterUnits) % SectorSize) = (p % SectorSize)
         /\ (p \div ClusterUnits) \in Nat /\ (p % ClusterUnits) \in InCluster
         /\ p = (p \div ClusterUnits) * ClusterUnits + (p % ClusterUnits)
<1> DEFINE m == p \div SectorSize
           o == p % SectorSize
           q == m \div ClusterSize
           j == m % ClusterSize
<1>0. SectorSize \in Nat /\ SectorSize > 0 /\ ClusterSize \in Nat /\ ClusterSize > 0 /\ ClusterUnits \in Nat /\ ClusterUnits > 0
  BY FatConstants
<1>1. m \in Nat /\ o \in Nat /\ o < SectorSize /\ p = m * SectorSize + o
  BY <1>0, DivMod
<1>2. q \in Nat /\ j \in Nat /\ j < ClusterSize /\ m = q * ClusterSize + j
  BY <1>0, <1>1, DivMod
<1>a. (p \div ClusterUnits) \in Nat /\ (p % ClusterUnits) \in Nat /\ (p % ClusterUnits) < ClusterUnits
      /\ p = (p \div ClusterUnits) * ClusterUnits + (p % ClusterUnits)
  BY <1>0, DivMod
<1> HIDE DEF m, o, q, j
<1>3. j * SectorSize + SectorSize <= ClusterSize * SectorSize /\ j * SectorSize \in Nat
  <2>1. j + 1 <= ClusterSize
    BY <1>0, <1>2
  <2>2. (j + 1) * SectorSize <= ClusterSize * SectorSize /\ (j + 1) * SectorSize = j * SectorSize + SectorSize /\ j * SectorSize \in Nat
    BY <1>0, <1>2, Times
  <2> QED
    BY <2>2
<1>4. ClusterUnits = ClusterSize * SectorSize
  BY DEF ClusterUnits
<1>5. p = q * ClusterUnits + (j * SectorSize + o)
  <2>1. (q * ClusterSize + j) * SectorSize = q * (ClusterSize * SectorSize) + j * SectorSize
    BY <1>0, <1>2, SMT
  <2> QED
    BY <1>0, <1>1, <1>2, <1>3, <1>4, <2>1
<1>6. j * SectorSize + o \in Nat /\ j * SectorSize + o < ClusterUnits
  BY <1>0, <1>1, <1>3, <1>4
<1>7. (p \div ClusterUnits) = q /\ (p % ClusterUnits) = j * SectorSize + o
  BY <1>0, <1>2, <1>5, <1>6, DivIs
<1>8. ((j * SectorSize + o) \div SectorSize) = j /\ ((j * SectorSize + o) % SectorSize) = o
  BY <1>0, <1>1, <1>2, <1>6, DivIs
<1>9. o \in InSector /\ (p % ClusterUnits) \in InCluster
  BY <1>0, <1>1, <1>a DEF InSector, InCluster
<1> QED
  BY <1>0, <1>1, <1>2, <1>7, <1>8, <1>9, <1>a DEF m, o, q, j

LEMMA SectorUnit ==
  ASSUME NEW m \in Nat, NEW o \in InSector
  PROVE  /\ m * SectorSize + o \in Nat /\ ((m * SectorSize + o) \div SectorSize) = m /\ ((m * SectorSize + o) % SectorSize) = o
         /\ m * SectorSize \in Nat
<1>0. SectorSize \in Nat /\ SectorSize > 0 /\ o \in Nat /\ o < SectorSize
  BY FatConstants DEF InSector
<1>1. m * SectorSize \in Nat
  BY <1>0, Times
<1>2. m * SectorSize + o \in Nat
  BY <1>0, <1>1
<1> QED
  BY <1>0, <1>1, <1>2, DivIs

(* The cluster of a unit.                                                  *)
LEMMA UnitCluster ==
  ASSUME FatInv, NEW f \in Names, NEW i \in Span(f)
  PROVE  /\ i \in Nat /\ (i \div ClusterUnits) + 1 \in 1 .. Len(Line[f]) /\ (i % ClusterUnits) \in InCluster
         /\ Line[f][(i \div ClusterUnits) + 1] \in Clusters
         /\ (i \div SectorSize) \in Nat /\ (i \div SectorSize) < Len(Line[f]) * ClusterSize
<1>1. Len(Line[f]) \in Nat /\ \A j \in 1 .. Len(Line[f]) : Line[f][j] \in Clusters
  BY LineFacts DEF WholeFile
<1>2. Extent(f) \in Nat
  BY <1>1, FatConstants, Times DEF Extent
<1>3. i \in Nat /\ i < Extent(f)
  BY <1>2 DEF Span
<1> DEFINE q == i \div ClusterUnits
           L == Len(Line[f])
<1>4. q \in Nat /\ (i % ClusterUnits) \in InCluster /\ i = q * ClusterUnits + (i % ClusterUnits) /\ (i % ClusterUnits) \in Nat
      /\ q * ClusterUnits \in Nat
  BY <1>3, Digits, DivMod, FatConstants
<1>5. q < L
  <2>1. ~ (L <= q)
    <3>1. L * ClusterUnits <= q * ClusterUnits <=> L <= q
      BY <1>1, <1>4, FatConstants, Times
    <3>2. L * ClusterUnits > i /\ L * ClusterUnits \in Nat
      BY <1>2, <1>3 DEF Extent
    <3> HIDE DEF q, L
    <3> QED
      BY <1>3, <1>4, <3>1, <3>2
  <2> HIDE DEF q, L
  <2>2. L \in Nat
    BY <1>1 DEF L
  <2> QED
    BY <1>4, <2>1, <2>2
<1>6. q + 1 \in 1 .. L
  BY <1>1, <1>4, <1>5
<1>7. (i \div SectorSize) \in Nat /\ (i \div SectorSize) < L * ClusterSize
  <2> DEFINE m == i \div SectorSize
  <2>1. m \in Nat /\ (m \div ClusterSize) = q
    BY <1>3, Digits
  <2>2. m = q * ClusterSize + (m % ClusterSize) /\ (m % ClusterSize) \in Nat /\ (m % ClusterSize) < ClusterSize /\ q * ClusterSize \in Nat
    BY <2>1, DivMod, FatConstants
  <2>3. (q + 1) * ClusterSize <= L * ClusterSize /\ (q + 1) * ClusterSize = q * ClusterSize + ClusterSize
    BY <1>1, <1>4, <1>5, FatConstants, Times
  <2>4. L * ClusterSize \in Nat /\ ClusterSize \in Nat
    BY <1>1, FatConstants, Times
  <2> HIDE DEF m, q, L
  <2> QED
    BY <2>1, <2>2, <2>3, <2>4 DEF m
<1> QED
  BY <1>1, <1>3, <1>4, <1>6, <1>7

LEMMA ValuesRead ==
  ASSUME FatInv, DataInv, NEW f \in Names
  PROVE  \A i \in Span(f) : Raw[f][i] \in Values /\ Mem[f][i] \in Values
<1> SUFFICES ASSUME NEW i \in Span(f) PROVE Raw[f][i] \in Values /\ Mem[f][i] \in Values
  OBVIOUS
<1>1. /\ i \in Nat /\ (i % ClusterUnits) \in InCluster /\ Line[f][(i \div ClusterUnits) + 1] \in Clusters
  BY UnitCluster
<1>2. Raw[f][i] = data[Line[f][(i \div ClusterUnits) + 1]][i % ClusterUnits]
  BY DEF Raw
<1>3. Raw[f][i] \in Values
  BY <1>1, <1>2 DEF DataInv
<1>4. (i % SectorSize) \in InSector
  BY <1>1, Digits
<1>5. fil[f].buf[i % SectorSize] \in Values
  BY <1>4 DEF DataInv
<1> QED
  BY <1>3, <1>5 DEF Mem

(* What a step does to what is stored and to what is read.                 *)

LEMMA OthersSame ==
  ASSUME FatInv, NEW g \in Names, fil'[g] = fil[g], Line'[g] = Line[g],
         \A j \in 1 .. Len(Line[g]) : data'[Line[g][j]] = data[Line[g][j]]
  PROVE  Mem'[g] = Mem[g] /\ Raw'[g] = Raw[g]
<1>1. Span(g)' = Span(g)
  BY DEF Span, Extent
<1>2. ASSUME NEW i \in Span(g) PROVE Raw'[g][i] = Raw[g][i]
  <2>1. (i \div ClusterUnits) + 1 \in 1 .. Len(Line[g])
    BY UnitCluster
  <2>2. data'[Line'[g][(i \div ClusterUnits) + 1]] = data[Line[g][(i \div ClusterUnits) + 1]]
    BY <2>1
  <2> QED
    BY <1>1, <2>2 DEF Raw
<1>3. Raw'[g] = Raw[g]
  BY <1>1, <1>2 DEF Raw
<1>4. ASSUME NEW i \in Span(g) PROVE Mem'[g][i] = Mem[g][i]
  BY <1>1, <1>3 DEF Mem, InBuffer
<1> QED
  BY <1>1, <1>3, <1>4 DEF Mem

SameUnits(f) == \A i \in Span(f) : Mem'[f][i] = Mem[f][i] /\ Raw'[f][i] = Raw[f][i]

LEMMA WiderRange ==
  ASSUME FatInv, FatInv', NEW f \in Names, Extends(f), NEW i \in Span(f)
  PROVE  /\ i \in Span(f)' /\ Extent(f) <= Extent(f)' /\ Extent(f) \in Nat /\ Extent(f)' \in Nat
         /\ Line'[f][(i \div ClusterUnits) + 1] = Line[f][(i \div ClusterUnits) + 1]
         /\ SectorAt(Line'[f], i \div SectorSize) = SectorAt(Line[f], i \div SectorSize)
<1>1. Len(Line[f]) \in Nat
  BY LineFacts DEF WholeFile
<1>2. Len(Line'[f]) \in Nat
  BY LineNext DEF WholeFile
<1>3. Len(Line[f]) * ClusterUnits <= Len(Line'[f]) * ClusterUnits /\ Len(Line[f]) * ClusterUnits \in Nat /\ Len(Line'[f]) * ClusterUnits \in Nat
  BY <1>1, <1>2, FatConstants, Times DEF Extends
<1>4. Extent(f) = Len(Line[f]) * ClusterUnits /\ Extent(f)' = Len(Line'[f]) * ClusterUnits
  BY DEF Extent
<1>5. Extent(f) <= Extent(f)' /\ Extent(f) \in Nat /\ Extent(f)' \in Nat
  BY <1>3, <1>4
<1>6. i \in Span(f)'
  BY <1>5 DEF Span
<1>7. (i \div ClusterUnits) + 1 \in 1 .. Len(Line[f]) /\ i \in Nat
  BY UnitCluster
<1>8. Line'[f][(i \div ClusterUnits) + 1] = Line[f][(i \div ClusterUnits) + 1]
  BY <1>7 DEF Extends
<1>9. ((i \div SectorSize) \div ClusterSize) = (i \div ClusterUnits)
  BY <1>7, Digits
<1> QED
  BY <1>5, <1>6, <1>8, <1>9 DEF SectorAt

LEMMA OwnSame ==
  ASSUME FatInv, FatInv', NEW f \in Names, Extends(f), data' = data,
         fil'[f].dirty = fil[f].dirty, fil[f].dirty => fil'[f].dsect = fil[f].dsect /\ fil'[f].buf = fil[f].buf
  PROVE  SameUnits(f)
<1> SUFFICES ASSUME NEW i \in Span(f) PROVE Mem'[f][i] = Mem[f][i] /\ Raw'[f][i] = Raw[f][i]
  BY DEF SameUnits
<1>1. /\ i \in Span(f)' /\ Line'[f][(i \div ClusterUnits) + 1] = Line[f][(i \div ClusterUnits) + 1]
      /\ SectorAt(Line'[f], i \div SectorSize) = SectorAt(Line[f], i \div SectorSize)
  BY WiderRange
<1>2. Raw'[f][i] = Raw[f][i]
  BY <1>1 DEF Raw
<1>3. InBuffer(f, i)' <=> InBuffer(f, i)
  BY <1>1 DEF InBuffer
<1>4. InBuffer(f, i) => fil'[f].buf[i % SectorSize] = fil[f].buf[i % SectorSize]
  BY DEF InBuffer
<1> QED
  BY <1>1, <1>2, <1>3, <1>4 DEF Mem

(* n units are written at unit p of file f, in one cluster.                *)
WrittenAt(f, p, n, u) ==
  /\ p \in Nat /\ n \in Nat /\ (p \div ClusterUnits) + 1 <= Len(Line[f]) /\ (p % ClusterUnits) + n <= ClusterUnits
  /\ WriteUnits(Line[f][(p \div ClusterUnits) + 1], p % ClusterUnits, n, u)
  /\ \A i \in 0 .. n - 1 : u[i] \in Values

LEMMA Written ==
  ASSUME FatInv, DataInv, NEW f \in Names, NEW p, NEW n, NEW u, WrittenAt(f, p, n, u), Line'[f] = Line[f]
  PROVE  /\ \A i \in Span(f) : Raw'[f][i] = IF i \in p .. p + n - 1 THEN u[i - p] ELSE Raw[f][i]
         /\ \A g \in Names : g # f => \A j \in 1 .. Len(Line[g]) : data'[Line[g][j]] = data[Line[g][j]]
         /\ data' \in [Clusters -> [InCluster -> Values]]
<1> DEFINE k == p \div ClusterUnits
           o == p % ClusterUnits
           c == Line[f][k + 1]
<1>1. /\ p \in Nat /\ n \in Nat /\ k + 1 <= Len(Line[f]) /\ o + n <= ClusterUnits
      /\ WriteUnits(c, o, n, u) /\ \A i \in 0 .. n - 1 : u[i] \in Values
  BY DEF WrittenAt
<1>2. k \in Nat /\ o \in Nat /\ o < ClusterUnits /\ p = k * ClusterUnits + o /\ k * ClusterUnits \in Nat
  BY <1>1, FatConstants, DivMod
<1>3. Len(Line[f]) \in Nat /\ k + 1 \in 1 .. Len(Line[f])
  <2>1. Len(Line[f]) \in Nat
    BY LineFacts DEF WholeFile
  <2> HIDE DEF k
  <2> QED
    BY <1>1, <1>2, <2>1
<1>4. c \in Clusters
  BY <1>3, LineFacts DEF WholeFile
<1> HIDE DEF k, o
<1>5. data \in [Clusters -> [InCluster -> Values]]
  BY DEF DataInv
<1>6. data' = [data EXCEPT ![c] = [i \in DOMAIN data[c] |-> IF i \in o .. o + n - 1 THEN u[i - o] ELSE data[c][i]]]
  BY <1>1 DEF WriteUnits
<1>7. DOMAIN data[c] = InCluster /\ data[c] \in [InCluster -> Values]
  BY <1>4, <1>5
<1>8. data'[c] = [i \in InCluster |-> IF i \in o .. o + n - 1 THEN u[i - o] ELSE data[c][i]]
      /\ \A d \in Clusters : d # c => data'[d] = data[d]
  BY <1>4, <1>5, <1>6, <1>7
<1>9. data' \in [Clusters -> [InCluster -> Values]]
  <2>1. ASSUME NEW i \in InCluster PROVE (IF i \in o .. o + n - 1 THEN u[i - o] ELSE data[c][i]) \in Values
    <3>1. CASE i \in o .. o + n - 1
      <4>1. i - o \in 0 .. n - 1
        BY <1>1, <1>2, <3>1
      <4> QED
        BY <1>1, <3>1, <4>1
    <3> QED
      BY <1>7, <3>1
  <2>2. data'[c] \in [InCluster -> Values]
    BY <1>8, <2>1
  <2>3. \A d \in Clusters : data'[d] \in [InCluster -> Values]
    BY <1>5, <1>8, <2>2
  <2>4. DOMAIN data' = Clusters /\ data' = [d \in Clusters |-> data'[d]]
    BY <1>5, <1>6
  <2> QED
    BY <2>3, <2>4
<1>10. ASSUME NEW g \in Names, g # f, NEW j \in 1 .. Len(Line[g]) PROVE data'[Line[g][j]] = data[Line[g][j]]
  <2>1. Line[g][j] \in Clusters
    BY <1>10, LineFacts DEF WholeFile
  <2>2. Line[g][j] # c
    BY <1>3, <1>10, LinesApart, HeadsFacts
  <2> QED
    BY <1>8, <2>1, <2>2
<1>11. ASSUME NEW i \in Span(f) PROVE Raw'[f][i] = IF i \in p .. p + n - 1 THEN u[i - p] ELSE Raw[f][i]
  <2> DEFINE q == i \div ClusterUnits
             r == i % ClusterUnits
  <2>1. i \in Nat /\ q + 1 \in 1 .. Len(Line[f]) /\ r \in InCluster /\ Line[f][q + 1] \in Clusters
    BY UnitCluster
  <2>2. q \in Nat /\ r \in Nat /\ r < ClusterUnits /\ i = q * ClusterUnits + r /\ q * ClusterUnits \in Nat
    BY <2>1, FatConstants, DivMod
  <2>3. i \in Span(f)' /\ Raw'[f][i] = data'[Line[f][q + 1]][r] /\ Raw[f][i] = data[Line[f][q + 1]][r]
    BY DEF Raw, Span, Extent
  <2>4. Line[f][q + 1] = c <=> q = k
    <3>1. Line[f][q + 1] = Line[f][k + 1] => q + 1 = k + 1
      BY <1>3, <2>1, LineFacts DEF WholeFile
    <3> HIDE DEF q
    <3>2. ASSUME Line[f][q + 1] = c PROVE q = k
      <4>1. q + 1 = k + 1
        BY <1>3, <3>1, <3>2
      <4> QED
        BY <1>2, <2>2, <4>1
    <3>3. ASSUME q = k PROVE Line[f][q + 1] = c
      BY <1>3, <3>3
    <3> QED
      BY <3>2, <3>3
  <2> HIDE DEF q, r
  <2>5. CASE q = k
    <3>1. PICK x : x = k * ClusterUnits
      OBVIOUS
    <3>2. /\ x \in Nat /\ o \in Nat /\ r \in Nat /\ n \in Nat /\ p \in Nat /\ i \in Nat
          /\ p = x + o /\ i = x + r
      <4>1. q * ClusterUnits = x
        BY <2>5, <3>1
      <4> QED
        BY <1>1, <1>2, <2>1, <2>2, <3>1, <4>1
    <3>3. i \in p .. p + n - 1 <=> r \in o .. o + n - 1
      BY ONLY <3>2
    <3>4. i - p = r - o
      BY ONLY <3>2
    <3> QED
      BY <1>8, <2>1, <2>3, <2>4, <2>5, <3>3, <3>4
  <2>6. CASE q # k
    <3>1. ~ (i \in p .. p + n - 1)
      <4>1. q < k \/ k < q
        BY <1>2, <2>2, <2>6
      <4>2. CASE q < k
        <5>1. (q + 1) * ClusterUnits <= k * ClusterUnits /\ (q + 1) * ClusterUnits = q * ClusterUnits + ClusterUnits
          BY <1>2, <2>2, <4>2, FatConstants, Times
        <5>2. PICK x, y, w : x = k * ClusterUnits /\ y = q * ClusterUnits /\ w = ClusterUnits
          OBVIOUS
        <5>3. y + w <= x /\ x \in Nat /\ y \in Nat /\ w \in Nat /\ p = x + o /\ i = y + r /\ o \in Nat /\ r \in Nat /\ r < w
          BY <1>2, <2>2, <5>1, <5>2, FatConstants
        <5>4. i < p
          BY ONLY <5>3
        <5> QED
          BY <1>1, <2>1, <5>4
      <4>3. CASE k < q
        <5>1. (k + 1) * ClusterUnits <= q * ClusterUnits /\ (k + 1) * ClusterUnits = k * ClusterUnits + ClusterUnits
          BY <1>2, <2>2, <4>3, FatConstants, Times
        <5>2. PICK x, y : x = k * ClusterUnits /\ y = q * ClusterUnits
          OBVIOUS
        <5>3. x + ClusterUnits <= y /\ x \in Nat /\ y \in Nat /\ p = x + o /\ i = y + r
          BY <1>2, <2>2, <5>1, <5>2
        <5>4. i > p + n - 1
          BY <1>1, <1>2, <2>2, <5>3, FatConstants
        <5> QED
          BY <1>1, <2>1, <5>4
      <4> QED
        BY <4>1, <4>2, <4>3
    <3> QED
      BY <1>8, <2>1, <2>3, <2>4, <2>6, <3>1
  <2> QED
    BY <2>5, <2>6
<1> QED
  BY <1>9, <1>10, <1>11

-----------------------------------------------------------------------------
(* Sectors, and the one in the buffer.                                     *)

LEMMA SectorPlace ==
  ASSUME FatInv, NEW f \in Names, NEW m \in Nat, m < Len(Line[f]) * ClusterSize
  PROVE  /\ (m \div ClusterSize) + 1 \in 1 .. Len(Line[f]) /\ (m % ClusterSize) \in 0 .. ClusterSize - 1
         /\ SectorAt(Line[f], m)[1] = Line[f][(m \div ClusterSize) + 1] /\ SectorAt(Line[f], m)[1] \in Clusters
         /\ SectorAt(Line[f], m)[2] = (m % ClusterSize)
         /\ SectorAt(Line[f], m) # NoSector
         /\ m * SectorSize \in Nat /\ ((m * SectorSize) \div ClusterUnits) = (m \div ClusterSize)
         /\ ((m * SectorSize) % ClusterUnits) = (m % ClusterSize) * SectorSize
         /\ ((m * SectorSize) % ClusterUnits) + SectorSize <= ClusterUnits
<1> DEFINE k == m \div ClusterSize
           j == m % ClusterSize
<1>0. SectorSize \in Nat /\ SectorSize > 0 /\ ClusterSize \in Nat /\ ClusterSize > 0 /\ ClusterUnits \in Nat /\ ClusterUnits > 0
  BY FatConstants
<1>1. k \in Nat /\ j \in Nat /\ j < ClusterSize /\ m = k * ClusterSize + j /\ k * ClusterSize \in Nat
  BY <1>0, DivMod
<1>2. Len(Line[f]) \in Nat /\ \A i \in 1 .. Len(Line[f]) : Line[f][i] \in Clusters
  BY LineFacts DEF WholeFile
<1>3. k < Len(Line[f])
  <2>1. Len(Line[f]) <= k <=> Len(Line[f]) * ClusterSize <= k * ClusterSize
    BY <1>0, <1>1, <1>2, Times
  <2>2. Len(Line[f]) * ClusterSize \in Nat
    BY <1>0, <1>2, Times
  <2> HIDE DEF k, j
  <2>3. ~ (Len(Line[f]) * ClusterSize <= k * ClusterSize)
    BY <1>1, <2>2
  <2> QED
    BY <1>1, <1>2, <2>1, <2>3
<1>4. k + 1 \in 1 .. Len(Line[f]) /\ j \in 0 .. ClusterSize - 1
  <2> HIDE DEF k, j
  <2> QED
    BY <1>0, <1>1, <1>2, <1>3
<1>5. SectorAt(Line[f], m)[1] = Line[f][k + 1] /\ SectorAt(Line[f], m)[2] = j
  BY DEF SectorAt
<1>6. SectorAt(Line[f], m)[1] \in Clusters /\ SectorAt(Line[f], m) # NoSector
  BY <1>2, <1>4, <1>5, FatConstants DEF NoSector
<1>7. 0 \in InSector
  BY <1>0 DEF InSector
<1>8. m * SectorSize + 0 \in Nat /\ ((m * SectorSize + 0) \div SectorSize) = m /\ ((m * SectorSize + 0) % SectorSize) = 0
      /\ m * SectorSize \in Nat
  BY <1>7, SectorUnit
<1>9. m * SectorSize + 0 = m * SectorSize
  BY <1>8
<1>10. ((m * SectorSize) \div ClusterUnits) = k /\ ((m * SectorSize) % ClusterUnits) = j * SectorSize + 0
  BY <1>8, <1>9, Digits
<1>11. j * SectorSize + SectorSize <= ClusterUnits /\ j * SectorSize \in Nat
  <2>1. j + 1 <= ClusterSize
    BY <1>0, <1>1
  <2>2. (j + 1) * SectorSize <= ClusterSize * SectorSize /\ (j + 1) * SectorSize = j * SectorSize + SectorSize /\ j * SectorSize \in Nat
    BY <1>0, <1>1, <2>1, Times
  <2> QED
    BY <2>2 DEF ClusterUnits
<1>12. j * SectorSize + 0 = j * SectorSize
  BY <1>11
<1> QED
  BY <1>4, <1>5, <1>6, <1>8, <1>10, <1>11, <1>12

LEMMA SectorsDiffer ==
  ASSUME FatInv, NEW f \in Names, NEW m \in Nat, m < Len(Line[f]) * ClusterSize,
         NEW n \in Nat, n < Len(Line[f]) * ClusterSize, SectorAt(Line[f], m) = SectorAt(Line[f], n)
  PROVE  m = n
<1>1. /\ (m \div ClusterSize) + 1 \in 1 .. Len(Line[f]) /\ (n \div ClusterSize) + 1 \in 1 .. Len(Line[f])
      /\ Line[f][(m \div ClusterSize) + 1] = Line[f][(n \div ClusterSize) + 1] /\ (m % ClusterSize) = (n % ClusterSize)
  BY SectorPlace
<1>2. (m \div ClusterSize) + 1 = (n \div ClusterSize) + 1
  BY <1>1, LineFacts DEF WholeFile
<1>3. (m \div ClusterSize) \in Nat /\ (n \div ClusterSize) \in Nat
      /\ m = (m \div ClusterSize) * ClusterSize + (m % ClusterSize) /\ n = (n \div ClusterSize) * ClusterSize + (n % ClusterSize)
  BY FatConstants, DivMod
<1>4. (m \div ClusterSize) = (n \div ClusterSize)
  BY <1>2, <1>3
<1> QED
  BY <1>1, <1>3, <1>4

LEMMA Product ==
  ASSUME NEW a \in Nat, NEW b \in Nat, NEW c \in Nat
  PROVE  (a * b) * c = a * (b * c)
BY SMT

LEMMA SectorUnits ==
  ASSUME FatInv, NEW f \in Names, NEW m \in Nat, m < Len(Line[f]) * ClusterSize, NEW o \in InSector
  PROVE  /\ m * SectorSize + o \in Span(f) /\ ((m * SectorSize + o) \div SectorSize) = m
         /\ ((m * SectorSize + o) % SectorSize) = o
         /\ Raw[f][m * SectorSize + o] = SectorData(SectorAt(Line[f], m))[o]
         /\ Mem[f][m * SectorSize + o] =
              IF fil[f].dirty /\ fil[f].dsect = SectorAt(Line[f], m) THEN fil[f].buf[o] ELSE Raw[f][m * SectorSize + o]
<1> DEFINE p == m * SectorSize + o
<1>0. SectorSize \in Nat /\ SectorSize > 0 /\ ClusterSize \in Nat /\ ClusterSize > 0 /\ ClusterUnits \in Nat /\ ClusterUnits > 0
      /\ ClusterUnits = ClusterSize * SectorSize
  BY FatConstants DEF ClusterUnits
<1>1. p \in Nat /\ (p \div SectorSize) = m /\ (p % SectorSize) = o /\ m * SectorSize \in Nat
  BY SectorUnit
<1>2. Len(Line[f]) \in Nat
  BY LineFacts DEF WholeFile
<1>3. p < Extent(f) /\ Extent(f) \in Nat
  <2>1. (m + 1) * SectorSize <= (Len(Line[f]) * ClusterSize) * SectorSize /\ (m + 1) * SectorSize = m * SectorSize + SectorSize
    BY <1>0, <1>2, Times
  <2>2. (Len(Line[f]) * ClusterSize) * SectorSize = Len(Line[f]) * (ClusterSize * SectorSize)
    BY <1>0, <1>2, Product
  <2>3. o \in Nat /\ o < SectorSize
    BY <1>0 DEF InSector
  <2>4. Extent(f) \in Nat
    BY <1>0, <1>2, Times DEF Extent
  <2>5. Extent(f) = (Len(Line[f]) * ClusterSize) * SectorSize
    BY <1>0, <2>2 DEF Extent
  <2>6. PICK x, y : x = m * SectorSize /\ y = Extent(f)
    OBVIOUS
  <2>7. x + SectorSize <= y /\ x \in Nat /\ y \in Nat /\ p = x + o
    BY <1>1, <2>1, <2>4, <2>5, <2>6
  <2> HIDE DEF p
  <2>8. p < y
    BY <1>0, <2>3, <2>7
  <2> QED
    BY <2>4, <2>6, <2>8
<1>4. p \in Span(f)
  <2> HIDE DEF p
  <2> QED
    BY <1>1, <1>3 DEF Span
<1>5. (p \div ClusterUnits) = (m \div ClusterSize) /\ (p % ClusterUnits) = (m % ClusterSize) * SectorSize + o
  BY <1>1, Digits
<1>6. Raw[f][p] = data[Line[f][(m \div ClusterSize) + 1]][(m % ClusterSize) * SectorSize + o]
  BY <1>4, <1>5 DEF Raw
<1>7. SectorData(SectorAt(Line[f], m))[o] = data[Line[f][(m \div ClusterSize) + 1]][(m % ClusterSize) * SectorSize + o]
  BY DEF SectorData, SectorAt, InSector
<1> QED
  BY <1>1, <1>4, <1>6, <1>7 DEF Mem, InBuffer

(* The sector of the position.                                             *)
LEMMA PositionSector ==
  ASSUME FatInv, NEW f \in Names, cur.call.f = f, Ahead(fil[f], Line[f])
  PROVE  /\ Sector = SectorAt(Line[f], fil[f].fptr \div SectorSize)
         /\ (fil[f].fptr \div SectorSize) \in Nat /\ (fil[f].fptr \div SectorSize) < Len(Line[f]) * ClusterSize
<1> DEFINE p == fil[f].fptr
<1>1. p \in Nat /\ File = fil[f] /\ Len(Line[f]) \in Nat
  BY LineFacts DEF WholeFile, FilType, File
<1>2. (p \div ClusterUnits) + 1 <= Len(Line[f]) /\ fil[f].clust = Line[f][(p \div ClusterUnits) + 1]
  BY DEF Ahead
<1>3. (p \div SectorSize) \in Nat /\ ((p \div SectorSize) \div ClusterSize) = (p \div ClusterUnits)
  BY <1>1, Digits
<1>4. Sector = SectorAt(Line[f], p \div SectorSize)
  BY <1>1, <1>2, <1>3 DEF Sector, SectorInCluster, SectorAt
<1>5. (p \div SectorSize) < Len(Line[f]) * ClusterSize
  <2> DEFINE m == p \div SectorSize
             q == p \div ClusterUnits
             L == Len(Line[f])
  <2>1. m = q * ClusterSize + (m % ClusterSize) /\ (m % ClusterSize) \in Nat /\ (m % ClusterSize) < ClusterSize /\ q * ClusterSize \in Nat
    BY <1>3, DivMod, FatConstants
  <2>2. q \in Nat
    BY <1>1, FatConstants, DivMod
  <2>3. q < L
    <3> HIDE DEF q, L
    <3>1. L \in Nat /\ q + 1 <= L
      BY <1>1, <1>2 DEF q, L
    <3> QED
      BY <2>2, <3>1
  <2>4. (q + 1) * ClusterSize <= L * ClusterSize /\ (q + 1) * ClusterSize = q * ClusterSize + ClusterSize
    BY <1>1, <2>2, <2>3, FatConstants, Times
  <2>5. L * ClusterSize \in Nat /\ ClusterSize \in Nat
    BY <1>1, FatConstants, Times
  <2> HIDE DEF m, q, L
  <2> QED
    BY <2>1, <2>4, <2>5 DEF m, L
<1> QED
  BY <1>3, <1>4, <1>5

(* Between clusters the position may be at the end of the chain; within    *)
(* one it is ahead.                                                        *)
LEMMA MidSector ==
  ASSUME FatInv, NEW f \in Names, fil[f].fptr <= Len(Line[f]) * ClusterUnits, Behind(fil[f], Line[f]),
         (fil[f].fptr % SectorSize) # 0
  PROVE  Ahead(fil[f], Line[f])
<1>1. FilType(fil[f]) /\ Len(Line[f]) \in Nat /\ fil[f].fptr \in Nat
  BY LineFacts DEF WholeFile, FilType
<1>2. ~ AtEdge(fil[f])
  <2>1. SUFFICES ASSUME (fil[f].fptr % ClusterUnits) = 0 PROVE FALSE
    BY DEF AtEdge
  <2>2. ((fil[f].fptr % ClusterUnits) % SectorSize) = (fil[f].fptr % SectorSize)
    BY <1>1, Digits
  <2>3. (0 % SectorSize) = 0
    BY FatConstants, SMT
  <2> QED
    BY <2>1, <2>2, <2>3
<1> QED
  BY <1>1, <1>2, Within

Held(f, m) == m \in Nat /\ m < Len(Line[f]) * ClusterSize /\ fil[f].dsect = SectorAt(Line[f], m)
Coherent(f, m) == \A o \in InSector : fil[f].buf[o] = Mem[f][m * SectorSize + o]
Fresh(f) == Busy(f) /\ step = "fit" /\ fil[f].fptr >= fil[f].fsize /\ ~ fil[f].dirty

(* The buffer holds a sector of its file: the one of the position, when    *)
(* that is within a sector.  It is what f_read() would give of that sector,*)
(* but for a new one, which f_write() is about to fill.                    *)
BufferInv(f) ==
  fil[f].open =>
    /\ fil[f].dsect # NoSector => \E m \in Nat : Held(f, m) /\ (Fresh(f) \/ Coherent(f, m))
    /\ fil[f].dirty => fil[f].dsect # NoSector
    /\ ((fil[f].fptr % SectorSize) # 0 /\ ~ (Busy(f) /\ step = "fill")) \/ (Busy(f) /\ step \in {"fit", "pick"}) =>
         Held(f, fil[f].fptr \div SectorSize)

LEMMA BufferFacts ==
  ASSUME FatInv, NEW f \in Names, BufferInv(f), fil[f].open, NEW m \in Nat, m < Len(Line[f]) * ClusterSize,
         fil[f].dsect = SectorAt(Line[f], m)
  PROVE  Fresh(f) \/ Coherent(f, m)
<1>1. fil[f].dsect # NoSector
  BY SectorPlace
<1>2. PICK n \in Nat : Held(f, n) /\ (Fresh(f) \/ Coherent(f, n))
  BY <1>1 DEF BufferInv
<1>3. n = m
  BY <1>2, SectorsDiffer DEF Held
<1> QED
  BY <1>2, <1>3

-----------------------------------------------------------------------------
(* What the disk has of a file.                                            *)

(* Its entry there has at least n units, in the clusters of its chain.     *)
Stored(f, n) ==
  /\ disk.dir[f].used /\ n <= disk.dir[f].size
  /\ \A i \in 1 .. Len(DiskLine[f]) :
       (i - 1) * ClusterUnits < n => i <= Len(Line[f]) /\ DiskLine[f][i] = Line[f][i]

LEMMA NoChain ==
  ASSUME NEW table, NEW s, IsChain(table, 0, s)
  PROVE  s = <<>> /\ Len(s) = 0
BY ChainFacts

LEMMA EntryChain ==
  ASSUME FatInv, NEW f \in Names
  PROVE  \/ dir[f].first = Lead(f) /\ Line[f] = ChainFrom(fat, dir[f].first)
         \/ dir[f].size = 0 /\ \A i \in 1 .. Len(ChainFrom(fat, dir[f].first)) : FALSE
<1>1. CASE dir[f].first = Lead(f)
  BY <1>1, HeadsFacts DEF Line
<1>2. CASE dir[f].first # Lead(f)
  <2>1. FileInv(f, Line[f])
    BY LineFacts DEF WholeFile
  <2>2. dir[f].first = 0 /\ dir[f].size = 0
    BY <1>2, <2>1 DEF FileInv, EntryInv, Lead
  <2>3. IsChain(fat, 0, ChainFrom(fat, 0))
    BY ChainNone DEF ChainFrom
  <2>4. Len(ChainFrom(fat, 0)) = 0
    BY <2>3, NoChain
  <2> QED
    BY <2>2, <2>4
<1> QED
  BY <1>1, <1>2

LEMMA StoredStep ==
  ASSUME FatInv, FatInv', NEW f \in Names, DiskStep, Extends(f), NEW n \in Nat, Stored(f, n),
         dir[f].used, n <= dir[f].size
  PROVE  Stored(f, n)'
<1>0. Len(Line[f]) \in Nat /\ Len(Line'[f]) \in Nat
  BY LineFacts, LineNext DEF WholeFile
<1>1. CASE disk'.fat = disk.fat /\ disk'.dir = disk.dir
  <2>1. DiskLine' = DiskLine
    BY <1>1 DEF DiskLine
  <2>2. ASSUME NEW i \in 1 .. Len(DiskLine[f]), (i - 1) * ClusterUnits < n
        PROVE  i <= Len(Line'[f]) /\ DiskLine[f][i] = Line'[f][i]
    <3>1. i <= Len(Line[f]) /\ DiskLine[f][i] = Line[f][i] /\ i \in Nat /\ i >= 1
      BY <2>2, SMT DEF Stored
    <3>2. i \in 1 .. Len(Line[f])
      BY <1>0, <3>1
    <3> QED
      BY <1>0, <3>1, <3>2 DEF Extends
  <2> QED
    BY <1>1, <2>1, <2>2 DEF Stored
<1>2. CASE disk'.fat = fat /\ disk'.dir = dir
  <2>1. DiskLine'[f] = ChainFrom(fat, dir[f].first)
    BY <1>2 DEF DiskLine
  <2>2. CASE dir[f].first = Lead(f) /\ Line[f] = ChainFrom(fat, dir[f].first)
    <3>1. DiskLine'[f] = Line[f]
      BY <2>1, <2>2
    <3>2. ASSUME NEW i \in 1 .. Len(Line[f]) PROVE i <= Len(Line'[f]) /\ Line[f][i] = Line'[f][i]
      <4>1. i <= Len(Line[f]) /\ i \in Nat
        BY <1>0, SMT
      <4> QED
        BY <1>0, <3>2, <4>1 DEF Extends
    <3> QED
      BY <1>2, <3>1, <3>2 DEF Stored
  <2>3. CASE \A i \in 1 .. Len(ChainFrom(fat, dir[f].first)) : FALSE
    BY <1>2, <2>1, <2>3 DEF Stored
  <2> QED
    BY <2>2, <2>3, EntryChain
<1> QED
  BY <1>1, <1>2 DEF DiskStep

LEMMA AllStored ==
  FatInv /\ disk.fat = fat /\ disk.dir = dir => \A f \in Names : dir[f].used => Stored(f, dir[f].size)
<1> SUFFICES ASSUME FatInv, disk.fat = fat, disk.dir = dir, NEW f \in Names, dir[f].used
             PROVE  Stored(f, dir[f].size)
  OBVIOUS
<1>0. dir[f].size \in Nat /\ Len(Line[f]) \in Nat
  BY LineFacts DEF WholeFile, DirEntries
<1>1. DiskLine[f] = ChainFrom(fat, dir[f].first)
  BY DEF DiskLine
<1>2. CASE dir[f].first = Lead(f) /\ Line[f] = ChainFrom(fat, dir[f].first)
  <2>1. DiskLine[f] = Line[f]
    BY <1>1, <1>2
  <2>2. \A i \in 1 .. Len(Line[f]) : i <= Len(Line[f])
    BY <1>0, SMT
  <2> QED
    BY <1>0, <2>1, <2>2 DEF Stored
<1>3. CASE \A i \in 1 .. Len(ChainFrom(fat, dir[f].first)) : FALSE
  BY <1>0, <1>1, <1>3 DEF Stored
<1> QED
  BY <1>2, <1>3, EntryChain

LEMMA AllStoredNext ==
  FatInv' /\ disk'.fat = fat' /\ disk'.dir = dir' => \A f \in Names : dir'[f].used => Stored(f, dir[f].size)'
<1>1. (FatInv /\ disk.fat = fat /\ disk.dir = dir)' => (\A f \in Names : dir[f].used => Stored(f, dir[f].size))'
  BY AllStored, PTL
<1> QED
  BY <1>1

-----------------------------------------------------------------------------
(* The invariant of the files.                                             *)

(* What is kept of a file is there, on the disk and for those who read it. *)
KeptUnits(f) ==
  \A i \in 1 .. Len(kept[f]) :
    kept[f][i] # Unknown => kept[f][i] = Raw[f][i - 1] /\ kept[f][i] = Mem[f][i - 1]
KeptInv(f) ==
  f \in DOMAIN kept =>
    /\ kept[f] \in Seq(Values \cup {Unknown})
    /\ Len(kept[f]) <= SizeOf[f] /\ Len(kept[f]) <= dir[f].size /\ dir[f].used /\ Stored(f, Len(kept[f]))
    /\ KeptUnits(f)
    /\ Busy(f) => cur.call.op \notin {"create", "unlink"}
    /\ Busy(f) /\ cur.call.op = "write" =>
         \A i \in 1 .. Len(kept[f]) : i \in fil[f].fptr + 1 .. fil[f].fptr + cur.left => kept[f][i] = Unknown

(* All of a file that was not written since is on the disk.                *)
SettledInv(f) ==
  dir[f].used /\ ~ (fil[f].open /\ fil[f].written) /\ ~ (Busy(f) /\ step \in {"replace", "opened", "flush"}) =>
    Stored(f, dir[f].size)

(* How the files and handles there were when the call started relate to    *)
(* those there are.                                                        *)
View(f) == [i \in 1 .. SizeOf[f] |-> Mem[f][i - 1]]
Full == \A c \in Clusters : fat[c] # 0
OpenNow == {f \in Names : fil[f].open}
Moving == {"write", "read", "seek"}

AsBefore(f) == (f \in DOMAIN before.files <=> dir[f].used) /\ (dir[f].used => before.files[f] = View(f))
HandleBefore(f) ==
  /\ before.handles[f] = [pos |-> before.handles[f].pos, write |-> fil[f].write]
  /\ ~ (Busy(f) /\ cur.call.op \in Moving) => before.handles[f].pos = fil[f].fptr
  /\ before.handles[f].pos \in Nat

Writing(f) ==
  LET at == before.handles[f].pos
      h  == fil[f]
  IN  /\ f \in DOMAIN before.files /\ Len(before.files[f]) = h.fsize
      /\ at <= h.fptr /\ at <= h.fsize /\ h.fptr + cur.left = at + cur.call.n
      /\ \A i \in 1 .. Greater(h.fsize, h.fptr) :
           Mem[f][i - 1] = IF i \in at + 1 .. h.fptr THEN cur.call.v ELSE before.files[f][i]
      /\ step = "written" \/ (step = "got" /\ cur.new = 0) => Full

Reading(f) ==
  LET at == before.handles[f].pos
      h  == fil[f]
  IN  /\ at <= h.fptr /\ h.fptr + cur.left = Lesser(at + cur.call.n, h.fsize)
      /\ cur.out \in Seq(Values) /\ Len(cur.out) = h.fptr - at
      /\ \A i \in 1 .. h.fptr - at : cur.out[i] = Mem[f][at + i - 1]

Goal(f) == IF fil[f].write THEN cur.call.n ELSE Lesser(cur.call.n, fil[f].fsize)
Seeking(f) ==
  /\ step = "seek" => cur.left = Goal(f)
  /\ step \in {"follow", "chain", "link", "got"} => fil[f].fptr + cur.left = Goal(f)
  /\ step = "got" /\ cur.new = 0 => Full
  /\ step = "fill" => \/ fil[f].fptr = Goal(f)
                      \/ Full /\ fil[f].fptr >= fil[f].fsize /\ fil[f].fptr <= Goal(f)

ViewOf(f) ==
  /\ cur.call.op \in {"read", "seek", "sync", "close"} \/ step \in {"open", "unlink"} => AsBefore(f)
  /\ cur.call.op = "unlink" => step = "unlink" \/ ~ dir[f].used
  /\ step \in {"replace", "opened"} => cur.call.op = "create"
  /\ cur.call.op = "write" => Writing(f)
  /\ cur.call.op = "read" => Reading(f)
  /\ cur.call.op = "seek" => Seeking(f)
  /\ cur.call.op \in Moving => cur.call.n \in Nat
  /\ cur.call.op = "write" => cur.call.v \in Values

ViewInv ==
  IF Idle THEN cur = NoLocals
  ELSE /\ \A f \in Names : f # cur.call.f => AsBefore(f)
       /\ ViewOf(cur.call.f)
       /\ before.handles = [f \in OpenNow |-> before.handles[f]]
       /\ \A f \in OpenNow : HandleBefore(f)
       /\ before.files = [f \in DOMAIN before.files |-> before.files[f]] /\ DOMAIN before.files \subseteq Names
       /\ \A f \in DOMAIN before.files : before.files[f] \in Seq(Values)
       /\ cur.call.op \in OpenOps \cup Moving \cup {"sync", "close", "unlink"}

KeptType == kept = [f \in DOMAIN kept |-> kept[f]] /\ DOMAIN kept \subseteq Names

FilesInv ==
  /\ FatInv /\ DataInv /\ ViewInv /\ KeptType
  /\ \A f \in Names : BufferInv(f) /\ KeptInv(f) /\ SettledInv(f)

-----------------------------------------------------------------------------
(* The files that a step leaves alone.                                     *)

OthersAlike(f) ==
  \A g \in Names : g # f => /\ fil'[g] = fil[g] /\ Line'[g] = Line[g] /\ Mem'[g] = Mem[g] /\ Raw'[g] = Raw[g]
                            /\ dir'[g] = dir[g]

LEMMA SizeIs ==
  ASSUME FatInv, NEW f \in Names
  PROVE  /\ SizeOf[f] \in Nat /\ SizeOf[f] <= Extent(f) /\ Extent(f) \in Nat
         /\ SizeOf[f] = IF fil[f].open THEN fil[f].fsize ELSE dir[f].size
         /\ \A i \in 1 .. SizeOf[f] : i - 1 \in Span(f)
         /\ \A i \in Nat : i < SizeOf[f] => i \in Span(f)
<1>1. FileInv(f, Line[f]) /\ FilType(fil[f]) /\ dir[f] \in DirEntries /\ Len(Line[f]) \in Nat
  BY LineFacts DEF WholeFile
<1>2. SizeOf[f] = IF fil[f].open THEN fil[f].fsize ELSE dir[f].size
  BY DEF SizeOf
<1>3. SizeOf[f] \in Nat /\ SizeOf[f] <= Len(Line[f]) * ClusterUnits
  BY <1>1, <1>2 DEF FileInv, RoomInv, FilType, DirEntries
<1>4. Extent(f) \in Nat /\ SizeOf[f] <= Extent(f)
  BY <1>1, <1>3, FatConstants, Times DEF Extent
<1>5. \A i \in 1 .. SizeOf[f] : i - 1 \in Span(f)
  BY <1>3, <1>4 DEF Span
<1>6. \A i \in Nat : i < SizeOf[f] => i \in Span(f)
  BY <1>3, <1>4 DEF Span
<1> QED
  BY <1>2, <1>3, <1>4, <1>5, <1>6

LEMMA SizeNext ==
  FatInv' => \A f \in Names : /\ SizeOf'[f] \in Nat /\ SizeOf'[f] = IF fil'[f].open THEN fil'[f].fsize ELSE dir'[f].size
                              /\ SizeOf'[f] <= Extent(f)' /\ Extent(f)' \in Nat
<1>1. FatInv => \A f \in Names : /\ SizeOf[f] \in Nat /\ SizeOf[f] = IF fil[f].open THEN fil[f].fsize ELSE dir[f].size
                                 /\ SizeOf[f] <= Extent(f) /\ Extent(f) \in Nat
  BY SizeIs
<1>2. FatInv' => (\A f \in Names : /\ SizeOf[f] \in Nat /\ SizeOf[f] = IF fil[f].open THEN fil[f].fsize ELSE dir[f].size
                                   /\ SizeOf[f] <= Extent(f) /\ Extent(f) \in Nat)'
  BY <1>1, PTL
<1> QED
  BY <1>2

LEMMA OtherFile ==
  ASSUME FatInv, FatInv', DiskStep, NEW g \in Names,
         fil'[g] = fil[g], Line'[g] = Line[g], Mem'[g] = Mem[g], Raw'[g] = Raw[g], dir'[g] = dir[g],
         ~ Busy(g), ~ Busy(g)', g \in DOMAIN kept' <=> g \in DOMAIN kept, g \in DOMAIN kept => kept'[g] = kept[g],
         BufferInv(g), KeptInv(g), SettledInv(g)
  PROVE  BufferInv(g)' /\ KeptInv(g)' /\ SettledInv(g)' /\ View(g)' = View(g)
<1>1. SizeOf'[g] = SizeOf[g]
  BY SizeIs, SizeNext
<1>2. View(g)' = View(g)
  BY <1>1 DEF View
<1>3. BufferInv(g)'
  <2>1. \A m : Held(g, m)' <=> Held(g, m)
    BY DEF Held
  <2>2. \A m : Coherent(g, m)' <=> Coherent(g, m)
    BY DEF Coherent
  <2>3. ~ Fresh(g)
    BY DEF Fresh
  <2> QED
    BY <2>1, <2>2, <2>3 DEF BufferInv
<1>4. Extends(g)
  BY StaysExtends
<1>5. dir[g].size \in Nat
  BY LineFacts DEF WholeFile, DirEntries
<1>6. SettledInv(g)'
  <2>1. dir[g].used /\ Stored(g, dir[g].size) => Stored(g, dir[g].size)'
    BY <1>4, <1>5, StoredStep
  <2> QED
    BY <2>1 DEF SettledInv
<1>7. KeptInv(g)'
  <2> SUFFICES ASSUME g \in DOMAIN kept PROVE KeptInv(g)'
    BY DEF KeptInv
  <2>1. /\ kept[g] \in Seq(Values \cup {Unknown})
        /\ Len(kept[g]) <= SizeOf[g] /\ Len(kept[g]) <= dir[g].size /\ dir[g].used /\ Stored(g, Len(kept[g]))
        /\ KeptUnits(g)
    BY DEF KeptInv
  <2>2. PICK n \in Nat : n = Len(kept[g])
    BY <2>1, LenProperties
  <2>3. Stored(g, n)'
    BY <1>4, <2>1, <2>2, StoredStep
  <2>4. Len(kept'[g]) = n
    BY <2>2
  <2>5. Stored(g, Len(kept[g]))'
    BY <2>3, <2>4 DEF Stored
  <2>6. KeptUnits(g)'
    BY <2>1 DEF KeptUnits
  <2> QED
    BY <1>1, <2>1, <2>2, <2>4, <2>5, <2>6 DEF KeptInv
<1> QED
  BY <1>2, <1>3, <1>6, <1>7

-----------------------------------------------------------------------------
(* A step within a call of an open file, which leaves its entry alone.     *)

Inner(f) ==
  /\ cur.call.f = f /\ ~ Idle /\ ~ Idle' /\ cur'.call = cur.call
  /\ step \notin {"open", "unlink", "replace", "opened", "flush"}
  /\ step' \notin {"open", "unlink", "replace", "opened"}
  /\ before' = before /\ kept' = kept /\ dir' = dir
  /\ OthersAlike(f) /\ Extends(f) /\ DiskStep
  /\ fil[f].open /\ fil'[f].open /\ fil'[f].write = fil[f].write /\ fil'[f].written = fil[f].written
  /\ fil'[f].fsize = fil[f].fsize

(* What the step does to the units of the file.                            *)
Touches(f) ==
  \A i \in Span(f) : i < fil[f].fsize =>
    \/ Mem'[f][i] = Mem[f][i] /\ Raw'[f][i] \in {Raw[f][i], Mem[f][i]}
    \/ cur.call.op = "write" /\ i + 1 \in fil[f].fptr + 1 .. fil[f].fptr + cur.left

LEMMA KeptOwn ==
  ASSUME FilesInv, FatInv', NEW f \in Names, Inner(f), Touches(f),
         cur.call.op = "write" => fil'[f].fptr \in Nat /\ cur'.left \in Nat /\ fil'[f].fptr >= fil[f].fptr
                                  /\ fil'[f].fptr + cur'.left = fil[f].fptr + cur.left
  PROVE  KeptInv(f)'
<1> SUFFICES ASSUME f \in DOMAIN kept PROVE KeptInv(f)'
  BY DEF KeptInv, Inner
<1>0. KeptInv(f) /\ FatInv
  BY DEF FilesInv
<1>1. /\ kept[f] \in Seq(Values \cup {Unknown})
      /\ Len(kept[f]) <= SizeOf[f] /\ Len(kept[f]) <= dir[f].size /\ dir[f].used /\ Stored(f, Len(kept[f]))
      /\ KeptUnits(f) /\ cur.call.op \notin {"create", "unlink"}
      /\ cur.call.op = "write" =>
         \A i \in 1 .. Len(kept[f]) : i \in fil[f].fptr + 1 .. fil[f].fptr + cur.left => kept[f][i] = Unknown
  BY <1>0 DEF KeptInv, Inner, Busy
<1>2. PICK n \in Nat : n = Len(kept[f])
  BY <1>1, LenProperties
<1>3. kept' = kept /\ dir' = dir /\ cur.call.f = f /\ cur'.call = cur.call
      /\ SizeOf[f] = fil[f].fsize /\ SizeOf'[f] = fil[f].fsize /\ SizeOf[f] \in Nat
  BY <1>0, SizeIs, SizeNext DEF Inner
<1>4. Stored(f, n)'
  <2>1. Extends(f) /\ DiskStep
    BY DEF Inner
  <2> QED
    BY <1>0, <1>1, <1>2, <2>1, StoredStep
<1>5. Len(kept'[f]) = n
  BY <1>2, <1>3
<1>6. Stored(f, Len(kept[f]))'
  BY <1>4, <1>5 DEF Stored
<1>7. KeptUnits(f)'
  <2> SUFFICES ASSUME NEW i \in 1 .. n, kept[f][i] # Unknown
               PROVE  kept[f][i] = Raw'[f][i - 1] /\ kept[f][i] = Mem'[f][i - 1]
    BY <1>3, <1>5 DEF KeptUnits
  <2>1. i \in 1 .. SizeOf[f] /\ i - 1 < fil[f].fsize /\ (i - 1) + 1 = i /\ i \in Nat
    BY <1>1, <1>2, <1>3
  <2>2. i - 1 \in Span(f)
    BY <1>0, <2>1, SizeIs
  <2>3. kept[f][i] = Raw[f][i - 1] /\ kept[f][i] = Mem[f][i - 1]
    BY <1>1, <1>2 DEF KeptUnits
  <2>4. ~ (cur.call.op = "write" /\ i \in fil[f].fptr + 1 .. fil[f].fptr + cur.left)
    BY <1>1, <1>2
  <2> QED
    BY <2>1, <2>2, <2>3, <2>4 DEF Touches
<1>8. cur.call.op = "write" => \A i \in 1 .. n : i \in fil'[f].fptr + 1 .. fil'[f].fptr + cur'.left => kept[f][i] = Unknown
  <2> SUFFICES ASSUME cur.call.op = "write", NEW i \in 1 .. n, i \in fil'[f].fptr + 1 .. fil'[f].fptr + cur'.left
               PROVE  kept[f][i] = Unknown
    OBVIOUS
  <2>1. fil[f].fptr \in Nat /\ cur.left \in Nat
    BY <1>0, LineFacts DEF WholeFile, FilType, FatInv, Types, CurType
  <2>2. i \in fil[f].fptr + 1 .. fil[f].fptr + cur.left
    BY <2>1
  <2> QED
    BY <1>1, <1>2, <2>2
<1> QED
  BY <1>1, <1>2, <1>3, <1>5, <1>6, <1>7, <1>8 DEF KeptInv

LEMMA InnerStep ==
  ASSUME FilesInv, FatInv', NEW f \in Names, Inner(f), Touches(f), DataInv', BufferInv(f)',
         cur.call.op = "write" => fil'[f].fptr \in Nat /\ cur'.left \in Nat /\ fil'[f].fptr >= fil[f].fptr
                                  /\ fil'[f].fptr + cur'.left = fil[f].fptr + cur.left,
         cur.call.op \notin Moving => fil'[f].fptr = fil[f].fptr,
         cur.call.op = "write" => Writing(f)',
         cur.call.op = "read" => Reading(f)',
         cur.call.op = "seek" => Seeking(f)'
  PROVE  FilesInv'
<1>0. /\ FatInv /\ DataInv /\ ViewInv /\ KeptType
      /\ \A g \in Names : BufferInv(g) /\ KeptInv(g) /\ SettledInv(g)
  BY DEF FilesInv
<1>1. /\ cur.call.f = f /\ ~ Idle /\ ~ Idle' /\ cur'.call = cur.call
      /\ step \notin {"open", "unlink", "replace", "opened", "flush"}
      /\ step' \notin {"open", "unlink", "replace", "opened"}
      /\ before' = before /\ kept' = kept /\ dir' = dir
      /\ OthersAlike(f) /\ Extends(f) /\ DiskStep
      /\ fil[f].open /\ fil'[f].open /\ fil'[f].write = fil[f].write /\ fil'[f].written = fil[f].written
      /\ fil'[f].fsize = fil[f].fsize
  BY DEF Inner
<1>2. ASSUME NEW g \in Names, g # f
      PROVE  BufferInv(g)' /\ KeptInv(g)' /\ SettledInv(g)' /\ View(g)' = View(g) /\ fil'[g] = fil[g]
  <2>1. fil'[g] = fil[g] /\ Line'[g] = Line[g] /\ Mem'[g] = Mem[g] /\ Raw'[g] = Raw[g] /\ dir'[g] = dir[g]
    BY <1>1, <1>2 DEF OthersAlike
  <2>2. ~ Busy(g) /\ ~ Busy(g)'
    BY <1>1, <1>2 DEF Busy
  <2> QED
    BY <1>0, <1>1, <1>2, <2>1, <2>2, OtherFile
<1>3. KeptInv(f)'
  BY KeptOwn
<1>4. SettledInv(f)'
  <2> SUFFICES ASSUME dir[f].used, ~ fil[f].written PROVE Stored(f, dir[f].size)'
    BY <1>1 DEF SettledInv
  <2>1. Stored(f, dir[f].size)
    BY <1>0, <1>1 DEF SettledInv
  <2>2. PICK n \in Nat : n = dir[f].size
    BY <1>0, LineFacts DEF WholeFile, DirEntries
  <2>3. Stored(f, n)'
    BY <1>0, <1>1, <2>1, <2>2, StoredStep
  <2>4. dir'[f].size = n
    BY <1>1, <2>2
  <2> QED
    BY <2>3, <2>4 DEF Stored
<1>5. ViewOf(f) /\ cur.call.op \in OpenOps \cup Moving \cup {"sync", "close", "unlink"}
  BY <1>0, <1>1 DEF ViewInv
<1>6. cur.call.op # "write" => View(f)' = View(f)
  <2> SUFFICES ASSUME cur.call.op # "write" PROVE View(f)' = View(f)
    OBVIOUS
  <2>1. SizeOf[f] = fil[f].fsize /\ SizeOf'[f] = fil[f].fsize /\ SizeOf[f] \in Nat
    BY <1>0, <1>1, SizeIs, SizeNext
  <2>2. ASSUME NEW i \in 1 .. SizeOf[f] PROVE Mem'[f][i - 1] = Mem[f][i - 1]
    <3>1. i - 1 \in Span(f) /\ i - 1 < fil[f].fsize
      BY <1>0, <2>1, SizeIs
    <3> QED
      BY <3>1 DEF Touches
  <2> QED
    BY <2>1, <2>2 DEF View
<1>7. ViewOf(f)'
  <2>1. cur.call.op \in {"read", "seek", "sync", "close"} => AsBefore(f)'
    <3> SUFFICES ASSUME cur.call.op \in {"read", "seek", "sync", "close"} PROVE AsBefore(f)'
      OBVIOUS
    <3>1. AsBefore(f) /\ View(f)' = View(f)
      BY <1>5, <1>6 DEF ViewOf
    <3> QED
      BY <1>1, <3>1 DEF AsBefore
  <2>2. cur.call.op # "unlink" \/ ~ dir[f].used
    BY <1>1, <1>5 DEF ViewOf
  <2>3. /\ cur.call.op \in Moving => cur.call.n \in Nat
        /\ cur.call.op = "write" => cur.call.v \in Values
    BY <1>5 DEF ViewOf
  <2> QED
    BY <1>1, <2>1, <2>2, <2>3 DEF ViewOf
<1>8. ViewInv'
  <2>1. /\ \A g \in Names : g # f => AsBefore(g)
        /\ before.handles = [g \in OpenNow |-> before.handles[g]]
        /\ \A g \in OpenNow : HandleBefore(g)
        /\ before.files = [g \in DOMAIN before.files |-> before.files[g]] /\ DOMAIN before.files \subseteq Names
        /\ \A g \in DOMAIN before.files : before.files[g] \in Seq(Values)
    BY <1>0, <1>1 DEF ViewInv
  <2>2. ASSUME NEW g \in Names, g # f PROVE AsBefore(g)'
    <3>1. AsBefore(g) /\ View(g)' = View(g)
      BY <1>2, <2>1, <2>2
    <3> QED
      BY <1>1, <3>1 DEF AsBefore
  <2>3. ASSUME NEW g \in Names PROVE fil'[g].open = fil[g].open
    <3>1. CASE g = f
      BY <1>1, <3>1
    <3>2. CASE g # f
      BY <1>2, <3>2
    <3> QED
      BY <3>1, <3>2
  <2>4. OpenNow' = OpenNow
    BY <2>3 DEF OpenNow
  <2>5. ASSUME NEW g \in OpenNow PROVE HandleBefore(g)'
    <3>1. HandleBefore(g) /\ g \in Names
      BY <2>1, <2>5 DEF OpenNow
    <3>2. CASE g = f
      <4>1. cur.call.op \in Moving \/ fil'[f].fptr = fil[f].fptr
        OBVIOUS
      <4> QED
        BY <1>1, <3>1, <3>2, <4>1 DEF HandleBefore, Busy
    <3>3. CASE g # f
      BY <1>1, <1>2, <3>1, <3>3 DEF HandleBefore, Busy
    <3> QED
      BY <3>2, <3>3
  <2> QED
    BY <1>1, <1>5, <1>7, <2>1, <2>2, <2>4, <2>5 DEF ViewInv
<1>9. KeptType'
  BY <1>0, <1>1 DEF KeptType
<1> QED
  BY <1>2, <1>3, <1>4, <1>8, <1>9 DEF FilesInv

LEMMA LinesStay ==
  ASSUME FatInv, FatInv', fat' = fat, NEW f \in Names, Lead(f)' = Lead(f)
  PROVE  Line'[f] = Line[f]
<1>1. \A i \in 1 .. Len(Line[f]) : fat'[Line[f][i]] = fat[Line[f][i]]
  OBVIOUS
<1> QED
  BY <1>1, LineStays

LEMMA DataSame ==
  ASSUME FatInv, NEW f \in Names, data' = data,
         \A g \in Names : g # f => fil'[g] = fil[g] /\ Line'[g] = Line[g] /\ dir'[g] = dir[g]
  PROVE  OthersAlike(f)
BY OthersSame DEF OthersAlike

NeedsSector(f) ==
  ((fil[f].fptr % SectorSize) # 0 /\ ~ (Busy(f) /\ step = "fill")) \/ (Busy(f) /\ step \in {"fit", "pick"})

LEMMA HeldKept ==
  ASSUME FatInv, FatInv', NEW f \in Names, Extends(f), fil'[f].dsect = fil[f].dsect, NEW m, Held(f, m)
  PROVE  Held(f, m)'
<1>1. m \in Nat /\ m < Len(Line[f]) * ClusterSize /\ fil[f].dsect = SectorAt(Line[f], m)
  BY DEF Held
<1>2. (m \div ClusterSize) + 1 \in 1 .. Len(Line[f])
  BY <1>1, SectorPlace
<1>3. SectorAt(Line'[f], m) = SectorAt(Line[f], m)
  BY <1>2 DEF Extends, SectorAt
<1>4. Len(Line[f]) * ClusterSize <= Len(Line'[f]) * ClusterSize /\ Len(Line[f]) * ClusterSize \in Nat /\ Len(Line'[f]) * ClusterSize \in Nat
  <2>1. Len(Line[f]) \in Nat /\ Len(Line'[f]) \in Nat
    BY LineFacts, LineNext DEF WholeFile
  <2> QED
    BY <2>1, FatConstants, Times DEF Extends
<1> QED
  BY <1>1, <1>3, <1>4 DEF Held

LEMMA BufferCalm ==
  ASSUME FatInv, FatInv', NEW f \in Names, BufferInv(f), fil'[f].open => fil[f].open, Extends(f),
         fil'[f].dsect = fil[f].dsect, fil'[f].buf = fil[f].buf, fil'[f].dirty => fil[f].dirty,
         \A i \in Span(f) : Mem'[f][i] = Mem[f][i], ~ Fresh(f),
         NeedsSector(f)' => Held(f, (fil'[f].fptr \div SectorSize))
  PROVE  BufferInv(f)'
<1> SUFFICES ASSUME fil'[f].open PROVE BufferInv(f)'
  BY DEF BufferInv
<1>1. fil[f].dirty => fil[f].dsect # NoSector
  BY DEF BufferInv
<1>2. fil[f].dsect # NoSector => \E m \in Nat : Held(f, m)' /\ Coherent(f, m)'
  <2> SUFFICES ASSUME fil[f].dsect # NoSector PROVE \E m \in Nat : Held(f, m)' /\ Coherent(f, m)'
    OBVIOUS
  <2>1. PICK m \in Nat : Held(f, m) /\ Coherent(f, m)
    BY DEF BufferInv
  <2>2. Held(f, m)'
    BY <2>1, HeldKept
  <2>3. \A o \in InSector : m * SectorSize + o \in Span(f)
    BY <2>1, SectorUnits DEF Held
  <2>4. Coherent(f, m)'
    BY <2>1, <2>3 DEF Coherent
  <2> QED
    BY <2>2, <2>4
<1>3. NeedsSector(f)' => Held(f, fil[f].fptr \div SectorSize)'
  <2> SUFFICES ASSUME NeedsSector(f)' PROVE Held(f, fil[f].fptr \div SectorSize)'
    OBVIOUS
  <2>1. PICK m : m = (fil'[f].fptr \div SectorSize)
    OBVIOUS
  <2>2. Held(f, m)'
    BY <2>1, HeldKept
  <2> QED
    BY <2>1, <2>2 DEF Held
<1> QED
  BY <1>1, <1>2, <1>3 DEF BufferInv, NeedsSector

LEMMA WritingCalm ==
  ASSUME FatInv, FatInv', NEW f \in Names, Writing(f), Extends(f), cur.call.f = f, cur'.call = cur.call,
         fil[f].fptr <= Extent(f), fil[f].open, before' = before, fil'[f].fsize = fil[f].fsize, fil'[f].fptr = fil[f].fptr, cur'.left = cur.left,
         \A i \in Span(f) : Mem'[f][i] = Mem[f][i],
         step' = "written" \/ (step' = "got" /\ cur'.new = 0) => Full'
  PROVE  Writing(f)'
<1>1. Greater(fil[f].fsize, fil[f].fptr) \in Nat /\ Greater(fil[f].fsize, fil[f].fptr) <= Extent(f) /\ Extent(f) \in Nat
  <2>1. SizeOf[f] = fil[f].fsize /\ fil[f].fsize <= Extent(f) /\ Extent(f) \in Nat /\ fil[f].fsize \in Nat
    BY SizeIs
  <2>2. fil[f].fptr \in Nat
    BY LineFacts DEF WholeFile, FilType
  <2> QED
    BY <2>1, <2>2 DEF Greater
<1>2. ASSUME NEW i \in 1 .. Greater(fil[f].fsize, fil[f].fptr) PROVE Mem'[f][i - 1] = Mem[f][i - 1]
  <2>1. i - 1 \in Span(f)
    BY <1>1 DEF Span
  <2> QED
    BY <2>1
<1> QED
  BY <1>2 DEF Writing

(* A step that changes no unit and no buffer.                              *)
Calm(f) ==
  /\ cur.call.f = f /\ ~ Idle /\ ~ Idle' /\ cur'.call = cur.call
  /\ step \notin {"open", "unlink", "replace", "opened", "flush", "fit"}
  /\ step' \notin {"open", "unlink", "replace", "opened"}
  /\ before' = before /\ kept' = kept /\ dir' = dir /\ data' = data
  /\ (\A g \in Names : g # f => fil'[g] = fil[g] /\ Line'[g] = Line[g]) /\ Extends(f) /\ DiskStep
  /\ fil[f].open /\ fil'[f].open /\ fil'[f].write = fil[f].write /\ fil'[f].written = fil[f].written
  /\ fil'[f].fsize = fil[f].fsize
  /\ fil'[f].dirty = fil[f].dirty /\ fil'[f].dsect = fil[f].dsect /\ fil'[f].buf = fil[f].buf
  /\ NeedsSector(f)' => Held(f, (fil'[f].fptr \div SectorSize))
  /\ cur.call.op \notin {"read", "seek"} => fil'[f].fptr = fil[f].fptr
  /\ cur.call.op = "write" => fil[f].fptr <= Extent(f) /\ cur'.left = cur.left
  /\ cur.call.op = "write" /\ (step' = "written" \/ (step' = "got" /\ cur'.new = 0)) => Full'

LEMMA CalmSame ==
  ASSUME FilesInv, FatInv', NEW f \in Names, Calm(f)
  PROVE  SameUnits(f)
BY OwnSame DEF Calm, FilesInv

LEMMA CalmStep ==
  ASSUME FilesInv, FatInv', NEW f \in Names, Calm(f),
         cur.call.op = "read" => Reading(f)', cur.call.op = "seek" => Seeking(f)'
  PROVE  FilesInv'
<1>0. FatInv /\ DataInv /\ ViewInv /\ BufferInv(f)
  BY DEF FilesInv
<1>1. SameUnits(f)
  BY CalmSame
<1>2. OthersAlike(f)
  BY <1>0, DataSame DEF Calm
<1>3. Inner(f)
  BY <1>2 DEF Calm, Inner
<1>4. Touches(f)
  BY <1>1 DEF Touches, SameUnits
<1>5. DataInv'
  <2>1. \A g \in Names : fil'[g].buf = fil[g].buf
    <3> TAKE g \in Names
    <3>1. CASE g = f
      BY <3>1 DEF Calm
    <3>2. CASE g # f
      BY <3>2 DEF Calm
    <3> QED
      BY <3>1, <3>2
  <2> QED
    BY <1>0, <2>1 DEF DataInv, Calm
<1>6. BufferInv(f)'
  <2>1. ~ Fresh(f)
    BY DEF Fresh, Calm
  <2> QED
    BY <1>0, <1>1, <2>1, BufferCalm DEF Calm, SameUnits
<1>7. cur.call.op = "write" => Writing(f)'
  <2> SUFFICES ASSUME cur.call.op = "write" PROVE Writing(f)'
    OBVIOUS
  <2>1. Writing(f)
    BY <1>0 DEF ViewInv, ViewOf, Calm
  <2> QED
    BY <1>0, <1>1, <2>1, WritingCalm DEF Calm, SameUnits
<1>8. cur.left \in Nat /\ fil[f].fptr \in Nat
  BY <1>0, LineFacts DEF WholeFile, FilType, FatInv, Types, CurType
<1>9. /\ cur.call.op = "write" => fil'[f].fptr = fil[f].fptr /\ cur'.left = cur.left
      /\ cur.call.op \notin Moving => fil'[f].fptr = fil[f].fptr
  BY DEF Calm, Moving
<1>10. fil[f].fptr >= fil[f].fptr
  BY <1>8
<1> QED
  BY <1>3, <1>4, <1>5, <1>6, <1>7, <1>8, <1>9, <1>10, InnerStep

LEMMA ReadingCalm ==
  ASSUME FatInv, FatInv', NEW f \in Names, Reading(f), cur'.call = cur.call, fil[f].fptr <= Extent(f),
         before' = before, fil'[f].fsize = fil[f].fsize, fil'[f].fptr = fil[f].fptr, cur'.left = cur.left, cur'.out = cur.out,
         before.handles[f].pos \in Nat, \A i \in Span(f) : Mem'[f][i] = Mem[f][i]
  PROVE  Reading(f)'
<1> DEFINE at == before.handles[f].pos
<1>1. fil[f].fptr \in Nat /\ at \in Nat /\ at <= fil[f].fptr /\ Extent(f) \in Nat
  BY LineFacts, SizeIs DEF WholeFile, FilType, Reading
<1> HIDE DEF at
<1>2. ASSUME NEW i \in 1 .. fil[f].fptr - at PROVE Mem'[f][at + i - 1] = Mem[f][at + i - 1]
  <2>1. at + i - 1 \in Span(f)
    BY <1>1 DEF Span
  <2> QED
    BY <2>1
<1>3. before'.handles[f].pos = at
  BY DEF at
<1> QED
  BY <1>2, <1>3 DEF Reading, at

LEMMA PlaceIs ==
  ASSUME FatInv, NEW f \in Names, ~ Idle, fil[f].open
  PROVE  /\ fil[f].fptr \in Nat /\ cur.left \in Nat /\ fil[f].fptr <= Extent(f)
         /\ step \notin {"store", "fit", "fetch", "pick", "follow"} \cup Chaining => Behind(fil[f], Line[f])
         /\ fil[f].fptr <= Len(Line[f]) * ClusterUnits
<1>1. fil[f].fptr \in Nat /\ cur.left \in Nat /\ FilType(fil[f]) /\ FileInv(f, Line[f]) /\ Len(Line[f]) \in Nat
  BY LineFacts DEF WholeFile, FilType, FatInv, Types, CurType
<1>2. PosInv(f, Line[f])
  BY <1>1 DEF FileInv, PlaceInv
<1>3. CASE Ahead(fil[f], Line[f])
  <2>1. fil[f].fptr <= Len(Line[f]) * ClusterUnits
    <3> DEFINE q == fil[f].fptr \div ClusterUnits
    <3>1. q \in Nat /\ fil[f].fptr = q * ClusterUnits + (fil[f].fptr % ClusterUnits)
          /\ (fil[f].fptr % ClusterUnits) \in Nat /\ (fil[f].fptr % ClusterUnits) < ClusterUnits /\ q * ClusterUnits \in Nat
      BY <1>1, FatConstants, DivMod
    <3>2. q + 1 <= Len(Line[f])
      BY <1>3 DEF Ahead
    <3> DEFINE L == Len(Line[f])
    <3>5. L \in Nat /\ q + 1 <= L
      BY <1>1, <3>2
    <3> HIDE DEF q, L
    <3>6. q < L
      BY <3>1, <3>5
    <3>3. (q + 1) * ClusterUnits <= L * ClusterUnits /\ (q + 1) * ClusterUnits = q * ClusterUnits + ClusterUnits
      BY <3>1, <3>5, <3>6, FatConstants, Times
    <3>4. L * ClusterUnits \in Nat /\ ClusterUnits \in Nat
      BY <3>5, FatConstants, Times
    <3>7. PICK x, y : x = q * ClusterUnits /\ y = L * ClusterUnits
      OBVIOUS
    <3>8. fil[f].fptr <= y
      BY <1>1, <3>1, <3>3, <3>4, <3>7
    <3> QED
      BY <3>7, <3>8 DEF L
  <2>3. step \notin {"store", "fit", "fetch", "pick", "follow"} \cup Chaining => Behind(fil[f], Line[f])
    BY <1>2 DEF PosInv, Busy
  <2> QED
    BY <1>1, <2>1, <2>3 DEF Extent
<1>4. CASE ~ Ahead(fil[f], Line[f])
  <2>1. fil[f].fptr <= Len(Line[f]) * ClusterUnits
        \/ (step \in Chaining /\ cur.call.op = "seek" /\ Busy(f) /\ Line[f] = <<>>)
    BY <1>2, <1>4 DEF PosInv
  <2>2. CASE step \in Chaining /\ cur.call.op = "seek" /\ Busy(f) /\ Line[f] = <<>>
    <3>1. FatInvOf(Line)
      BY LineIs
    <3>2. ProgressInv(Line[f]) /\ File = fil[f]
      BY <2>2, <3>1 DEF FatInvOf, Busy, File
    <3>3. fil[f].fptr = 0
      BY <2>2, <3>2 DEF ProgressInv, ChainInv
    <3>4. Len(Line[f]) * ClusterUnits \in Nat
      BY <1>1, FatConstants, Times
    <3> QED
      BY <1>1, <1>2, <2>2, <3>3, <3>4 DEF Extent
  <2>3. step \notin {"store", "fit", "fetch", "pick", "follow"} \cup Chaining => Behind(fil[f], Line[f])
    BY <1>2 DEF PosInv, Busy
  <2> QED
    BY <1>1, <2>1, <2>2, <2>3 DEF Extent
<1> QED
  BY <1>3, <1>4

-----------------------------------------------------------------------------
(* The buffer is written back.                                             *)

(* No chain changes.                                                       *)
LEMMA AllLines ==
  ASSUME FatInv, FatInv', fat' = fat, dir' = dir, NEW f \in Names, fil'[f].open = fil[f].open, fil'[f].sclust = fil[f].sclust,
         \A g \in Names : g # f => fil'[g] = fil[g]
  PROVE  \A g \in Names : Line'[g] = Line[g] /\ Extends(g)
<1>1. ASSUME NEW g \in Names PROVE Lead(g)' = Lead(g)
  <2>1. CASE g = f
    BY <2>1 DEF Lead
  <2>2. CASE g # f
    BY <2>2 DEF Lead
  <2> QED
    BY <2>1, <2>2
<1>2. ASSUME NEW g \in Names PROVE Line'[g] = Line[g] /\ Extends(g)
  BY <1>1, LinesStay, StaysExtends
<1> QED
  BY <1>2

(* The units of sector m are those from m * SectorSize.                    *)
LEMMA UnitsOf ==
  ASSUME NEW i \in Nat, NEW m \in Nat
  PROVE  /\ (i \div SectorSize) = m <=> i \in m * SectorSize .. m * SectorSize + SectorSize - 1
         /\ (i \div SectorSize) = m => (i % SectorSize) = i - m * SectorSize
<1>0. SectorSize \in Nat /\ SectorSize > 0
  BY FatConstants
<1>1. PICK q, r : q = (i \div SectorSize) /\ r = (i % SectorSize)
  OBVIOUS
<1>2. q \in Nat /\ r \in Nat /\ r < SectorSize /\ i = q * SectorSize + r /\ q * SectorSize \in Nat
  BY <1>0, <1>1, DivMod
<1>3. m * SectorSize \in Nat
  BY <1>0, Times
<1>4. CASE q = m
  BY <1>0, <1>1, <1>2, <1>3, <1>4
<1>5. CASE q # m
  <2>1. ASSUME i \in m * SectorSize .. m * SectorSize + SectorSize - 1 PROVE FALSE
    <3>1. PICK o : o = i - m * SectorSize
      OBVIOUS
    <3>2. o \in Nat /\ o < SectorSize /\ i = m * SectorSize + o
      BY <1>0, <1>3, <2>1, <3>1
    <3>3. (i \div SectorSize) = m
      BY <1>0, <3>2, DivIs
    <3> QED
      BY <1>1, <1>5, <3>3
  <2> QED
    BY <1>1, <1>5, <2>1
<1> QED
  BY <1>4, <1>5

(* What the buffer holds of the file is what is read of it.                *)
LEMMA BufferUnits ==
  ASSUME FatInv, NEW f \in Names, NEW m, Held(f, m), NEW i \in Span(f)
  PROVE  InBuffer(f, i) <=> fil[f].dirty /\ (i \div SectorSize) = m
<1>1. (i \div SectorSize) \in Nat /\ (i \div SectorSize) < Len(Line[f]) * ClusterSize
  BY UnitCluster
<1>2. m \in Nat /\ m < Len(Line[f]) * ClusterSize /\ fil[f].dsect = SectorAt(Line[f], m)
  BY DEF Held
<1> QED
  BY <1>1, <1>2, SectorsDiffer DEF InBuffer

LEMMA FlushUnits ==
  ASSUME FilesInv, FatInv', NEW f \in Names, cur.call.f = f, fil[f].open, WriteBack, UNCHANGED <<fat, dir>>
  PROVE  /\ \A g \in Names : Line'[g] = Line[g] /\ Extends(g)
         /\ \A g \in Names : g # f => fil'[g] = fil[g] /\ Mem'[g] = Mem[g] /\ Raw'[g] = Raw[g]
         /\ fil'[f] = [fil[f] EXCEPT !.dirty = FALSE]
         /\ \A i \in Span(f) : Mem'[f][i] = Mem[f][i] /\ Raw'[f][i] = Mem[f][i]
         /\ DataInv'
<1>0. FatInv /\ DataInv /\ BufferInv(f) /\ File = fil[f] /\ fil[f].dirty /\ FilType(fil[f])
  BY LineFacts DEF FilesInv, WriteBack, File, WholeFile
<1>1. DOMAIN fil' = Names /\ fil'[f] = [fil[f] EXCEPT !.dirty = FALSE] /\ \A g \in Names : g # f => fil'[g] = fil[g]
  BY <1>0, SetFileFacts DEF WriteBack
<1>2. /\ fil'[f].open = fil[f].open /\ fil'[f].sclust = fil[f].sclust /\ fil'[f].dirty = FALSE
      /\ fil'[f].buf = fil[f].buf
  BY <1>0, <1>1 DEF FilType, FilFields
<1>3. \A g \in Names : Line'[g] = Line[g] /\ Extends(g)
  BY <1>0, <1>1, <1>2, AllLines
<1>4. PICK m \in Nat : Held(f, m)
  BY <1>0 DEF BufferInv
<1>5. m < Len(Line[f]) * ClusterSize /\ fil[f].dsect = SectorAt(Line[f], m)
  BY <1>4 DEF Held
<1>6. WrittenAt(f, m * SectorSize, SectorSize, fil[f].buf)
  <2>1. /\ (m \div ClusterSize) + 1 \in 1 .. Len(Line[f])
        /\ fil[f].dsect[1] = Line[f][(m \div ClusterSize) + 1] /\ fil[f].dsect[2] = (m % ClusterSize)
        /\ m * SectorSize \in Nat /\ ((m * SectorSize) \div ClusterUnits) = (m \div ClusterSize)
        /\ ((m * SectorSize) % ClusterUnits) = (m % ClusterSize) * SectorSize
        /\ ((m * SectorSize) % ClusterUnits) + SectorSize <= ClusterUnits
    BY <1>0, <1>5, SectorPlace
  <2>2. WriteUnits(fil[f].dsect[1], fil[f].dsect[2] * SectorSize, SectorSize, fil[f].buf)
    BY <1>0 DEF WriteBack
  <2>3. \A i \in 0 .. SectorSize - 1 : fil[f].buf[i] \in Values
    BY <1>0 DEF DataInv, InSector
  <2>4. SectorSize \in Nat
    BY FatConstants
  <2>5. (m \div ClusterSize) + 1 <= Len(Line[f])
    BY <2>1
  <2> QED
    BY <2>1, <2>2, <2>3, <2>4, <2>5 DEF WrittenAt
<1>7. /\ \A i \in Span(f) : Raw'[f][i] = IF i \in m * SectorSize .. m * SectorSize + SectorSize - 1
                                           THEN fil[f].buf[i - m * SectorSize] ELSE Raw[f][i]
      /\ \A g \in Names : g # f => \A j \in 1 .. Len(Line[g]) : data'[Line[g][j]] = data[Line[g][j]]
      /\ data' \in [Clusters -> [InCluster -> Values]]
  BY <1>0, <1>3, <1>6, Written
<1>8. ASSUME NEW i \in Span(f) PROVE Mem'[f][i] = Mem[f][i] /\ Raw'[f][i] = Mem[f][i]
  <2>0. i \in Nat
    BY <1>0, UnitCluster
  <2>1. InBuffer(f, i) <=> (i \div SectorSize) = m
    BY <1>0, <1>4, BufferUnits
  <2>2. Mem[f][i] = IF (i \div SectorSize) = m THEN fil[f].buf[i % SectorSize] ELSE Raw[f][i]
    BY <2>1 DEF Mem
  <2>3. Raw'[f][i] = Mem[f][i]
    BY <1>7, <2>0, <2>2, UnitsOf
  <2>4. i \in Span(f)'
    BY <1>3 DEF Span, Extent
  <2>5. Mem'[f][i] = Raw'[f][i]
    BY <1>2, <2>4 DEF Mem, InBuffer
  <2> QED
    BY <2>3, <2>5
<1>9. DataInv'
  <2>1. \A g \in Names : fil'[g].buf = fil[g].buf
    BY <1>1, <1>2
  <2> QED
    BY <1>0, <1>7, <2>1 DEF DataInv
<1>10. \A g \in Names : g # f => Mem'[g] = Mem[g] /\ Raw'[g] = Raw[g]
  BY <1>0, <1>1, <1>3, <1>7, OthersSame
<1> QED
  BY <1>1, <1>3, <1>8, <1>9, <1>10

LEMMA FlushStep ==
  ASSUME FilesInv, FatInv', NEW f \in Names, ~ Idle, cur.call.f = f, fil[f].open, step \in {"store", "fetch", "fill", "sync"},
         WriteBack, UNCHANGED <<windowVars, callVars, historyVars>>
  PROVE  FilesInv'
<1>0. FatInv /\ DataInv /\ ViewInv /\ BufferInv(f) /\ FilType(fil[f]) /\ UNCHANGED <<fat, dir>>
  BY LineFacts DEF FilesInv, WholeFile, windowVars
<1>1. /\ \A g \in Names : Line'[g] = Line[g] /\ Extends(g)
      /\ \A g \in Names : g # f => fil'[g] = fil[g] /\ Mem'[g] = Mem[g] /\ Raw'[g] = Raw[g]
      /\ fil'[f] = [fil[f] EXCEPT !.dirty = FALSE]
      /\ \A i \in Span(f) : Mem'[f][i] = Mem[f][i] /\ Raw'[f][i] = Mem[f][i]
      /\ DataInv'
  BY <1>0, FlushUnits
<1>2. /\ fil'[f].open = fil[f].open /\ fil'[f].write = fil[f].write /\ fil'[f].written = fil[f].written
      /\ fil'[f].fsize = fil[f].fsize /\ fil'[f].fptr = fil[f].fptr /\ fil'[f].dsect = fil[f].dsect
      /\ fil'[f].buf = fil[f].buf /\ fil'[f].dirty = FALSE
  BY <1>0, <1>1 DEF FilType, FilFields
<1>3. step' = step /\ cur' = cur /\ before' = before /\ kept' = kept /\ dir' = dir /\ disk' = disk
  BY DEF callVars, historyVars, windowVars
<1>4. Inner(f)
  BY <1>1, <1>2, <1>3 DEF Inner, OthersAlike, DiskStep, Idle
<1>5. Touches(f)
  BY <1>1 DEF Touches
<1>6. BufferInv(f)'
  <2>1. NeedsSector(f)' => Held(f, (fil'[f].fptr \div SectorSize))
    <3>1. NeedsSector(f)' => NeedsSector(f)
      BY <1>2, <1>3 DEF NeedsSector, Busy, Idle
    <3> QED
      BY <1>0, <1>2, <3>1 DEF BufferInv, NeedsSector
  <2> QED
    BY <1>0, <1>1, <1>2, <2>1, BufferCalm DEF Fresh
<1>7. fil[f].fptr \in Nat /\ cur.left \in Nat /\ fil[f].fptr <= Extent(f)
  BY <1>0, PlaceIs
<1>8. cur.call.op = "write" => Writing(f)'
  BY <1>0, <1>1, <1>2, <1>3, <1>7, WritingCalm DEF ViewInv, ViewOf
<1>9. cur.call.op = "read" => Reading(f)'
  <2>1. cur.call.op = "read" => Reading(f) /\ before.handles[f].pos \in Nat
    BY <1>0 DEF ViewInv, ViewOf, HandleBefore, OpenNow
  <2> QED
    BY <1>0, <1>1, <1>2, <1>3, <1>7, <2>1, ReadingCalm
<1>10. cur.call.op = "seek" => Seeking(f)'
  <2>1. cur.call.op = "seek" => Seeking(f)
    BY <1>0 DEF ViewInv, ViewOf
  <2> QED
    BY <1>0, <1>2, <1>3, <2>1 DEF Seeking, Goal, Full
<1>11. fil[f].fptr >= fil[f].fptr
  BY <1>7
<1> QED
  BY <1>1, <1>2, <1>3, <1>4, <1>5, <1>6, <1>7, <1>8, <1>9, <1>10, <1>11, InnerStep

-----------------------------------------------------------------------------
(* The buffer takes the sector of the position.                            *)
LEMMA LoadStep ==
  ASSUME FilesInv, FatInv', NEW f \in Names, ~ Idle, cur.call.f = f, fil[f].open,
         <<step, step'>> \in {<<"fetch", "pick">>, <<"store", "fit">>, <<"fill", "fill">>},
         NEW b, SetFile([fil[f] EXCEPT !.dsect = Sector, !.buf = b]), Ahead(fil[f], Line[f]),
         fil[f].dirty => fil[f].dsect = Sector,
         \/ fil[f].dsect = Sector /\ b = fil[f].buf
         \/ fil[f].dsect # Sector /\ b = SectorData(Sector)
         \/ step' = "fit" /\ fil[f].fptr >= fil[f].fsize /\ ~ fil[f].dirty /\ b = fil[f].buf,
         UNCHANGED <<windowVars, data, cur, historyVars>>
  PROVE  FilesInv'
<1>0. FatInv /\ DataInv /\ ViewInv /\ BufferInv(f) /\ FilType(fil[f]) /\ UNCHANGED <<fat, dir>>
  BY LineFacts DEF FilesInv, WholeFile, windowVars
<1>1. DOMAIN fil' = Names /\ fil'[f] = [fil[f] EXCEPT !.dsect = Sector, !.buf = b] /\ \A g \in Names : g # f => fil'[g] = fil[g]
  BY <1>0, SetFileFacts
<1>2. /\ fil'[f].open = fil[f].open /\ fil'[f].write = fil[f].write /\ fil'[f].written = fil[f].written
      /\ fil'[f].fsize = fil[f].fsize /\ fil'[f].fptr = fil[f].fptr /\ fil'[f].dsect = Sector
      /\ fil'[f].buf = b /\ fil'[f].dirty = fil[f].dirty /\ fil'[f].sclust = fil[f].sclust
  BY <1>0, <1>1 DEF FilType, FilFields
<1>3. cur' = cur /\ before' = before /\ kept' = kept /\ dir' = dir /\ disk' = disk /\ data' = data /\ Idle' = FALSE
  BY DEF historyVars, windowVars, Idle
<1>4. \A g \in Names : Line'[g] = Line[g] /\ Extends(g)
  BY <1>0, <1>1, <1>2, AllLines
<1>5. fil[f].dirty => fil'[f].dsect = fil[f].dsect /\ fil'[f].buf = fil[f].buf
  BY <1>2
<1>6. \A i \in Span(f) : Mem'[f][i] = Mem[f][i] /\ Raw'[f][i] = Raw[f][i]
  BY <1>0, <1>2, <1>3, <1>4, <1>5, OwnSame DEF SameUnits
<1> DEFINE m == fil[f].fptr \div SectorSize
<1>7. Sector = SectorAt(Line[f], m) /\ m \in Nat /\ m < Len(Line[f]) * ClusterSize
  BY <1>0, PositionSector
<1>8. \A o \in InSector : /\ m * SectorSize + o \in Span(f)
                      /\ Raw[f][m * SectorSize + o] = SectorData(Sector)[o]
                      /\ Mem[f][m * SectorSize + o] =
                           IF fil[f].dirty /\ fil[f].dsect = Sector THEN fil[f].buf[o] ELSE Raw[f][m * SectorSize + o]
  BY <1>0, <1>7, SectorUnits
<1>9. b \in [InSector -> Values]
  <2>1. ASSUME NEW o \in InSector PROVE SectorData(Sector)[o] \in Values
    BY <1>0, <1>8, ValuesRead
  <2>2. SectorData(Sector) = [i \in InSector |-> SectorData(Sector)[i]]
    BY DEF SectorData, InSector
  <2>3. SectorData(Sector) \in [InSector -> Values]
    BY <2>1, <2>2
  <2> QED
    BY <1>0, <2>3 DEF DataInv
<1>10. DataInv'
  <2>1. \A g \in Names : fil'[g].buf \in [InSector -> Values]
    BY <1>0, <1>1, <1>2, <1>9 DEF DataInv
  <2> QED
    BY <1>0, <1>3, <2>1 DEF DataInv
<1>m. m' = m
  BY <1>2
<1>11. Held(f, m)'
  BY <1>2, <1>4, <1>7, <1>m DEF Held
<1>12. Fresh(f)' \/ Coherent(f, m)'
  <2> HIDE DEF m
  <2>1. CASE fil[f].dsect = Sector /\ b = fil[f].buf
    <3>1. Coherent(f, m)
      BY <1>0, <1>7, <2>1, BufferFacts DEF Fresh
    <3> QED
      BY <1>2, <1>6, <1>8, <1>m, <2>1, <3>1 DEF Coherent
  <2>2. CASE fil[f].dsect # Sector /\ b = SectorData(Sector)
    <3>1. \A o \in InSector : fil'[f].buf[o] = Mem[f][m * SectorSize + o]
      BY <1>2, <1>8, <2>2
    <3> QED
      BY <1>6, <1>8, <1>m, <3>1 DEF Coherent
  <2>3. CASE step' = "fit" /\ fil[f].fptr >= fil[f].fsize /\ ~ fil[f].dirty /\ b = fil[f].buf
    BY <1>2, <1>3, <2>3 DEF Fresh, Busy
  <2> QED
    BY <2>1, <2>2, <2>3
<1>13. BufferInv(f)'
  <2>1. Sector # NoSector
    BY <1>0, <1>7, SectorPlace
  <2>2. (fil'[f].fptr \div SectorSize) = m
    BY <1>2
  <2> HIDE DEF m
  <2>3. m \in Nat /\ Held(f, m)' /\ (Fresh(f)' \/ Coherent(f, m)') /\ fil'[f].dsect # NoSector
    BY <1>2, <1>7, <1>11, <1>12, <2>1
  <2> QED
    BY <1>m, <2>2, <2>3 DEF BufferInv, Held, Coherent
<1>14. OthersAlike(f)
  BY <1>0, <1>1, <1>3, <1>4, DataSame
<1>15. Inner(f)
  BY <1>1, <1>2, <1>3, <1>4, <1>14 DEF Inner, DiskStep, Idle
<1>16. Touches(f)
  BY <1>6 DEF Touches
<1>17. fil[f].fptr \in Nat /\ cur.left \in Nat /\ fil[f].fptr <= Extent(f) /\ fil[f].fptr >= fil[f].fptr
  BY <1>0, PlaceIs
<1>18. cur.call.op = "write" => Writing(f)'
  BY <1>0, <1>2, <1>3, <1>4, <1>6, <1>17, WritingCalm DEF ViewInv, ViewOf
<1>19. cur.call.op = "read" => Reading(f)'
  <2>1. cur.call.op = "read" => Reading(f) /\ before.handles[f].pos \in Nat
    BY <1>0 DEF ViewInv, ViewOf, HandleBefore, OpenNow
  <2> QED
    BY <1>0, <1>2, <1>3, <1>6, <1>17, <2>1, ReadingCalm
<1>20. cur.call.op = "seek" => Seeking(f)'
  <2>1. cur.call.op = "seek" => Seeking(f)
    BY <1>0 DEF ViewInv, ViewOf
  <2> QED
    BY <1>0, <1>2, <1>3, <2>1 DEF Seeking, Goal, Full
<1> QED
  BY <1>2, <1>3, <1>10, <1>13, <1>15, <1>16, <1>17, <1>18, <1>19, <1>20, InnerStep

-----------------------------------------------------------------------------
(* Steps that change no unit and no buffer.                                *)

LEMMA NowFacts ==
  ASSUME FilesInv, NEW f \in Names, Now(f, Line), fil[f].open
  PROVE  /\ FatInv /\ DataInv /\ ViewInv /\ BufferInv(f) /\ ViewOf(f)
         /\ ~ Idle /\ cur.call.f = f /\ File = fil[f] /\ FilType(fil[f])
         /\ fil[f].fptr \in Nat /\ fil[f].fsize \in Nat /\ cur.left \in Nat
         /\ fil[f].fptr <= Extent(f) /\ Extent(f) \in Nat /\ fil[f].fsize <= Extent(f)
         /\ before.handles[f].pos \in Nat
         /\ ProgressInv(Line[f]) /\ FileInv(f, Line[f]) /\ Len(Line[f]) \in Nat
         /\ Line[f] = <<>> <=> fil[f].sclust = 0
<1>1. FatInv /\ DataInv /\ ViewInv /\ BufferInv(f)
  BY DEF FilesInv
<1>2. /\ ~ Idle /\ cur.call.f = f /\ File = fil[f] /\ FilType(fil[f]) /\ CurType(cur)
      /\ ProgressInv(Line[f]) /\ FileInv(f, Line[f]) /\ Len(Line[f]) \in Nat
      /\ Line[f] = <<>> <=> fil[f].sclust = 0
  BY DEF Now, Lead
<1>3. fil[f].fptr <= Extent(f)
  BY <1>1, <1>2, PlaceIs
<1>4. Extent(f) \in Nat /\ fil[f].fsize <= Extent(f)
  BY <1>1, <1>2, SizeIs DEF FileInv, RoomInv, Extent
<1>5. before.handles[f].pos \in Nat /\ ViewOf(f)
  BY <1>1, <1>2 DEF ViewInv, HandleBefore, OpenNow
<1> QED
  BY <1>1, <1>2, <1>3, <1>4, <1>5 DEF FilType, CurType

(* What such a step leaves of the file.                                    *)
Alike(h, g) ==
  /\ g.open = h.open /\ g.write = h.write /\ g.written = h.written /\ g.fsize = h.fsize
  /\ g.dirty = h.dirty /\ g.dsect = h.dsect /\ g.buf = h.buf

LEMMA AlikeFields ==
  ASSUME NEW h, FilType(h), NEW c, NEW s, NEW p
  PROVE  /\ Alike(h, h)
         /\ Alike(h, [h EXCEPT !.clust = c]) /\ [h EXCEPT !.clust = c].fptr = h.fptr /\ [h EXCEPT !.clust = c].sclust = h.sclust
         /\ Alike(h, [h EXCEPT !.clust = c, !.sclust = s]) /\ [h EXCEPT !.clust = c, !.sclust = s].fptr = h.fptr
         /\ Alike(h, [h EXCEPT !.sclust = s, !.clust = c]) /\ [h EXCEPT !.sclust = s, !.clust = c].fptr = h.fptr
         /\ Alike(h, [h EXCEPT !.fptr = p]) /\ [h EXCEPT !.fptr = p].fptr = p /\ [h EXCEPT !.fptr = p].sclust = h.sclust
         /\ Alike(h, [h EXCEPT !.fptr = p, !.clust = c]) /\ [h EXCEPT !.fptr = p, !.clust = c].fptr = p
         /\ [h EXCEPT !.fptr = p, !.clust = c].sclust = h.sclust
         /\ Alike(h, [h EXCEPT !.clust = c, !.fptr = p]) /\ [h EXCEPT !.clust = c, !.fptr = p].fptr = p
         /\ [h EXCEPT !.clust = c, !.fptr = p].sclust = h.sclust
         /\ [h EXCEPT !.clust = c].clust = c
BY DEF Alike, FilType, FilFields

LEMMA CalmIs ==
  ASSUME FilesInv, FatInv', NEW f \in Names, Now(f, Line), fil[f].open, ~ Idle', cur'.call = cur.call,
         NEW h, Becomes(f, h), Alike(fil[f], h), h.sclust = fil[f].sclust \/ fil[f].sclust = 0,
         step \notin {"open", "unlink", "replace", "opened", "flush", "fit"},
         step' \notin {"open", "unlink", "replace", "opened"},
         UNCHANGED historyVars, fat' = fat, dir' = dir, data' = data, DiskStep,
         NeedsSector(f)' => Held(f, (h.fptr \div SectorSize)),
         cur.call.op \notin {"read", "seek"} => h.fptr = fil[f].fptr,
         cur.call.op = "write" => cur'.left = cur.left,
         cur.call.op = "write" /\ (step' = "written" \/ (step' = "got" /\ cur'.new = 0)) => Full
  PROVE  Calm(f)
<1>1. FatInv /\ FatInv' /\ ~ Idle /\ cur.call.f = f /\ fil[f].fptr <= Extent(f) /\ (Line[f] = <<>> <=> fil[f].sclust = 0)
  BY NowFacts
<1>2. fil'[f] = h /\ \A g \in Names : g # f => fil'[g] = fil[g]
  BY DEF Becomes
<1>3. ASSUME NEW g \in Names, g # f PROVE Line'[g] = Line[g]
  <2>1. Lead(g)' = Lead(g)
    BY <1>2, <1>3 DEF Lead
  <2> QED
    BY <1>1, <2>1, LinesStay
<1>4. Extends(f)
  <2>1. Line[f] # <<>> => Lead(f)' = Lead(f)
    BY <1>1, <1>2 DEF Lead, Alike
  <2> QED
    BY <1>1, <2>1, LineGrows
<1>5. Full' = Full
  BY DEF Full
<1> QED
  BY <1>1, <1>2, <1>3, <1>4, <1>5 DEF Calm, Alike, historyVars

(* At the edge of a cluster a sector begins.                               *)
LEMMA EdgeSector ==
  ASSUME NEW p \in Nat
  PROVE  /\ (p % ClusterUnits) = 0 => (p % SectorSize) = 0
         /\ (p % SectorSize) = 0 => p = (p \div SectorSize) * SectorSize
<1>0. SectorSize \in Nat /\ SectorSize > 0
  BY FatConstants
<1>1. /\ (p \div SectorSize) \in Nat /\ (p % SectorSize) \in InSector
      /\ p = (p \div SectorSize) * SectorSize + (p % SectorSize)
      /\ ((p \div SectorSize) % ClusterSize) \in Nat
      /\ (p % ClusterUnits) = ((p \div SectorSize) % ClusterSize) * SectorSize + (p % SectorSize)
  BY Digits
<1>2. ((p \div SectorSize) % ClusterSize) * SectorSize \in Nat /\ (p \div SectorSize) * SectorSize \in Nat
  BY <1>0, <1>1, Times
<1>3. PICK x, y, r : x = ((p \div SectorSize) % ClusterSize) * SectorSize /\ y = (p \div SectorSize) * SectorSize /\ r = (p % SectorSize)
  OBVIOUS
<1>4. r \in Nat /\ x \in Nat /\ y \in Nat /\ p = y + r /\ (p % ClusterUnits) = x + r
  BY <1>0, <1>1, <1>2, <1>3 DEF InSector
<1> QED
  BY <1>3, <1>4

(* Which call it is.                                                       *)
LEMMA CallKind ==
  ASSUME FilesInv, NEW f \in Names, Now(f, Line)
  PROVE  /\ step \in {"write", "store", "fit", "written"} => cur.call.op = "write" /\ fil[f].open /\ fil[f].write
         /\ step \in {"read", "fetch", "pick"} => cur.call.op = "read" /\ fil[f].open
         /\ step \in {"seek", "follow", "fill"} => cur.call.op = "seek" /\ fil[f].open
         /\ step \in {"chain", "link", "got"} => cur.call.op \in {"write", "seek"} /\ fil[f].open /\ fil[f].write
BY DEF FilesInv, FatInv, CallInv, Now, WriteSteps, ReadSteps, SeekSteps, Chaining

LEMMA WriteChunkFiles ==
  ASSUME FilesInv, FatInv', NEW f \in Names, Now(f, Line), WriteChunk
  PROVE  FilesInv'
<1>1. step = "write" /\ AtSector /\ UNCHANGED <<windowVars, data, fsiVars, historyVars>>
  BY DEF WriteChunk
<1>2. cur.call.op = "write" /\ fil[f].open
  BY <1>1, CallKind
<1>3. /\ FatInv /\ ~ Idle /\ cur.call.f = f /\ File = fil[f] /\ FilType(fil[f]) /\ (fil[f].fptr % SectorSize) = 0
      /\ CurType(cur) /\ fat' = fat /\ dir' = dir /\ data' = data /\ DiskStep
  BY <1>1, <1>2, NowFacts DEF AtSector, Now, windowVars, DiskStep
<1>4. \E h : Becomes(f, h) /\ Alike(fil[f], h) /\ h.sclust = fil[f].sclust /\ h.fptr = fil[f].fptr
  <2>1. CASE fil' = fil
    BY <1>3, <2>1, BecomesFacts, AlikeFields
  <2>2. CASE fil' # fil
    <3>1. PICK c : SetFile([fil[f] EXCEPT !.clust = c])
      BY <1>3, <2>2 DEF WriteChunk
    <3>2. Becomes(f, [fil[f] EXCEPT !.clust = c])
      BY <1>3, <3>1, BecomesFacts
    <3>3. /\ Alike(fil[f], [fil[f] EXCEPT !.clust = c]) /\ [fil[f] EXCEPT !.clust = c].fptr = fil[f].fptr
          /\ [fil[f] EXCEPT !.clust = c].sclust = fil[f].sclust
      <4>1. PICK g : g = fil[f]
        OBVIOUS
      <4>2. FilType(g)
        BY <1>3, <4>1
      <4>3. Alike(g, [g EXCEPT !.clust = c]) /\ [g EXCEPT !.clust = c].fptr = g.fptr /\ [g EXCEPT !.clust = c].sclust = g.sclust
        BY ONLY <4>2 DEF Alike, FilType, FilFields
      <4> QED
        BY <4>1, <4>3
    <3> QED
      BY <3>2, <3>3
  <2> QED
    BY <2>1, <2>2
<1>5. PICK h : Becomes(f, h) /\ Alike(fil[f], h) /\ h.sclust = fil[f].sclust /\ h.fptr = fil[f].fptr
  BY <1>4
<1>6. step' \in {"chain", "store"} /\ cur'.call = cur.call /\ cur'.left = cur.left
  BY <1>3 DEF WriteChunk, Go, CurType
<1>7. ~ NeedsSector(f)' /\ ~ Idle'
  BY <1>3, <1>5, <1>6 DEF NeedsSector, Becomes, Idle
<1>8. Calm(f)
  BY <1>1, <1>2, <1>3, <1>5, <1>6, <1>7, CalmIs
<1> QED
  BY <1>2, <1>8, CalmStep

LEMMA WriteGotFiles ==
  ASSUME FilesInv, FatInv', NEW f \in Names, Now(f, Line), WriteGot
  PROVE  FilesInv'
<1>1. step = "got" /\ cur.call.op = "write" /\ UNCHANGED <<windowVars, data, fsiVars, historyVars>> /\ cur' = cur
  BY DEF WriteGot
<1>2. fil[f].open
  BY <1>1, CallKind
<1>3. /\ FatInv /\ ~ Idle /\ cur.call.f = f /\ File = fil[f] /\ FilType(fil[f]) /\ ProgressInv(Line[f]) /\ ViewOf(f)
      /\ CurType(cur) /\ fat' = fat /\ dir' = dir /\ data' = data /\ DiskStep
  BY <1>1, <1>2, NowFacts DEF AtSector, Now, windowVars, DiskStep
<1>4. \E h : Becomes(f, h) /\ Alike(fil[f], h) /\ (h.sclust = fil[f].sclust \/ fil[f].sclust = 0) /\ h.fptr = fil[f].fptr
  <2>1. CASE fil' = fil
    BY <1>3, <2>1, BecomesFacts, AlikeFields
  <2>2. CASE fil' # fil
    <3> DEFINE s == IF fil[f].sclust = 0 THEN cur.new ELSE fil[f].sclust
               h == [fil[f] EXCEPT !.clust = cur.new, !.sclust = s]
    <3>1. SetFile(h)
      BY <1>3, <2>2 DEF WriteGot
    <3>2. h.sclust = s
      BY <1>3 DEF FilType, FilFields
    <3>3. Becomes(f, h)
      BY <1>3, <3>1, BecomesFacts
    <3>4. Alike(fil[f], h) /\ h.fptr = fil[f].fptr
      BY <1>3 DEF Alike, FilType, FilFields
    <3>5. h.sclust = fil[f].sclust \/ fil[f].sclust = 0
      BY <3>2
    <3> HIDE DEF h
    <3> QED
      BY <3>3, <3>4, <3>5
  <2> QED
    BY <2>1, <2>2
<1>5. PICK h : Becomes(f, h) /\ Alike(fil[f], h) /\ (h.sclust = fil[f].sclust \/ fil[f].sclust = 0) /\ h.fptr = fil[f].fptr
  BY <1>4
<1>6. step' \in {"written", "store"} /\ (step' = "written" => cur.new = 0)
  BY DEF WriteGot, Go
<1>7. (fil[f].fptr % SectorSize) = 0
  BY <1>1, <1>3, EdgeSector DEF ProgressInv, ChainInv, Chaining, AtEdge, FilType
<1>8. ~ NeedsSector(f)' /\ ~ Idle'
  BY <1>3, <1>5, <1>6, <1>7 DEF NeedsSector, Becomes, Idle
<1>9. step' = "written" => Full
  BY <1>1, <1>3, <1>6 DEF ViewOf, Writing
<1>10. Calm(f)
  BY <1>1, <1>2, <1>3, <1>5, <1>6, <1>8, <1>9, CalmIs
<1> QED
  BY <1>1, <1>10, CalmStep

LEMMA FollowFiles ==
  ASSUME FilesInv, FatInv', NEW f \in Names, Now(f, Line), Follow
  PROVE  FilesInv'
<1>1. step = "chain" /\ step' = "got" /\ cur.clust # 0 /\ UNCHANGED <<data, fsiVars, fil, historyVars>>
      /\ fat[cur.clust] \in Clusters /\ cur' = [cur EXCEPT !.new = fat[cur.clust]] /\ get_fat(cur.clust)
  BY DEF Follow, Go
<1>2. fil[f].open /\ cur.call.op \in {"write", "seek"}
  BY <1>1, CallKind
<1>3. /\ FatInv /\ ~ Idle /\ cur.call.f = f /\ File = fil[f] /\ FilType(fil[f]) /\ ProgressInv(Line[f]) /\ ViewOf(f)
      /\ CurType(cur) /\ data' = data
  BY <1>1, <1>2, NowFacts DEF AtSector, Now
<1>4. cur.clust \in Clusters
  <2>1. Line[f] # <<>>
    BY <1>1, <1>3 DEF ProgressInv, ChainInv, Chaining
  <2>2. Line \in Families
    BY <1>3, LineIs
  <2> QED
    BY <1>1, <1>3, <2>1, <2>2, AskedFacts DEF Chaining
<1>5. Quiet
  BY <1>1, <1>3, <1>4, QuietGet
<1>6. Becomes(f, fil[f]) /\ Alike(fil[f], fil[f])
  BY <1>1, <1>3, BecomesFacts, AlikeFields
<1>7. (fil[f].fptr % SectorSize) = 0
  BY <1>1, <1>3, EdgeSector DEF ProgressInv, ChainInv, Chaining, AtEdge, FilType
<1>8. ~ NeedsSector(f)' /\ ~ Idle'
  BY <1>1, <1>3, <1>7 DEF NeedsSector, Idle
<1>9. cur'.call = cur.call /\ cur'.left = cur.left /\ cur'.new # 0
  BY <1>1, <1>3, FatConstants DEF CurType
<1>10. Calm(f)
  BY <1>1, <1>2, <1>3, <1>5, <1>6, <1>8, <1>9, CalmIs DEF Quiet
<1>11. cur.call.op = "seek" => Seeking(f)'
  BY <1>1, <1>3, <1>9 DEF ViewOf, Seeking, Goal
<1>12. cur.call.op # "read"
  BY <1>2
<1> QED
  BY <1>10, <1>11, <1>12, CalmStep

LEMMA NewClusterFiles ==
  ASSUME FilesInv, FatInv', NEW f \in Names, Now(f, Line), NewCluster
  PROVE  FilesInv'
<1>0. FatInv /\ Line \in Families
  BY LineIs DEF FilesInv
<1>1. /\ step = "chain" /\ (cur.clust # 0 => fat[cur.clust] \notin Clusters)
      /\ UNCHANGED <<data, fil, historyVars>>
      /\ NoneIsFree \/ \E n \in Clusters : Taken(n)
  BY <1>0, NewClusterIs
<1>2. fil[f].open /\ cur.call.op \in {"write", "seek"}
  BY <1>1, CallKind
<1>3. /\ FatInv /\ ~ Idle /\ cur.call.f = f /\ File = fil[f] /\ FilType(fil[f]) /\ ProgressInv(Line[f]) /\ ViewOf(f)
      /\ CurType(cur) /\ data' = data /\ fil[f].fptr <= Extent(f)
  BY <1>1, <1>2, NowFacts DEF Now
<1>4. Becomes(f, fil[f]) /\ Alike(fil[f], fil[f])
  BY <1>1, <1>3, BecomesFacts, AlikeFields
<1>5. (fil[f].fptr % SectorSize) = 0
  BY <1>1, <1>3, EdgeSector DEF ProgressInv, ChainInv, Chaining, AtEdge, FilType
<1>6. cur.call.op # "read"
  BY <1>2
<1>7. CASE NoneIsFree
  <2>1. /\ Full /\ cur' = [cur EXCEPT !.new = 0] /\ step' = "got"
    BY <1>7 DEF NoneIsFree, Full
  <2>2. PICK e \in Clusters : ReadOver({FatSector(c) : c \in Clusters}, FatSector(e))
    BY <1>7 DEF NoneIsFree
  <2>3. Quiet
    BY <1>3, <2>1, <2>2, QuietRead, SectorFacts
  <2>4. ~ NeedsSector(f)' /\ ~ Idle'
    BY <1>1, <1>3, <1>5, <2>1 DEF NeedsSector, Idle
  <2>5. cur'.call = cur.call /\ cur'.left = cur.left /\ cur'.new = 0
    BY <1>3, <2>1 DEF CurType
  <2>6. Calm(f)
    BY <1>1, <1>2, <1>3, <1>4, <2>1, <2>3, <2>4, <2>5, CalmIs DEF Quiet
  <2>7. cur.call.op = "seek" => Seeking(f)'
    <3>1. Full'
      BY <2>1, <2>3 DEF Full, Quiet
    <3> QED
      BY <1>1, <1>3, <2>1, <2>5, <3>1 DEF ViewOf, Seeking, Goal
  <2> QED
    BY <1>6, <2>6, <2>7, CalmStep
<1>8. ASSUME NEW n \in Clusters, Taken(n) PROVE FilesInv'
  <2>1. /\ fat[n] = 0 /\ fat' = [fat EXCEPT ![n] = LastLink] /\ wflag' = TRUE /\ dir' = dir
        /\ cur' = [cur EXCEPT !.new = n] /\ step' = "link"
    BY <1>8 DEF Taken
  <2>2. PICK v : FatSector(n) \in v /\ MoveOver(v, FatSector(n))
    BY <1>8 DEF Taken
  <2>3. DiskStep
    <3>1. LastLink \in {0} \cup Clusters \cup {LastLink} /\ LastLink # 0
      BY FatConstants
    <3>2. step' # "fsinfo" /\ WInv
      BY <1>3, <2>1 DEF FatInv
    <3> QED
      BY <2>1, <2>2, <3>1, <3>2, WindowPut
  <2>4. ~ NeedsSector(f)' /\ ~ Idle'
    BY <1>1, <1>3, <1>5, <2>1 DEF NeedsSector, Idle
  <2>5. cur'.call = cur.call /\ cur'.left = cur.left
    BY <1>3, <2>1 DEF CurType
  <2>6. ASSUME NEW g \in Names PROVE Line'[g] = Line[g] /\ Extends(g)
    <3>1. Lead(g)' = Lead(g)
      BY <1>1, <2>1 DEF Lead
    <3>2. ASSUME NEW i \in 1 .. Len(Line[g]) PROVE fat'[Line[g][i]] = fat[Line[g][i]]
      <4>1. Line[g][i] \in Clusters /\ fat[Line[g][i]] # 0
        BY <1>3, LineFacts DEF WholeFile
      <4> QED
        BY <2>1, <4>1
    <3> QED
      BY <1>3, <3>1, <3>2, LineStays, StaysExtends
  <2>7. Calm(f)
    BY <1>1, <1>2, <1>3, <1>4, <2>1, <2>3, <2>4, <2>5, <2>6 DEF Calm, Alike, historyVars, Becomes
  <2>8. cur.call.op = "seek" => Seeking(f)'
    BY <1>1, <1>3, <2>1, <2>5 DEF ViewOf, Seeking, Goal
  <2> QED
    BY <1>6, <2>7, <2>8, CalmStep
<1> QED
  BY <1>1, <1>7, <1>8

LEMMA LinkClusterFiles ==
  ASSUME FilesInv, FatInv', NEW f \in Names, Now(f, Line), LinkCluster
  PROVE  FilesInv'
<1>0. FatInv /\ Line \in Families
  BY LineIs DEF FilesInv
<1>1. step = "link" /\ step' = "got" /\ UNCHANGED <<data, fil, cur, historyVars>>
  BY DEF LinkCluster, Go
<1>2. fil[f].open /\ cur.call.op \in {"write", "seek"}
  BY <1>1, CallKind
<1>3. /\ FatInv /\ ~ Idle /\ cur.call.f = f /\ File = fil[f] /\ FilType(fil[f]) /\ ProgressInv(Line[f]) /\ ViewOf(f)
      /\ CurType(cur) /\ data' = data /\ fil[f].fptr <= Extent(f) /\ Len(Line[f]) \in Nat
  BY <1>1, <1>2, NowFacts DEF Now
<1>4. Becomes(f, fil[f]) /\ Alike(fil[f], fil[f])
  BY <1>1, <1>3, BecomesFacts, AlikeFields
<1>5. (fil[f].fptr % SectorSize) = 0
  BY <1>1, <1>3, EdgeSector DEF ProgressInv, ChainInv, Chaining, AtEdge, FilType
<1>6. cur.call.op # "read" /\ cur.new # 0
  BY <1>1, <1>2, <1>3 DEF ProgressInv, LinkInv
<1>7. ~ NeedsSector(f)' /\ ~ Idle'
  BY <1>1, <1>3, <1>5 DEF NeedsSector, Idle
<1>8. cur.call.op = "seek" => Seeking(f)'
  BY <1>1, <1>3, <1>6 DEF ViewOf, Seeking, Goal
<1>9. CASE cur.clust = 0
  <2>1. UNCHANGED windowVars
    BY <1>9 DEF LinkCluster
  <2>2. Quiet
    BY <1>1, <1>3, <2>1, QuietSame
  <2>3. Calm(f)
    BY <1>1, <1>2, <1>3, <1>4, <1>6, <1>7, <2>2, CalmIs DEF Quiet
  <2> QED
    BY <1>6, <1>8, <2>3, CalmStep
<1>10. CASE cur.clust # 0
  <2> DEFINE L == Len(Line[f])
  <2>1. put_fat(cur.clust, cur.new) /\ L \in 1 .. L /\ cur.clust = Line[f][L] /\ cur.clust \in Clusters
    <3>1. step \in Chaining /\ (Line[f] = <<>> <=> cur.clust = 0)
      BY <1>1, <1>3 DEF ProgressInv, ChainInv, Chaining
    <3>2. Line[f] # <<>> /\ cur.clust = Line[f][L]
      BY <1>1, <1>3, <1>10, <3>1 DEF ProgressInv, LinkInv
    <3>3. L \in 1 .. L /\ \A i \in 1 .. L : Line[f][i] \in Clusters
      BY <1>3, <3>2, LineFacts DEF WholeFile
    <3> QED
      BY <1>10, <3>2, <3>3 DEF LinkCluster
  <2>2. /\ MoveOver({FatSector(cur.clust)}, FatSector(cur.clust)) /\ fat' = [fat EXCEPT ![cur.clust] = cur.new]
        /\ wflag' = TRUE /\ dir' = dir
    BY <2>1 DEF put_fat
  <2>3. DiskStep
    <3>1. cur.new \in {0} \cup Clusters \cup {LastLink} /\ FatSector(cur.clust) \in {FatSector(cur.clust)}
      BY <1>3 DEF CurType, Starts
    <3>2. step' # "fsinfo" /\ WInv
      BY <1>1, <1>3 DEF FatInv
    <3> QED
      BY <1>6, <2>1, <2>2, <3>1, <3>2, WindowPut
  <2>4. ASSUME NEW g \in Names PROVE Lead(g)' = Lead(g)
    BY <1>1, <2>2 DEF Lead
  <2>5. ASSUME NEW g \in Names, g # f PROVE Line'[g] = Line[g]
    <3>1. ASSUME NEW i \in 1 .. Len(Line[g]) PROVE fat'[Line[g][i]] = fat[Line[g][i]]
      <4>1. Line[g][i] \in Clusters
        BY <1>3, LineFacts DEF WholeFile
      <4>2. Line[g][i] # Line[f][L]
        BY <1>3, <2>1, <2>5, LinesApart, HeadsFacts
      <4> QED
        BY <2>1, <2>2, <4>1, <4>2
    <3> QED
      BY <1>3, <2>4, <3>1, LineStays
  <2>6. Extends(f)
    <3>1. ASSUME NEW i \in 1 .. L, i < L PROVE fat'[Line[f][i]] = fat[Line[f][i]]
      <4>1. Line[f][i] \in Clusters /\ (Line[f][i] = Line[f][L] => i = L)
        BY <1>3, <2>1, LineFacts DEF WholeFile
      <4>2. i # L
        BY <1>3, <3>1
      <4> QED
        BY <2>1, <2>2, <4>1, <4>2
    <3> QED
      BY <1>3, <2>4, <3>1, LineGrows
  <2>7. Calm(f)
    BY <1>1, <1>2, <1>3, <1>4, <1>6, <1>7, <2>2, <2>3, <2>5, <2>6 DEF Calm, Alike, historyVars, Becomes
  <2> QED
    BY <1>6, <1>8, <2>7, CalmStep
<1> QED
  BY <1>9, <1>10
=============================================================================
