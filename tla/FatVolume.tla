------------------------------ MODULE FatVolume -------------------------------
(***************************************************************************)
(* A FAT32 volume served by FatFs, L4_IO/fat/ff.c.  The volume's lock      *)
(* (_FS_REENTRANT) serves one call at a time, so a call here is a sequence *)
(* of steps of one task; each step changes the disk at most once, so a     *)
(* power failure may come between any two changes. FAT and directory are   *)
(* changed in one window, which reaches the disk when it moves or when the *)
(* volume is synchronised.  _FS_LOCK and _USE_FASTSEEK are 0: a file is    *)
(* open at most once, and is not removed while open.  One directory sector *)
(* of short names; dates, attributes and disk errors are left out.         *)
(***************************************************************************)
EXTENDS Integers, Sequences, FiniteSets

CONSTANTS
  Names,        \* the files' names
  LastCluster,  \* fs->n_fatent - 1
  PerSector,    \* FAT entries in a sector
  SectorSize,   \* SS(fs), in units
  ClusterSize,  \* fs->csize, sectors in a cluster
  Sizes,        \* Sizes[f] : how many units f_write() writes to file f
  ReadSizes,    \* and f_read() reads
  Offsets,      \* Offsets[f] : where f_lseek() goes in file f
  MaxFatCalls,  \* bound on the calls of f_open(), f_write(), f_lseek()
  MaxRestarts   \* bound on the power failures

ASSUME FatAssumption ==
  /\ LastCluster \in Nat /\ LastCluster >= 3
  /\ {PerSector, SectorSize, ClusterSize} \subseteq Nat \ {0}
  /\ Sizes \in [Names -> SUBSET (Nat \ {0})]
  /\ Offsets \in [Names -> SUBSET Nat] /\ ReadSizes \subseteq Nat \ {0}
  /\ MaxFatCalls \in Nat /\ MaxRestarts \in Nat

VARIABLES
  disk,        \* what a power failure leaves of the FAT, directory and FSINFO
  data,        \* the units stored in each cluster
  fat, dir,    \* the disk's FAT and directory as seen through fs->win[]
  winsect,     \* the sector in the window
  wflag,       \* it is to be written back
  freeClust, lastClust, fsiFlag,  \* fs->free_clust, last_clust, fsi_flag
  fil,         \* the FIL of each file
  step,        \* where the call in progress is
  cur,         \* its locals
  before,      \* history: the files and handles when it started
  got,         \* history: what the f_read() that just returned has read
  kept,        \* history: what was in each file when it was synchronised last
  fatCalls, restarts   \* how many there were

windowVars == <<disk, fat, dir, winsect, wflag>>
fsiVars == <<freeClust, lastClust, fsiFlag>>
callVars == <<step, cur>>
historyVars == <<before, got, kept, fatCalls, restarts>>
fatVars == <<windowVars, data, fsiVars, fil, callVars, historyVars>>

Clusters == 2 .. LastCluster
Root == 2                      \* fs->dirbase: the root directory's cluster
LastLink == LastCluster + 1    \* 0x0FFFFFFF
Unknown == -1                  \* 0xFFFFFFFF
ClusterUnits == ClusterSize * SectorSize
NoEntry == [size |-> 0, first |-> 0, used |-> FALSE]
Entry(size, first) == [size |-> size, first |-> first, used |-> TRUE]
Used(d) == {f \in Names : d[f].used}

FatSector(c) == <<"fat", c \div PerSector>>
DirSector == <<"dir", 0>>
InfoSector == <<"info", 0>>
NoSector == <<0, 0>>

Lesser(x, y) == IF x < y THEN x ELSE y
Greater(x, y) == IF x < y THEN y ELSE x

NoBuf == [i \in 0 .. SectorSize - 1 |-> 0]
Closed == [open |-> FALSE, write |-> FALSE, written |-> FALSE, dirty |-> FALSE, sclust |-> 0,
           clust |-> 0, fsize |-> 0, fptr |-> 0, dsect |-> NoSector, buf |-> NoBuf]
NoLocals == [call |-> [op |-> "none"], left |-> 0, clust |-> 0, new |-> 0,
             out |-> << >>]

-----------------------------------------------------------------------------
(* The contents of a file, from its first cluster and its size: sector k   *)
(* of cluster c is <<c, k>>; a dirty buffer h.buf holds one of them.        *)

Nth(table, first, n) ==
  LET link[i \in 0 .. n] ==
        IF i = 0 THEN first
        ELSE LET c == link[i - 1] IN IF c \in Clusters THEN table[c] ELSE 0
  IN  link[n]

Content(table, first, size, h) ==
  [i \in 1 .. size |->
     LET c == Nth(table, first, (i - 1) \div ClusterUnits)
         o == (i - 1) % ClusterUnits
     IN  IF c \notin Clusters THEN Unknown
         ELSE IF h.dirty /\ h.dsect = <<c, o \div SectorSize>> THEN h.buf[o % SectorSize]
         ELSE data[c][o]]

OfHandle(h) == Content(fat, h.sclust, h.fsize, h)
OfEntry(table, e) == Content(table, e.first, e.size, Closed)

FilesNow ==
  [f \in Used(dir) |-> IF fil[f].open THEN OfHandle(fil[f]) ELSE OfEntry(fat, dir[f])]
HandlesNow ==
  LET open == {f \in Names : fil[f].open}
  IN  [f \in open |-> [pos |-> fil[f].fptr, write |-> fil[f].write]]

SectorData(s) == [i \in 0 .. SectorSize - 1 |-> data[s[1]][s[2] * SectorSize + i]]

(* disk_write(): n units of u from the unit at of cluster c.               *)
WriteUnits(c, at, n, u) ==
  data' = [data EXCEPT ![c] = [i \in DOMAIN @ |-> IF i \in at .. at + n - 1 THEN u[i - at]
                                                                         ELSE @[i]]]

-----------------------------------------------------------------------------
(* A freshly formatted volume is mounted: f_mkfs(), find_volume().         *)
FatInit ==
  /\ fat = [c \in Clusters |-> IF c = Root THEN LastLink ELSE 0]
  /\ dir = [f \in Names |-> NoEntry]
  /\ freeClust = LastCluster - Root
  /\ lastClust = Root
  /\ fsiFlag = FALSE
  /\ disk = [fat |-> fat, dir |-> dir, free |-> freeClust, last |-> lastClust]
  /\ data = [c \in Clusters |-> [i \in 0 .. ClusterUnits - 1 |-> 0]]
  /\ winsect = InfoSector
  /\ wflag = FALSE
  /\ fil = [f \in Names |-> Closed]
  /\ step = "rest"
  /\ cur = NoLocals
  /\ before = [files |-> << >>, handles |-> << >>]
  /\ got = << >>
  /\ kept = << >>
  /\ fatCalls = 0
  /\ restarts = 0

(* sync_window(): the disk once the window is written back.                *)
sync_window ==
  [disk EXCEPT
     !.fat = [c \in Clusters |-> IF wflag /\ FatSector(c) = winsect THEN fat[c] ELSE @[c]],
     !.dir = IF wflag /\ winsect = DirSector THEN dir ELSE @]

Mutant_MoveOver(visited, s) == winsect' = s /\ UNCHANGED disk

(* move_window() to each of the sectors of visited, the last one to s.     *)
MoveOver(visited, s) ==
  /\ winsect' = s
  /\ disk' = IF visited \subseteq {winsect} THEN disk ELSE sync_window

ReadOver(visited, s) ==
  /\ MoveOver(visited, s)
  /\ wflag' = (wflag /\ visited \subseteq {winsect})
  /\ UNCHANGED <<fat, dir>>

get_fat(c) == ReadOver({FatSector(c)}, FatSector(c))

put_fat(c, val) ==
  /\ MoveOver({FatSector(c)}, FatSector(c))
  /\ fat' = [fat EXCEPT ![c] = val]
  /\ wflag' = TRUE
  /\ UNCHANGED dir

(* The file's entry, in the window.                                        *)
PutEntry(f, e) ==
  /\ MoveOver({DirSector}, DirSector)
  /\ dir' = [dir EXCEPT ![f] = e]
  /\ wflag' = TRUE
  /\ UNCHANGED fat

FreeMore(n) ==
  /\ freeClust' = IF freeClust = Unknown THEN Unknown ELSE freeClust + n
  /\ fsiFlag' = (fsiFlag \/ freeClust # Unknown)

Idle == step = "rest"
File == fil[cur.call.f]
Go(s) == step' = s
SetFile(h) == fil' = [fil EXCEPT ![cur.call.f] = h]

-----------------------------------------------------------------------------
(* Calls start when the volume's lock is free.                             *)
Start(c, left, s) ==
  /\ Idle
  /\ cur' = [NoLocals EXCEPT !.call = c, !.left = left]
  /\ before' = [files |-> FilesNow, handles |-> HandlesNow]
  /\ Go(s)
  /\ got' = << >>
  /\ UNCHANGED <<windowVars, data, fsiVars, fil, restarts>>

Counted == fatCalls < MaxFatCalls /\ fatCalls' = fatCalls + 1

CallOpen(f, op) ==
  /\ ~ fil[f].open
  /\ Start([op |-> op, f |-> f], 0, "open")
  /\ kept' = IF op = "create" THEN [g \in DOMAIN kept \ {f} |-> kept[g]] ELSE kept
  /\ Counted

CallUnlink(f) ==
  /\ ~ fil[f].open /\ dir[f].used
  /\ Start([op |-> "unlink", f |-> f], 0, "unlink")
  /\ kept' = [g \in DOMAIN kept \ {f} |-> kept[g]]
  /\ UNCHANGED fatCalls

Overwrites(f, n) == fil[f].fptr + 1 .. fil[f].fptr + n

CallWrite(f, n) ==
  /\ fil[f].open /\ fil[f].write
  /\ Counted
  /\ Start([op |-> "write", f |-> f, n |-> n, v |-> fatCalls'], n, "write")
  /\ kept' = [g \in DOMAIN kept |->
                [i \in DOMAIN kept[g] |-> IF g = f /\ i \in Overwrites(f, n) THEN Unknown
                                                                            ELSE kept[g][i]]]

CallRead(f, n) ==
  /\ fil[f].open
  /\ Start([op |-> "read", f |-> f, n |-> n], Lesser(n, fil[f].fsize - fil[f].fptr), "read")
  /\ UNCHANGED <<kept, fatCalls>>

CallSeek(f, ofs) ==
  /\ fil[f].open
  /\ Counted
  /\ Start([op |-> "seek", f |-> f, n |-> ofs],
           IF fil[f].write THEN ofs ELSE Lesser(ofs, fil[f].fsize), "seek")
  /\ UNCHANGED kept

CallSync(f, op) ==
  /\ fil[f].open
  /\ Start([op |-> op, f |-> f], 0, "sync")
  /\ UNCHANGED <<kept, fatCalls>>

EndCall ==
  /\ Go("rest")
  /\ cur' = NoLocals
  /\ before' = [files |-> << >>, handles |-> << >>]
  /\ UNCHANGED <<fatCalls, restarts>>

-----------------------------------------------------------------------------
(* remove_chain(), one cluster a step; then step s.                        *)
RemoveCluster(s) ==
  LET nxt == fat[cur.clust]
  IN  IF nxt = 0
      THEN get_fat(cur.clust) /\ Go(s) /\ UNCHANGED <<cur, freeClust, fsiFlag>>
      ELSE /\ put_fat(cur.clust, 0)
           /\ FreeMore(1)
           /\ cur' = [cur EXCEPT !.clust = nxt]
           /\ Go(IF nxt \in Clusters THEN step ELSE s)

remove_chain ==
  /\ \/ step = "remove" /\ RemoveCluster("flush")
     \/ step = "replace" /\ RemoveCluster("opened")
  /\ UNCHANGED <<data, lastClust, fil, historyVars>>

-----------------------------------------------------------------------------
(* create_chain(cur.clust): the cluster that follows it, or a free one,    *)
(* the first from where the last was found; 0 when there is none.          *)

Scan(scl) == [i \in 1 .. LastCluster - 1 |-> ((scl + i - 2) % (LastCluster - 1)) + 2]

ScanFrom ==
  IF cur.clust # 0 THEN cur.clust ELSE IF lastClust \in Clusters THEN lastClust ELSE 1

Follow ==
  /\ step = "chain" /\ cur.clust # 0 /\ fat[cur.clust] \in Clusters
  /\ get_fat(cur.clust)
  /\ cur' = [cur EXCEPT !.new = fat[cur.clust]]
  /\ Go("got")
  /\ UNCHANGED <<data, fsiVars, fil, historyVars>>

NewCluster ==
  LET order == Scan(ScanFrom)
      free  == {i \in DOMAIN order : fat[order[i]] = 0}
  IN  /\ step = "chain" /\ (cur.clust # 0 => fat[cur.clust] \notin Clusters)
      /\ IF free = {}
         THEN LET end == FatSector(order[LastCluster - 1])
              IN  /\ ReadOver({FatSector(c) : c \in Clusters}, end)
                  /\ cur' = [cur EXCEPT !.new = 0]
                  /\ Go("got")
                  /\ UNCHANGED fsiVars
         ELSE LET n   == CHOOSE i \in free : \A j \in free : i <= j
                  ncl == order[n]
              IN  /\ MoveOver({FatSector(order[i]) : i \in 1 .. n}, FatSector(ncl))
                  /\ fat' = [fat EXCEPT ![ncl] = LastLink]
                  /\ wflag' = TRUE
                  /\ cur' = [cur EXCEPT !.new = ncl]
                  /\ Go("link")
                  /\ UNCHANGED <<dir, fsiVars>>
      /\ UNCHANGED <<data, fil, historyVars>>

LinkCluster ==
  /\ step = "link"
  /\ IF cur.clust = 0 THEN UNCHANGED windowVars ELSE put_fat(cur.clust, cur.new)
  /\ lastClust' = cur.new
  /\ FreeMore(-1)
  /\ Go("got")
  /\ UNCHANGED <<data, fil, cur, historyVars>>

-----------------------------------------------------------------------------
(* f_open(): the file is looked up; a new one is registered; one that is   *)
(* created anew loses its clusters.                                        *)

Opened(e, written) ==
  /\ SetFile([Closed EXCEPT !.open = TRUE, !.write = (cur.call.op # "openExisting"),
                            !.written = written, !.sclust = e.first, !.fsize = e.size])
  /\ EndCall
  /\ UNCHANGED <<got, kept>>

f_open ==
  LET f == cur.call.f
  IN  /\ step = "open"
      /\ CASE ~ dir[f].used /\ cur.call.op = "openExisting" ->
                /\ ReadOver({DirSector}, DirSector)
                /\ EndCall
                /\ UNCHANGED <<fil, got, kept>>
           [] ~ dir[f].used /\ cur.call.op # "openExisting" ->
                PutEntry(f, Entry(0, 0)) /\ Opened(Entry(0, 0), TRUE)
           [] dir[f].used /\ cur.call.op # "create" ->
                ReadOver({DirSector}, DirSector) /\ Opened(dir[f], FALSE)
           [] dir[f].used /\ cur.call.op = "create" /\ dir[f].first = 0 ->
                PutEntry(f, Entry(0, 0)) /\ Opened(Entry(0, 0), TRUE)
           [] OTHER ->
                /\ PutEntry(f, Entry(0, 0))
                /\ cur' = [cur EXCEPT !.clust = dir[f].first, !.new = dir[f].first]
                /\ Go("replace")
                /\ UNCHANGED <<fil, historyVars>>
      /\ UNCHANGED <<data, fsiVars>>

(* The hole is reused; the window goes back to the entry.                  *)
OpenReplaced ==
  /\ step = "opened"
  /\ lastClust' = cur.new - 1
  /\ ReadOver({DirSector}, DirSector)
  /\ Opened(dir[cur.call.f], TRUE)
  /\ UNCHANGED <<data, freeClust, fsiFlag>>

-----------------------------------------------------------------------------
(* f_write() and f_read(), one sector or cluster a step.                   *)

AtSector == File.fptr % SectorSize = 0
SectorInCluster == (File.fptr \div SectorSize) % ClusterSize
AtCluster == AtSector /\ SectorInCluster = 0
Sector == <<File.clust, SectorInCluster>>
Whole == Lesser(cur.left \div SectorSize, ClusterSize - SectorInCluster)
Partial == Lesser(SectorSize - (File.fptr % SectorSize), cur.left)

(* The buffer holds one of the n sectors from s.                           *)
BufferIn(s, n) == File.dsect[1] = s[1] /\ File.dsect[2] \in s[2] .. s[2] + n - 1

Mutant_Fills == File.dsect # Sector /\ File.fptr >= File.fsize

(* f_write() loads the sector it changes part of, but for a new one.       *)
Fills == File.dsect # Sector /\ File.fptr < File.fsize

WriteBack ==
  /\ File.dirty
  /\ WriteUnits(File.dsect[1], File.dsect[2] * SectorSize, SectorSize, File.buf)
  /\ SetFile([File EXCEPT !.dirty = FALSE])

WriteChunk ==
  /\ step = "write" /\ cur.left > 0 /\ AtSector
  /\ IF AtCluster /\ (File.fptr # 0 \/ File.sclust = 0)
     THEN /\ cur' = [cur EXCEPT !.clust = IF File.fptr = 0 THEN 0 ELSE File.clust]
          /\ Go("chain") /\ UNCHANGED fil
     ELSE /\ SetFile([File EXCEPT !.clust = IF AtCluster THEN File.sclust ELSE @])
          /\ Go("store") /\ UNCHANGED cur
  /\ UNCHANGED <<windowVars, data, fsiVars, historyVars>>

WriteGot ==
  /\ step = "got" /\ cur.call.op = "write"
  /\ IF cur.new = 0
     THEN Go("written") /\ UNCHANGED fil
     ELSE /\ SetFile([File EXCEPT !.clust = cur.new,
                                  !.sclust = IF @ = 0 THEN cur.new ELSE @])
          /\ Go("store")
  /\ UNCHANGED <<windowVars, data, fsiVars, cur, historyVars>>

WriteStore ==
  /\ step = "store"
  /\ \/ WriteBack /\ UNCHANGED callVars
     \/ /\ ~ File.dirty /\ Whole > 0
        /\ LET n == Whole * SectorSize
           IN  /\ WriteUnits(Sector[1], Sector[2] * SectorSize, n,
                             [i \in 0 .. n - 1 |-> cur.call.v])
               /\ SetFile([File EXCEPT !.fptr = @ + n,
                                       !.buf = IF BufferIn(Sector, Whole)
                                               THEN [i \in DOMAIN @ |-> cur.call.v] ELSE @])
               /\ cur' = [cur EXCEPT !.left = @ - n]
               /\ Go("write")
     \/ /\ ~ File.dirty /\ Whole = 0
        /\ SetFile([File EXCEPT !.dsect = Sector,
                                !.buf = IF Fills THEN SectorData(Sector) ELSE @])
        /\ Go("fit")
        /\ UNCHANGED <<data, cur>>
  /\ UNCHANGED <<windowVars, fsiVars, historyVars>>

WriteFit ==
  /\ step = "fit" \/ (step = "write" /\ cur.left > 0 /\ ~ AtSector)
  /\ SetFile([File EXCEPT
       !.buf = [i \in DOMAIN @ |-> IF i - (File.fptr % SectorSize) \in 0 .. Partial - 1
                                   THEN cur.call.v ELSE @[i]],
       !.dirty = TRUE, !.fptr = @ + Partial])
  /\ cur' = [cur EXCEPT !.left = @ - Partial]
  /\ Go("write")
  /\ UNCHANGED <<windowVars, data, fsiVars, historyVars>>

f_write ==
  /\ step = "written" \/ (step = "write" /\ cur.left = 0)
  /\ SetFile([File EXCEPT !.fsize = Greater(@, File.fptr), !.written = TRUE])
  /\ EndCall
  /\ UNCHANGED <<windowVars, data, fsiVars, got, kept>>

ReadChunk ==
  /\ step = "read" /\ cur.left > 0 /\ AtSector
  /\ IF AtCluster /\ File.fptr # 0
     THEN get_fat(File.clust) /\ SetFile([File EXCEPT !.clust = fat[@]])
     ELSE /\ SetFile([File EXCEPT !.clust = IF AtCluster THEN File.sclust ELSE @])
          /\ UNCHANGED windowVars
  /\ Go("fetch")
  /\ UNCHANGED <<data, fsiVars, cur, historyVars>>

(* What the program gets of sectors read past the buffer.                  *)
Fetched(n) ==
  [i \in 1 .. n |->
     LET o == Sector[2] * SectorSize + i - 1
     IN  IF File.dirty /\ File.dsect = <<Sector[1], o \div SectorSize>>
         THEN File.buf[o % SectorSize] ELSE data[Sector[1]][o]]

ReadFetch ==
  /\ step = "fetch"
  /\ \/ /\ Whole > 0
        /\ LET n == Whole * SectorSize
           IN  /\ cur' = [cur EXCEPT !.left = @ - n, !.out = @ \o Fetched(n)]
               /\ SetFile([File EXCEPT !.fptr = @ + n])
               /\ Go("read")
        /\ UNCHANGED data
     \/ /\ Whole = 0 /\ File.dsect # Sector
        /\ WriteBack /\ UNCHANGED callVars
     \/ /\ Whole = 0 /\ (File.dsect # Sector => ~ File.dirty)
        /\ SetFile([File EXCEPT !.dsect = Sector,
                                !.buf = IF File.dsect # Sector THEN SectorData(Sector) ELSE @])
        /\ Go("pick")
        /\ UNCHANGED <<data, cur>>
  /\ UNCHANGED <<windowVars, fsiVars, historyVars>>

ReadPick ==
  /\ step = "pick" \/ (step = "read" /\ cur.left > 0 /\ ~ AtSector)
  /\ cur' = [cur EXCEPT
       !.left = @ - Partial,
       !.out = @ \o [i \in 1 .. Partial |-> File.buf[(File.fptr + i - 1) % SectorSize]]]
  /\ SetFile([File EXCEPT !.fptr = @ + Partial])
  /\ Go("read")
  /\ UNCHANGED <<windowVars, data, fsiVars, historyVars>>

f_read ==
  /\ step = "read" /\ cur.left = 0
  /\ got' = cur.out
  /\ EndCall
  /\ UNCHANGED <<windowVars, data, fsiVars, fil, kept>>

-----------------------------------------------------------------------------
(* f_lseek(): from the current cluster or from the first one, along the    *)
(* chain, which a file open for writing stretches.                         *)

SeekStart ==
  LET ahead == File.fptr > 0
                 /\ (cur.left - 1) \div ClusterUnits >= (File.fptr - 1) \div ClusterUnits
      base  == ((File.fptr - 1) \div ClusterUnits) * ClusterUnits
  IN  /\ step = "seek"
      /\ IF cur.left = 0
         THEN SetFile([File EXCEPT !.fptr = 0]) /\ Go("fill") /\ UNCHANGED cur
         ELSE IF ahead
         THEN /\ SetFile([File EXCEPT !.fptr = base])
              /\ cur' = [cur EXCEPT !.left = @ - base, !.clust = File.clust]
              /\ Go("follow")
         ELSE /\ SetFile([File EXCEPT !.fptr = 0, !.clust = File.sclust])
              /\ cur' = [cur EXCEPT !.clust = File.sclust]
              /\ Go(IF File.sclust = 0 THEN "chain" ELSE "follow")
      /\ UNCHANGED <<windowVars, data, fsiVars, historyVars>>

(* One cluster further.                                                    *)
Advance(clst) ==
  /\ SetFile([File EXCEPT !.clust = clst, !.fptr = @ + ClusterUnits])
  /\ cur' = [cur EXCEPT !.left = @ - ClusterUnits, !.clust = clst]
  /\ Go("follow")

SeekFollow ==
  /\ step = "follow"
  /\ IF cur.left > ClusterUnits
     THEN IF File.write
          THEN Go("chain") /\ UNCHANGED <<windowVars, fil, cur>>
          ELSE get_fat(cur.clust) /\ Advance(fat[cur.clust])
     ELSE /\ SetFile([File EXCEPT !.fptr = @ + cur.left])
          /\ Go("fill")
          /\ UNCHANGED <<windowVars, cur>>
  /\ UNCHANGED <<data, fsiVars, historyVars>>

SeekGot ==
  /\ step = "got" /\ cur.call.op = "seek"
  /\ IF File.sclust = 0
     THEN /\ SetFile([File EXCEPT !.sclust = cur.new, !.clust = cur.new])
          /\ cur' = [cur EXCEPT !.clust = cur.new]
          /\ Go(IF cur.new = 0 THEN "fill" ELSE "follow")
     ELSE IF cur.new = 0
     THEN /\ SetFile([File EXCEPT !.fptr = @ + ClusterUnits])
          /\ Go("fill")
          /\ UNCHANGED cur
     ELSE Advance(cur.new)
  /\ UNCHANGED <<windowVars, data, fsiVars, historyVars>>

ToFill == ~ AtSector /\ File.dsect # Sector

SeekFill ==
  /\ step = "fill" /\ ToFill
  /\ \/ WriteBack
     \/ /\ ~ File.dirty
        /\ SetFile([File EXCEPT !.dsect = Sector, !.buf = SectorData(Sector)])
        /\ UNCHANGED data
  /\ UNCHANGED <<windowVars, fsiVars, callVars, historyVars>>

f_lseek ==
  /\ step = "fill" /\ ~ ToFill
  /\ SetFile([File EXCEPT !.fsize = Greater(@, File.fptr),
                          !.written = @ \/ File.fptr > File.fsize])
  /\ EndCall
  /\ UNCHANGED <<windowVars, data, fsiVars, got, kept>>

-----------------------------------------------------------------------------
(* f_sync() and f_close(): the buffer, the entry, then sync_fs(): the      *)
(* window and FSINFO.                                                      *)

SyncBuffer ==
  /\ step = "sync" /\ File.written
  /\ WriteBack
  /\ UNCHANGED <<windowVars, fsiVars, callVars, historyVars>>

SyncEntry ==
  /\ step = "sync" /\ File.written /\ ~ File.dirty
  /\ PutEntry(cur.call.f, Entry(File.fsize, File.sclust))
  /\ SetFile([File EXCEPT !.written = FALSE])
  /\ Go("flush")
  /\ UNCHANGED <<data, fsiVars, cur, historyVars>>

SyncWindow ==
  /\ step = "flush"
  /\ disk' = sync_window
  /\ wflag' = FALSE
  /\ Go("fsinfo")
  /\ UNCHANGED <<fat, dir, winsect, data, fsiVars, fil, cur, historyVars>>

Ends == step = "fsinfo" \/ (step = "sync" /\ ~ File.written)

(* The call returns once FSINFO is written, if it has to be.               *)
sync_fs ==
  /\ Ends
  /\ IF step = "fsinfo" /\ fsiFlag
     THEN /\ disk' = [disk EXCEPT !.free = freeClust, !.last = lastClust]
          /\ winsect' = InfoSector
          /\ fsiFlag' = FALSE
     ELSE UNCHANGED <<disk, winsect, fsiFlag>>
  /\ IF cur.call.op = "unlink" THEN UNCHANGED <<fil, kept>>
     ELSE /\ IF cur.call.op = "close" THEN SetFile(Closed) ELSE UNCHANGED fil
          /\ kept' = [f \in DOMAIN kept \cup {cur.call.f} |->
                        IF f = cur.call.f THEN OfHandle(File) ELSE kept[f]]
  /\ EndCall
  /\ UNCHANGED <<fat, dir, wflag, data, freeClust, lastClust, got>>

(* f_unlink(): the entry goes first, then the chain.                       *)
f_unlink ==
  /\ step = "unlink"
  /\ PutEntry(cur.call.f, NoEntry)
  /\ cur' = [cur EXCEPT !.clust = dir[cur.call.f].first]
  /\ Go(IF dir[cur.call.f].first = 0 THEN "flush" ELSE "remove")
  /\ UNCHANGED <<data, fsiVars, fil, historyVars>>

(* f_getfree(): a count that cannot be right is taken again from the FAT.  *)
f_getfree ==
  /\ Idle /\ freeClust \notin 0 .. LastCluster - 1
  /\ ReadOver({FatSector(c) : c \in Clusters}, FatSector(LastCluster))
  /\ freeClust' = Cardinality({c \in Clusters : fat[c] = 0})
  /\ fsiFlag' = TRUE
  /\ UNCHANGED <<data, lastClust, fil, callVars, historyVars>>

-----------------------------------------------------------------------------
(* The power fails; the volume is mounted from the disk: find_volume().    *)
Restart ==
  /\ restarts < MaxRestarts
  /\ restarts' = restarts + 1
  /\ fat' = disk.fat /\ dir' = disk.dir
  /\ freeClust' = disk.free /\ lastClust' = disk.last /\ fsiFlag' = FALSE
  /\ winsect' = InfoSector /\ wflag' = FALSE
  /\ fil' = [f \in Names |-> Closed]
  /\ step' = "rest" /\ cur' = NoLocals
  /\ before' = [files |-> << >>, handles |-> << >>] /\ got' = << >>
  /\ UNCHANGED <<disk, data, kept, fatCalls>>

Calls ==
  \/ \E f \in Names :
       \/ \E op \in {"create", "openAlways", "openExisting"} : CallOpen(f, op)
       \/ \E op \in {"sync", "close"} : CallSync(f, op)
       \/ CallUnlink(f)
       \/ \E n \in Sizes[f] : CallWrite(f, n)
       \/ \E n \in ReadSizes : CallRead(f, n)
       \/ \E ofs \in Offsets[f] : CallSeek(f, ofs)

Steps ==
  \/ f_open \/ OpenReplaced \/ remove_chain \/ f_unlink
  \/ Follow \/ NewCluster \/ LinkCluster
  \/ WriteChunk \/ WriteGot \/ WriteStore \/ WriteFit \/ f_write
  \/ ReadChunk \/ ReadFetch \/ ReadPick \/ f_read
  \/ SeekStart \/ SeekFollow \/ SeekGot \/ SeekFill \/ f_lseek
  \/ SyncBuffer \/ SyncEntry \/ SyncWindow \/ sync_fs

FatNext == Calls \/ Steps \/ f_getfree \/ Restart

FatSpec == FatInit /\ [][FatNext]_fatVars

-----------------------------------------------------------------------------
(* Every variable has its type; a buffer that is to be written back is one *)
(* of a file whose entry is to be written back too.                        *)
FatTypeOK ==
  /\ fat \in [Clusters -> {0} \cup Clusters \cup {LastLink}]
  /\ disk.fat \in [Clusters -> {0} \cup Clusters \cup {LastLink}]
  /\ winsect \in {FatSector(c) : c \in Clusters} \cup {DirSector, InfoSector}
  /\ wflag \in BOOLEAN /\ fsiFlag \in BOOLEAN
  /\ freeClust \in Unknown .. LastCluster * (MaxRestarts + 1)
  /\ lastClust \in 1 .. LastCluster
  /\ \A f \in Names : fil[f].dirty => fil[f].written \/ ~ Idle
  /\ fatCalls \in 0 .. MaxFatCalls /\ restarts \in 0 .. MaxRestarts

(* A chain ends with the last link and is long enough for size units.      *)
WellFormed(table, first, size) ==
  \E n \in 0 .. LastCluster :
    /\ n * ClusterUnits >= size
    /\ \A i \in 0 .. n - 1 : Nth(table, first, i) \in Clusters
    /\ Nth(table, first, n) = IF n = 0 THEN 0 ELSE LastLink

ChainOf(table, first) ==
  {c \in Clusters : \E i \in 0 .. LastCluster : Nth(table, first, i) = c}

(* The files of names, of these first clusters and sizes, are whole, and   *)
(* no cluster belongs to two of them, or to the root directory.            *)
Sound(table, first, size, names) ==
  /\ \A f \in names : WellFormed(table, first[f], size[f])
  /\ \A f, g \in names :
       f # g => ChainOf(table, first[f]) \cap ChainOf(table, first[g]) = {}
  /\ \A f \in names : Root \notin ChainOf(table, first[f])

DiskIsSound ==
  LET names == Used(disk.dir)
  IN  Sound(disk.fat, [f \in names |-> disk.dir[f].first], [f \in names |-> disk.dir[f].size],
            names)

FirstOf == [f \in Names |-> IF fil[f].open THEN fil[f].sclust ELSE dir[f].first]
SizeOf == [f \in Names |-> IF fil[f].open THEN fil[f].fsize ELSE dir[f].size]

ImageIsSound == Sound(fat, FirstOf, SizeOf, Used(dir))

Allocated == {c \in Clusters : fat[c] # 0}

(* Until the power fails, every cluster that is not free is a file's, and  *)
(* fs->free_clust is right.                                                *)
NothingLost ==
  Idle /\ restarts = 0 =>
    /\ Allocated = {Root} \cup UNION {ChainOf(fat, FirstOf[f]) : f \in Used(dir)}
    /\ freeClust = Cardinality(Clusters \ Allocated)

(* At every moment of every call, what a power failure would leave of the  *)
(* FAT and of the directory is a sound volume, and so is what the calls    *)
(* see; between calls no cluster is lost.                                  *)
VolumeIsSound == DiskIsSound /\ ImageIsSound /\ NothingLost
=============================================================================
