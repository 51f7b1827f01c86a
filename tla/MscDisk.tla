------------------------------- MODULE MscDisk -------------------------------
(***************************************************************************)
(* The USB mass-storage drive: the LRU write-back cache of msc_disk.c in   *)
(* front of the wear-levelling partition, and the ownership hand-over of   *)
(* storage.c between the USB host and the on-device file commands.         *)
(*                                                                         *)
(* Two actors share the disk.  The TinyUSB task runs the SCSI callbacks,   *)
(* one at a time; ui_task runs `flash`, `read` and `serialflash`, which    *)
(* borrow the file system with storage_acquire and hand it back with       *)
(* storage_release.  The host is external: it sends READ(10)/WRITE(10)     *)
(* only while its last TEST UNIT READY was answered "ready".               *)
(***************************************************************************)
EXTENDS Integers

CONSTANTS
    LBAs,               \* sector numbers of the drive
    MSC_CACHE_SECTORS,  \* depth of the cache when its allocation succeeds
    Parts,              \* the pieces a transfer may cover of one sector
    PartlyWritten,      \* bound: the sectors the host also writes a part of
    Data,               \* what a piece of a sector can hold
    AppData,            \* bound: what the on-device commands write
    Blank,              \* the piece of a freshly formatted disk
    Erased,             \* a piece wl_erase_range has cleared
    MaxClock            \* bound on the number of host writes (s_clock)

ASSUME LbaAssumption == LBAs \subseteq Nat
ASSUME CacheAssumption == MSC_CACHE_SECTORS \in Nat \ {0}
ASSUME DataAssumption == Blank \in Data /\ Erased \in Data
ASSUME AppDataAssumption == AppData \subseteq Data
ASSUME ClockAssumption == MaxClock \in Nat
ASSUME PartsAssumption == Parts # {} /\ PartlyWritten \subseteq LBAs

VARIABLES
    on_sd,       \* a microSD card backs the drive (fixed at boot)
    s_wl,        \* storage_init mounted the wl partition (fixed at boot)
    disk,        \* contents of the backing store
    s_nslots,    \* slots cache_ready gets from the heap: all, or the fallback one
    s_lba,       \* per slot: the sector it holds, or NoLba
    s_dirty,     \* per slot: newer than the disk
    s_used,      \* per slot: tick of its last write
    s_buf,       \* per slot: the sector's contents
    s_clock,     \* number of host writes so far
    s_app_owns,  \* storage.c's ownership flag
    app,         \* ui_task: "idle", "acquiring" (flag set, not mounted), "using"
    hostReady,   \* the host's last TEST UNIT READY answer
    truth,       \* history: what was last written to a sector, by either side
    suspect      \* history: sectors whose last write a fault or the app undid

cacheVars == <<s_nslots, s_lba, s_dirty, s_used, s_buf, s_clock>>
bootVars  == <<on_sd, s_wl>>
vars == <<bootVars, disk, cacheVars, s_app_owns, app, hostReady, truth, suspect>>

NoLba == -1
Slots == 0 .. MSC_CACHE_SECTORS - 1
Sector == [Parts -> Data]
Ranges == (SUBSET Parts) \ {{}}

\* The slots in use: all of them, or one when the allocation failed.  The code
\* allocates on the first transfer; until then no slot holds a sector, so the
\* outcome can be chosen at boot.
Active == {i \in Slots : i < s_nslots}

Filled(d) == [p \in Parts |-> d]

\* memcpy of the data d over the range r of a sector.
Patch(sector, r, d) == [p \in Parts |-> IF p \in r THEN d ELSE sector[p]]

-----------------------------------------------------------------------------
(* The cache *)

\* slot_find: the first slot that holds l.
Holds(i, l) ==
    /\ i \in Active
    /\ s_lba[i] = l
    /\ \A j \in Active : j < i => s_lba[j] # l

slot_find(l) == CHOOSE i \in Active : Holds(i, l)

\* Mutant: the search misses the last slot.
Cached_OffByOne(l) == \E i \in Active : i < s_nslots - 1 /\ s_lba[i] = l

Cached(l) == \E i \in Active : s_lba[i] = l

\* slot_bind's victim: the first free slot, else the least recently written.
Victim(i) ==
    /\ i \in Active
    /\ IF \E j \in Active : s_lba[j] = NoLba
         THEN s_lba[i] = NoLba /\ \A j \in Active : j < i => s_lba[j] # NoLba
         ELSE \A j \in Active : /\ s_used[i] <= s_used[j]
                                /\ j < i => s_used[i] < s_used[j]

\* How the two wl calls of flush_slot may end.
FlushOutcomes == {"ok", "erase_failed", "write_failed"}

\* What flush_slot leaves of the old contents of a sector whose slot is dirty.
Flushed(old, content, outcome) ==
    IF outcome = "ok" THEN content
    ELSE IF outcome = "erase_failed" THEN old ELSE Filled(Erased)

\* What READ(10) answers for sector l.
HostView(l) ==
    IF Cached(l) THEN s_buf[slot_find(l)] ELSE disk[l]

-----------------------------------------------------------------------------
(* The SCSI callbacks, in the TinyUSB task *)

Init ==
    /\ on_sd \in BOOLEAN
    /\ s_wl \in BOOLEAN
    /\ disk = [l \in LBAs |-> Filled(Blank)]
    /\ s_nslots \in {1, MSC_CACHE_SECTORS}
    /\ s_lba = [i \in Slots |-> NoLba]
    /\ s_dirty = [i \in Slots |-> FALSE]
    /\ s_used = [i \in Slots |-> 0]
    /\ s_buf = [i \in Slots |-> Filled(Blank)]
    /\ s_clock = 0
    /\ s_app_owns = FALSE
    /\ app = "idle"
    /\ hostReady = FALSE
    /\ truth = disk
    /\ suspect = {}

\* TEST UNIT READY: the only callback that looks at the ownership flag.
TestUnitReady ==
    /\ hostReady' = ((on_sd \/ s_wl) /\ (on_sd \/ ~s_app_owns))
    /\ UNCHANGED <<bootVars, disk, cacheVars, s_app_owns, app, truth, suspect>>

\* The host's write went through: it is now what sector l should hold.  A
\* write of the whole sector settles an earlier doubt about it.
HostWrote(l, r, d, doubt) ==
    /\ truth' = [truth EXCEPT ![l] = Patch(@, r, d)]
    /\ suspect' = IF r = Parts THEN doubt \ {l} ELSE doubt

\* WRITE(10) on the card: synchronous, the cache and the flag are bypassed.
Write10Sd(l, r, d) ==
    /\ hostReady
    /\ on_sd
    /\ disk' = [disk EXCEPT ![l] = Patch(@, r, d)]
    /\ HostWrote(l, r, d, suspect)
    /\ UNCHANGED <<bootVars, cacheVars, s_app_owns, app, hostReady>>

\* Mutant: a clean slot is read in again before it is patched.
Write10Hit_Rereads(l, r, d) ==
    /\ hostReady
    /\ ~on_sd
    /\ s_clock < MaxClock
    /\ \E i \in Active :
         /\ Holds(i, l)
         /\ s_buf' = [s_buf EXCEPT ![i] = Patch(IF s_dirty[i] THEN @ ELSE disk[l], r, d)]
         /\ s_dirty' = [s_dirty EXCEPT ![i] = TRUE]
         /\ s_used' = [s_used EXCEPT ![i] = s_clock + 1]
    /\ s_clock' = s_clock + 1
    /\ HostWrote(l, r, d, suspect)
    /\ UNCHANGED <<bootVars, disk, s_nslots, s_lba, s_app_owns, app, hostReady>>

\* WRITE(10) to a sector that has a slot: only the slot changes.
Write10Hit(l, r, d) ==
    /\ hostReady
    /\ ~on_sd
    /\ s_clock < MaxClock
    /\ \E i \in Active :
         /\ Holds(i, l)
         /\ s_buf' = [s_buf EXCEPT ![i] = Patch(@, r, d)]
         /\ s_dirty' = [s_dirty EXCEPT ![i] = TRUE]
         /\ s_used' = [s_used EXCEPT ![i] = s_clock + 1]
    /\ s_clock' = s_clock + 1
    /\ HostWrote(l, r, d, suspect)
    /\ UNCHANGED <<bootVars, disk, s_nslots, s_lba, s_app_owns, app, hostReady>>

\* WRITE(10) to a sector without a slot: slot_bind evicts a victim, whose flush
\* may fail without anybody looking, then a partial write first reads the rest
\* of the sector.  When that read fails the slot is left free.
Write10Miss(l, r, d) ==
    /\ hostReady
    /\ ~on_sd
    /\ s_clock < MaxClock
    /\ ~Cached(l)
    /\ \E i \in Active, outcome \in FlushOutcomes, readOk \in BOOLEAN :
         LET old   == s_lba[i]
             disk1 == IF s_dirty[i]
                        THEN [disk EXCEPT ![old] = Flushed(@, s_buf[i], outcome)]
                        ELSE disk
             doubt == IF s_dirty[i] /\ outcome # "ok" THEN suspect \union {old}
                                                      ELSE suspect
             done  == r = Parts \/ readOk
         IN  /\ Victim(i)
             /\ s_dirty[i] \/ outcome = "ok"     \* a clean victim is not flushed
             /\ r = Parts => readOk              \* a whole sector is not read in
             /\ disk' = disk1
             /\ s_lba' = [s_lba EXCEPT ![i] = IF done THEN l ELSE NoLba]
             /\ s_dirty' = [s_dirty EXCEPT ![i] = done]
             /\ IF done
                  THEN /\ s_buf' = [s_buf EXCEPT ![i] =
                                      Patch(IF r = Parts THEN @ ELSE disk1[l], r, d)]
                       /\ s_used' = [s_used EXCEPT ![i] = s_clock + 1]
                       /\ s_clock' = s_clock + 1
                       /\ HostWrote(l, r, d, doubt)
                  ELSE /\ suspect' = doubt
                       /\ UNCHANGED <<s_buf, s_used, s_clock, truth>>
    /\ UNCHANGED <<bootVars, s_nslots, s_app_owns, app, hostReady>>

\* Mutant: a slot is marked clean whether or not it was written.
FlushAll_MarksAll(outcome) ==
    /\ ~on_sd
    /\ \A i \in Slots : s_dirty[i] \/ outcome[i] = "ok"     \* flush_slot returns at once
    /\ disk' = [l \in LBAs |->
                  IF \E i \in Active : s_lba[i] = l /\ s_dirty[i]
                    THEN Flushed(disk[l], s_buf[slot_find(l)], outcome[slot_find(l)])
                    ELSE disk[l]]
    /\ s_dirty' = [i \in Slots |-> s_dirty[i] /\ i \notin Active]
    /\ UNCHANGED <<bootVars, s_nslots, s_lba, s_used, s_buf, s_clock,
                   s_app_owns, app, truth, suspect>>

\* flush_all, from SYNCHRONIZE CACHE and from an eject: every dirty slot is
\* written out; a slot whose flush fails stays dirty, and the host is told "ok".
FlushAll(outcome) ==
    /\ ~on_sd
    /\ \A i \in Slots : s_dirty[i] \/ outcome[i] = "ok"     \* flush_slot returns at once
    /\ disk' = [l \in LBAs |->
                  IF \E i \in Active : s_lba[i] = l /\ s_dirty[i]
                    THEN Flushed(disk[l], s_buf[slot_find(l)], outcome[slot_find(l)])
                    ELSE disk[l]]
    /\ s_dirty' = [i \in Slots |->
                     s_dirty[i] /\ (i \in Active => outcome[i] # "ok")]
    /\ UNCHANGED <<bootVars, s_nslots, s_lba, s_used, s_buf, s_clock,
                   s_app_owns, app, truth, suspect>>

SynchronizeCache ==
    \E outcome \in [Slots -> FlushOutcomes] :
      /\ hostReady
      /\ FlushAll(outcome)
      /\ UNCHANGED hostReady

\* Eject: the host sends nothing more until it is told "ready" again.
Eject ==
    \E outcome \in [Slots -> FlushOutcomes] :
      /\ hostReady
      /\ FlushAll(outcome)
      /\ hostReady' = FALSE

-----------------------------------------------------------------------------
(* The on-device commands, in ui_task *)

\* storage_acquire up to the flag.  With a card in, the path /sdcard is taken:
\* esp_vfs_fat_register fails, the flag is cleared, and the command goes on to
\* use the card's own file system.
AppAcquire ==
    /\ app = "idle"
    /\ IF s_wl /\ ~on_sd
         THEN app' = "acquiring" /\ s_app_owns' = TRUE
         ELSE app' = (IF on_sd THEN "using" ELSE "idle") /\ s_app_owns' = FALSE
    /\ UNCHANGED <<bootVars, disk, cacheVars, hostReady, truth, suspect>>

\* The rest of storage_acquire: no free drive, a failed registration or a failed
\* mount clears the flag again, and the command cannot open its file.
AppMount ==
    /\ app = "acquiring"
    /\ \/ app' = "using" /\ UNCHANGED s_app_owns
       \/ app' = "idle" /\ s_app_owns' = FALSE
    /\ UNCHANGED <<bootVars, disk, cacheVars, hostReady, truth, suspect>>

\* FatFS writes a sector (`read` saving a file).  A slot that holds the sector
\* is neither updated nor dropped.
AppWrite(l, d) ==
    /\ app = "using"
    /\ disk' = [disk EXCEPT ![l] = Filled(d)]
    /\ truth' = [truth EXCEPT ![l] = Filled(d)]
    /\ suspect' = IF Cached(l) THEN suspect \union {l} ELSE suspect \ {l}
    /\ UNCHANGED <<bootVars, cacheVars, s_app_owns, app, hostReady>>

\* storage_release at the end of a command (skipped when acquire had failed).
AppRelease ==
    /\ app = "using"
    /\ app' = "idle"
    /\ s_app_owns' = FALSE
    /\ UNCHANGED <<bootVars, disk, cacheVars, hostReady, truth, suspect>>

\* A reboot (`usbmode` calls esp_restart, or power is lost): nothing flushes the
\* cache, so what only a dirty slot held is gone.
Reboot ==
    /\ s_nslots' \in {1, MSC_CACHE_SECTORS}
    /\ s_lba' = [i \in Slots |-> NoLba]
    /\ s_dirty' = [i \in Slots |-> FALSE]
    /\ s_used' = [i \in Slots |-> 0]
    /\ s_clock' = 0
    /\ s_app_owns' = FALSE
    /\ app' = "idle"
    /\ hostReady' = FALSE
    /\ suspect' = suspect \union {l \in LBAs : \E i \in Active :
                                     s_lba[i] = l /\ s_dirty[i]}
    /\ UNCHANGED <<bootVars, disk, s_buf, truth>>

HostStep ==
    \/ TestUnitReady
    \/ \E l \in LBAs, r \in Ranges, d \in Data :
         /\ r = Parts \/ l \in PartlyWritten
         /\ Write10Sd(l, r, d) \/ Write10Hit(l, r, d) \/ Write10Miss(l, r, d)
    \/ SynchronizeCache
    \/ Eject

AppStep ==
    \/ AppAcquire
    \/ AppMount
    \/ \E l \in LBAs, d \in AppData : AppWrite(l, d)
    \/ AppRelease

Next == HostStep \/ AppStep \/ Reboot

Spec == Init /\ [][Next]_vars

-----------------------------------------------------------------------------
(* Properties *)

\* Every variable has its type.
TypeOK ==
    /\ on_sd \in BOOLEAN
    /\ s_wl \in BOOLEAN
    /\ disk \in [LBAs -> Sector]
    /\ s_nslots \in {1, MSC_CACHE_SECTORS}
    /\ s_lba \in [Slots -> LBAs \union {NoLba}]
    /\ s_dirty \in [Slots -> BOOLEAN]
    /\ s_used \in [Slots -> Nat]
    /\ s_buf \in [Slots -> Sector]
    /\ s_clock \in Nat
    /\ s_app_owns \in BOOLEAN
    /\ app \in {"idle", "acquiring", "using"}
    /\ hostReady \in BOOLEAN
    /\ truth \in [LBAs -> Sector]
    /\ suspect \in SUBSET LBAs

\* READ(10) answers, for every sector, what was last written to it: evicting,
\* flushing, a failed flush of another sector, a failed read-in of a partial
\* write and the fallback to one slot never show the host other data.  The
\* exceptions are exactly the sectors a fault or a command has touched.
HostReadsLastWrite ==
    \A l \in LBAs \ suspect : HostView(l) = truth[l]

\* Once no slot is dirty (after a SYNCHRONIZE CACHE or an eject whose flushes
\* all worked) the disk itself holds what was last written: what `flash` then
\* reads, and what survives a reboot.
CleanCacheIsOnDisk ==
    (\A i \in Active : ~s_dirty[i]) => \A l \in LBAs \ suspect : disk[l] = truth[l]

\* The drive as the host sees it, and the medium under it, keep the contract of a
\* drive with a volatile write cache, faults, on-device commands and restarts
\* included: no sector changes that was not written, evicted or restarted over, and
\* one that leaves the cache shows the medium (msc_disk.c:95-139, 178-274).
Drive == INSTANCE CachedDrive WITH view <- [l \in LBAs |-> HostView(l)], saved <- disk
KeepsContract == Drive!Spec
=============================================================================
