--------------------------- MODULE MscDisk_proofs ---------------------------
(***************************************************************************)
(* The write-back cache never shows the host stale data and, once clean,   *)
(* has everything on the disk; it implements CachedDrive.  All this for    *)
(* every number of sectors and slots.                                      *)
(***************************************************************************)
EXTENDS MscDisk, TLAPS

\* A sector has at most one slot.
OneSlotPerSector ==
    \A i, j \in Active : s_lba[i] = s_lba[j] /\ s_lba[i] # NoLba => i = j

\* Only a slot that holds a sector is dirty.
DirtyHoldsSector == \A i \in Active : s_dirty[i] => s_lba[i] \in LBAs

\* With a card in, the cache stays empty.
CardBypassesCache == on_sd => \A i \in Active : s_lba[i] = NoLba

\* A slot holds what was last written to its sector.
SlotsHoldLastWrite ==
    \A i \in Active : s_lba[i] \in LBAs \ suspect => s_buf[i] = truth[s_lba[i]]

\* So does the disk, for a sector no slot holds dirty.
DiskHoldsRest ==
    \A l \in LBAs \ suspect :
      (\A i \in Active : s_lba[i] = l => ~s_dirty[i]) => disk[l] = truth[l]

CacheInv ==
    /\ TypeOK
    /\ OneSlotPerSector
    /\ DirtyHoldsSector
    /\ CardBypassesCache
    /\ SlotsHoldLastWrite
    /\ DiskHoldsRest

-----------------------------------------------------------------------------

\* A sector number is never the mark of a free slot (s_lba[i] == -1).
LEMMA NoLbaIsNoSector == NoLba \notin LBAs
BY LbaAssumption DEF NoLba

\* The slots in use are slots, and every slot in use is below s_nslots.
LEMMA ActiveSlots == TypeOK => Active \subseteq Slots /\ 0 \in Active
BY CacheAssumption DEF TypeOK, Active, Slots

\* Patching a sector (the memcpy of WRITE(10)) gives a sector.
LEMMA PatchType ==
    ASSUME NEW s \in Sector, NEW r \in Ranges, NEW d \in Data
    PROVE  Patch(s, r, d) \in Sector
BY DEF Patch, Sector, Ranges

\* A write of every piece does not depend on what the sector held.
LEMMA PatchAll ==
    ASSUME NEW s \in Sector, NEW t \in Sector, NEW d \in Data
    PROVE  Patch(s, Parts, d) = Patch(t, Parts, d)
BY DEF Patch

\* A filled sector is a sector.
LEMMA FilledType == \A d \in Data : Filled(d) \in Sector
BY DEF Filled, Sector

\* Whatever the two wl calls of flush_slot do, a sector is left.
LEMMA FlushedType ==
    ASSUME NEW old \in Sector, NEW c \in Sector, NEW o \in FlushOutcomes
    PROVE  /\ Flushed(old, c, o) \in Sector
           /\ o = "ok" => Flushed(old, c, o) = c
BY FilledType, DataAssumption DEF Flushed, FlushOutcomes

\* The boot state is coherent: the cache is empty.
LEMMA InitCacheInv == Init => CacheInv
<1> SUFFICES ASSUME Init PROVE CacheInv OBVIOUS
<1>1. TypeOK
  BY FilledType, DataAssumption, CacheAssumption, NoLbaIsNoSector
  DEF Init, TypeOK, Slots
<1>2. \A i \in Active : s_lba[i] = NoLba /\ ~s_dirty[i]
  BY DEF Init, Active
<1>. QED
  BY <1>1, <1>2, NoLbaIsNoSector
  DEF CacheInv, OneSlotPerSector, DirtyHoldsSector, CardBypassesCache,
      SlotsHoldLastWrite, DiskHoldsRest, Init

-----------------------------------------------------------------------------
(* One lemma per action: the step keeps the cache coherent *)

USE DEF bootVars, cacheVars

\* A step that leaves disk and cache alone keeps them coherent.
LEMMA CoherenceFrame ==
    ASSUME CacheInv, TypeOK',
           UNCHANGED <<bootVars, disk, s_nslots, s_lba, s_dirty, s_buf, truth, suspect>>
    PROVE  CacheInv'
<1>1. Active' = Active
  BY DEF Active
<1>. QED
  BY <1>1 DEF CacheInv, OneSlotPerSector, DirtyHoldsSector, CardBypassesCache,
              SlotsHoldLastWrite, DiskHoldsRest

LEMMA TestUnitReadyInv == CacheInv /\ TestUnitReady => CacheInv'
<1> SUFFICES ASSUME CacheInv, TestUnitReady PROVE CacheInv' OBVIOUS
<1>1. hostReady' \in BOOLEAN
  BY Zenon DEF TestUnitReady
<1>2. TypeOK'
  BY <1>1 DEF CacheInv, TestUnitReady, TypeOK
<1>. QED BY <1>2, CoherenceFrame DEF TestUnitReady

LEMMA AppOwnershipInv ==
    CacheInv /\ (AppAcquire \/ AppMount \/ AppRelease) => CacheInv'
<1> SUFFICES ASSUME CacheInv, AppAcquire \/ AppMount \/ AppRelease PROVE CacheInv'
  OBVIOUS
<1>1. /\ app' \in {"idle", "acquiring", "using"}
      /\ s_app_owns' \in BOOLEAN
  BY DEF AppAcquire, AppMount, AppRelease, CacheInv, TypeOK
<1>2. UNCHANGED <<bootVars, disk, cacheVars, hostReady, truth, suspect>>
  BY DEF AppAcquire, AppMount, AppRelease
<1>3. TypeOK'
  BY <1>1, <1>2 DEF CacheInv, TypeOK
<1>. QED BY <1>2, <1>3, CoherenceFrame

LEMMA RebootInv == CacheInv /\ Reboot => CacheInv'
<1> SUFFICES ASSUME CacheInv, Reboot PROVE CacheInv' OBVIOUS
<1>1. TypeOK'
  BY NoLbaIsNoSector DEF CacheInv, Reboot, TypeOK
<1>2. \A i \in Active' : s_lba'[i] = NoLba /\ ~s_dirty'[i]
  BY DEF Reboot, Active
<1>3. DiskHoldsRest'
  <2> SUFFICES ASSUME NEW l \in LBAs \ suspect' PROVE disk'[l] = truth'[l]
    BY DEF DiskHoldsRest
  <2>1. l \notin suspect /\ \A i \in Active : s_lba[i] = l => ~s_dirty[i]
    BY DEF Reboot
  <2>. QED BY <2>1 DEF CacheInv, DiskHoldsRest, Reboot
<1>. QED
  BY <1>1, <1>2, <1>3, NoLbaIsNoSector
  DEF CacheInv, OneSlotPerSector, DirtyHoldsSector, CardBypassesCache,
      SlotsHoldLastWrite

LEMMA AppWriteInv ==
    ASSUME CacheInv, NEW l \in LBAs, NEW d \in Data, AppWrite(l, d)
    PROVE  CacheInv'
<1>1. TypeOK'
  BY FilledType DEF CacheInv, AppWrite, TypeOK
<1>2. Active' = Active
  BY DEF AppWrite, Active
<1>3. SlotsHoldLastWrite'
  BY <1>2, NoLbaIsNoSector
  DEF CacheInv, AppWrite, TypeOK, SlotsHoldLastWrite, Cached
<1>4. DiskHoldsRest'
  BY <1>2 DEF CacheInv, AppWrite, TypeOK, DiskHoldsRest, Cached
<1>. QED
  BY <1>1, <1>2, <1>3, <1>4
  DEF CacheInv, AppWrite, OneSlotPerSector, DirtyHoldsSector, CardBypassesCache

LEMMA Write10SdInv ==
    ASSUME CacheInv, NEW l \in LBAs, NEW r \in Ranges, NEW d \in Data,
           Write10Sd(l, r, d)
    PROVE  CacheInv'
<1> USE DEF Write10Sd, HostWrote
<1>1. TypeOK'
  BY PatchType DEF CacheInv, TypeOK
<1>2. Active' = Active /\ \A i \in Active : s_lba[i] = NoLba /\ ~s_dirty[i]
  BY NoLbaIsNoSector DEF Active, CacheInv, CardBypassesCache, DirtyHoldsSector
<1>3. DiskHoldsRest'
  <2> SUFFICES ASSUME NEW k \in LBAs \ suspect' PROVE disk'[k] = truth'[k]
    BY DEF DiskHoldsRest
  <2>1. k # l => k \notin suspect /\ disk'[k] = disk[k] /\ truth'[k] = truth[k]
    BY DEF CacheInv, TypeOK
  <2>2. k \notin suspect => disk[k] = truth[k]
    BY <1>2 DEF CacheInv, DiskHoldsRest
  <2>3. CASE k = l /\ r = Parts
    BY <2>3, PatchAll DEF CacheInv, TypeOK
  <2>4. CASE k = l /\ r # Parts
    BY <2>4, <2>2 DEF CacheInv, TypeOK
  <2>. QED BY <2>1, <2>2, <2>3, <2>4
<1>. QED
  BY <1>1, <1>2, <1>3, NoLbaIsNoSector
  DEF CacheInv, OneSlotPerSector, DirtyHoldsSector, CardBypassesCache,
      SlotsHoldLastWrite

LEMMA Write10HitInv ==
    ASSUME CacheInv, NEW l \in LBAs, NEW r \in Ranges, NEW d \in Data,
           Write10Hit(l, r, d)
    PROVE  CacheInv'
<1> USE DEF HostWrote
<1>1. PICK i \in Active :
        /\ s_lba[i] = l
        /\ s_buf' = [s_buf EXCEPT ![i] = Patch(@, r, d)]
        /\ s_dirty' = [s_dirty EXCEPT ![i] = TRUE]
        /\ s_used' = [s_used EXCEPT ![i] = s_clock + 1]
  BY DEF Write10Hit, Holds
<1>2. /\ UNCHANGED <<bootVars, disk, s_nslots, s_lba, s_app_owns, app, hostReady>>
      /\ truth' = [truth EXCEPT ![l] = Patch(@, r, d)]
      /\ suspect' = IF r = Parts THEN suspect \ {l} ELSE suspect
      /\ s_clock' = s_clock + 1
      /\ ~on_sd
  BY DEF Write10Hit
<1>3. Active' = Active /\ Active \subseteq Slots
  BY <1>2, ActiveSlots DEF Active
<1>4. TypeOK'
  BY <1>1, <1>2, <1>3, PatchType DEF CacheInv, TypeOK
<1>5. SlotsHoldLastWrite'
  <2> SUFFICES ASSUME NEW j \in Active, s_lba[j] \in LBAs \ suspect'
               PROVE  s_buf'[j] = truth'[s_lba[j]]
    BY <1>2, <1>3 DEF SlotsHoldLastWrite
  <2>1. CASE j # i
    <3>1. s_lba[j] # l
      BY <1>1, <2>1, NoLbaIsNoSector DEF CacheInv, OneSlotPerSector
    <3>. QED
      BY <1>1, <1>2, <1>3, <2>1, <3>1 DEF CacheInv, TypeOK, SlotsHoldLastWrite
  <2>2. CASE j = i
    <3>1. s_buf'[i] = Patch(s_buf[i], r, d) /\ truth'[l] = Patch(truth[l], r, d)
      BY <1>1, <1>2, <1>3 DEF CacheInv, TypeOK
    <3>2. CASE r = Parts
      BY <1>1, <1>3, <2>2, <3>1, <3>2, PatchAll DEF CacheInv, TypeOK
    <3>3. CASE r # Parts
      BY <1>1, <1>2, <2>2, <3>1, <3>3 DEF CacheInv, SlotsHoldLastWrite
    <3>. QED BY <3>2, <3>3
  <2>. QED BY <2>1, <2>2
<1>6. DiskHoldsRest'
  <2> SUFFICES ASSUME NEW k \in LBAs \ suspect',
                      \A j \in Active : s_lba[j] = k => ~s_dirty'[j]
               PROVE  disk'[k] = truth'[k]
    BY <1>2, <1>3 DEF DiskHoldsRest
  <2>1. k # l
    BY <1>1, <1>3 DEF CacheInv, TypeOK
  <2>2. \A j \in Active : s_lba[j] = k => ~s_dirty[j]
    BY <1>1, <1>3, <2>1 DEF CacheInv, TypeOK
  <2>. QED BY <1>2, <2>1, <2>2 DEF CacheInv, TypeOK, DiskHoldsRest
<1>7. DirtyHoldsSector'
  BY <1>1, <1>2, <1>3 DEF CacheInv, TypeOK, DirtyHoldsSector
<1>. QED
  BY <1>2, <1>3, <1>4, <1>5, <1>6, <1>7
  DEF CacheInv, OneSlotPerSector, CardBypassesCache

\* slot_find returns the slot of a sector the cache holds.
LEMMA FoundSlot ==
    ASSUME OneSlotPerSector, NEW i \in Active, s_lba[i] \in LBAs
    PROVE  slot_find(s_lba[i]) = i
<1>1. \A j \in Active : s_lba[j] = s_lba[i] => j = i
  BY NoLbaIsNoSector DEF OneSlotPerSector
<1>2. \A j \in Active : Holds(j, s_lba[i]) <=> j = i
  BY <1>1 DEF Holds, Active, Slots
<1>. QED BY <1>2, Zenon DEF slot_find

LEMMA FlushAllInv ==
    ASSUME CacheInv, NEW outcome \in [Slots -> FlushOutcomes],
           FlushAll(outcome), hostReady' \in BOOLEAN
    PROVE  CacheInv'
<1> USE DEF FlushAll
<1>1. Active' = Active /\ Active \subseteq Slots
  BY ActiveSlots DEF Active, CacheInv
<1>2. ASSUME NEW i \in Active, s_lba[i] \in LBAs, s_dirty[i]
      PROVE  disk'[s_lba[i]] = Flushed(disk[s_lba[i]], s_buf[i], outcome[i])
  BY <1>2, FoundSlot DEF CacheInv
<1>3. \A l \in LBAs : (\A i \in Active : s_lba[i] = l => ~s_dirty[i])
                        => disk'[l] = disk[l]
  BY DEF CacheInv, TypeOK
<1>4. \A l \in LBAs : disk'[l] \in Sector
  <2> SUFFICES ASSUME NEW l \in LBAs, NEW i \in Active, s_lba[i] = l, s_dirty[i]
               PROVE  disk'[l] \in Sector
    BY <1>3 DEF CacheInv, TypeOK
  <2>1. disk[l] \in Sector /\ s_buf[i] \in Sector /\ outcome[i] \in FlushOutcomes
    BY <1>1 DEF CacheInv, TypeOK
  <2>2. disk'[l] = Flushed(disk[l], s_buf[i], outcome[i])
    BY <1>2
  <2>3. Flushed(disk[l], s_buf[i], outcome[i]) \in Sector
    BY <2>1, FlushedType
  <2>. QED BY <2>2, <2>3
<1>5. s_dirty' \in [Slots -> BOOLEAN]
  BY Zenon
<1>6. TypeOK'
  BY <1>4, <1>5 DEF CacheInv, TypeOK
<1>7. DirtyHoldsSector'
  BY <1>1 DEF CacheInv, TypeOK, DirtyHoldsSector
<1>8. DiskHoldsRest'
  <2> SUFFICES ASSUME NEW l \in LBAs \ suspect,
                      \A i \in Active : s_lba[i] = l => ~s_dirty'[i]
               PROVE  disk'[l] = truth[l]
    BY <1>1 DEF DiskHoldsRest
  <2>1. CASE \A i \in Active : s_lba[i] = l => ~s_dirty[i]
    BY <1>3, <2>1 DEF CacheInv, DiskHoldsRest
  <2>2. CASE \E i \in Active : s_lba[i] = l /\ s_dirty[i]
    <3>1. PICK i \in Active : s_lba[i] = l /\ s_dirty[i]
      BY <2>2
    <3>2. outcome[i] = "ok"
      BY <1>1, <3>1, ~s_dirty'[i], Zenon
    <3>3. disk'[l] = s_buf[i]
      BY <1>2, <3>1, <3>2 DEF Flushed
    <3>. QED BY <3>1, <3>3 DEF CacheInv, SlotsHoldLastWrite
  <2>. QED BY <2>1, <2>2
<1>. QED
  BY <1>1, <1>6, <1>7, <1>8
  DEF CacheInv, OneSlotPerSector, CardBypassesCache, SlotsHoldLastWrite

LEMMA Write10MissInv ==
    ASSUME CacheInv, NEW l \in LBAs, NEW r \in Ranges, NEW d \in Data,
           Write10Miss(l, r, d)
    PROVE  CacheInv'
<1>1. PICK i \in Active, outcome \in FlushOutcomes, readOk \in BOOLEAN :
        LET old   == s_lba[i]
            disk1 == IF s_dirty[i]
                       THEN [disk EXCEPT ![old] = Flushed(@, s_buf[i], outcome)]
                       ELSE disk
            doubt == IF s_dirty[i] /\ outcome # "ok" THEN suspect \union {old}
                                                     ELSE suspect
            done  == r = Parts \/ readOk
        IN  /\ disk' = disk1
            /\ s_lba' = [s_lba EXCEPT ![i] = IF done THEN l ELSE NoLba]
            /\ s_dirty' = [s_dirty EXCEPT ![i] = done]
            /\ IF done
                 THEN /\ s_buf' = [s_buf EXCEPT ![i] =
                                     Patch(IF r = Parts THEN @ ELSE disk1[l], r, d)]
                      /\ s_used' = [s_used EXCEPT ![i] = s_clock + 1]
                      /\ s_clock' = s_clock + 1
                      /\ HostWrote(l, r, d, doubt)
                 ELSE /\ suspect' = doubt
                      /\ UNCHANGED <<s_buf, s_used, s_clock, truth>>
  BY DEF Write10Miss
<1> DEFINE old   == s_lba[i]
           disk1 == IF s_dirty[i]
                      THEN [disk EXCEPT ![old] = Flushed(@, s_buf[i], outcome)]
                      ELSE disk
           doubt == IF s_dirty[i] /\ outcome # "ok" THEN suspect \union {old}
                                                    ELSE suspect
           done  == r = Parts \/ readOk
<1>2. /\ UNCHANGED <<bootVars, s_nslots, s_app_owns, app, hostReady>>
      /\ ~on_sd
      /\ \A j \in Active : s_lba[j] # l
  BY DEF Write10Miss, Cached
<1>3. Active' = Active /\ Active \subseteq Slots /\ i \in Slots
  BY <1>2, ActiveSlots DEF Active, CacheInv
\* The eviction: a dirty victim's sector gets its contents, or is in doubt.
<1>4. disk1 \in [LBAs -> Sector] /\ doubt \subseteq LBAs
  <2>1. disk \in [LBAs -> Sector] /\ s_buf[i] \in Sector /\ suspect \subseteq LBAs
    BY <1>3 DEF CacheInv, TypeOK
  <2>2. CASE ~s_dirty[i]
    BY <2>1, <2>2
  <2>3. CASE s_dirty[i]
    <3>1. old \in LBAs
      BY <2>3 DEF CacheInv, DirtyHoldsSector
    <3>2. Flushed(disk[old], s_buf[i], outcome) \in Sector
      BY <2>1, <3>1, FlushedType
    <3>. QED BY <2>1, <2>3, <3>1, <3>2
  <2>. QED BY <2>2, <2>3
<1>5. ASSUME NEW k \in LBAs \ doubt,
             \A j \in Active \ {i} : s_lba[j] = k => ~s_dirty[j]
      PROVE  disk1[k] = truth[k]
  <2>1. k \notin suspect
    OBVIOUS
  <2>2. CASE ~s_dirty[i]
    BY <1>5, <2>1, <2>2 DEF CacheInv, DiskHoldsRest
  <2>3. CASE s_dirty[i] /\ k # old
    <3>1. disk1[k] = disk[k]
      BY <2>3 DEF CacheInv, TypeOK
    <3>. QED BY <1>5, <2>1, <2>3, <3>1 DEF CacheInv, DiskHoldsRest
  <2>4. CASE s_dirty[i] /\ k = old
    <3>1. outcome = "ok"
      BY <2>4
    <3>2. disk1[k] = s_buf[i]
      BY <2>4, <3>1 DEF CacheInv, TypeOK, Flushed
    <3>. QED BY <2>1, <2>4, <3>2 DEF CacheInv, SlotsHoldLastWrite
  <2>. QED BY <2>2, <2>3, <2>4
<1>6. disk1[l] = truth[l] \/ l \in doubt
  BY <1>2, <1>5
<1>7. CASE ~done
  <2>1. /\ disk' = disk1 /\ suspect' = doubt
        /\ s_lba' = [s_lba EXCEPT ![i] = NoLba]
        /\ s_dirty' = [s_dirty EXCEPT ![i] = FALSE]
        /\ UNCHANGED <<s_buf, s_used, s_clock, truth>>
    <3>1. done = FALSE
      BY <1>7, Zenon
    <3>. QED BY <1>1, <3>1
  <2> HIDE DEF disk1, doubt, done
  <2>2. TypeOK'
    BY <1>2, <1>3, <1>4, <2>1, NoLbaIsNoSector DEF CacheInv, TypeOK
  <2>3. SlotsHoldLastWrite'
    <3>1. suspect \subseteq doubt
      BY DEF doubt
    <3>. QED
      BY <1>3, <2>1, <3>1, NoLbaIsNoSector DEF CacheInv, TypeOK, SlotsHoldLastWrite
  <2>4. DiskHoldsRest'
    <3> SUFFICES ASSUME NEW k \in LBAs \ doubt,
                        \A j \in Active : s_lba'[j] = k => ~s_dirty'[j]
                 PROVE  disk1[k] = truth[k]
      BY <1>3, <2>1 DEF DiskHoldsRest
    <3>1. \A j \in Active \ {i} : s_lba[j] = k => ~s_dirty[j]
      BY <1>3, <2>1 DEF CacheInv, TypeOK
    <3>. QED BY <1>5, <3>1
  <2>5. OneSlotPerSector' /\ DirtyHoldsSector' /\ CardBypassesCache'
    BY <1>2, <1>3, <2>1
    DEF CacheInv, TypeOK, OneSlotPerSector, DirtyHoldsSector, CardBypassesCache
  <2>. QED BY <2>2, <2>3, <2>4, <2>5 DEF CacheInv
<1>8. CASE done
  <2>1. /\ disk' = disk1
        /\ s_lba' = [s_lba EXCEPT ![i] = l]
        /\ s_dirty' = [s_dirty EXCEPT ![i] = TRUE]
        /\ s_buf' = [s_buf EXCEPT ![i] =
                       Patch(IF r = Parts THEN @ ELSE disk1[l], r, d)]
        /\ s_used' = [s_used EXCEPT ![i] = s_clock + 1]
        /\ s_clock' = s_clock + 1
        /\ truth' = [truth EXCEPT ![l] = Patch(@, r, d)]
        /\ suspect' = IF r = Parts THEN doubt \ {l} ELSE doubt
    <3>1. done = TRUE
      BY <1>8, Zenon
    <3>. QED BY <1>1, <3>1 DEF HostWrote
  <2> HIDE DEF disk1, doubt, done
  <2>2. TypeOK'
    <3>1. Patch(IF r = Parts THEN s_buf[i] ELSE disk1[l], r, d) \in Sector
      BY <1>3, <1>4, PatchType DEF CacheInv, TypeOK
    <3>2. Patch(truth[l], r, d) \in Sector
      BY PatchType DEF CacheInv, TypeOK
    <3>. QED BY <1>2, <1>3, <1>4, <2>1, <3>1, <3>2 DEF CacheInv, TypeOK
  <2>3. SlotsHoldLastWrite'
    <3>1. suspect \subseteq doubt
      BY DEF doubt
    <3> SUFFICES ASSUME NEW j \in Active, s_lba'[j] \in LBAs \ suspect'
                 PROVE  s_buf'[j] = truth'[s_lba'[j]]
      BY <1>3 DEF SlotsHoldLastWrite
    <3>2. CASE j # i
      <4>1. s_lba'[j] = s_lba[j] /\ s_buf'[j] = s_buf[j] /\ s_lba[j] # l
        BY <1>2, <1>3, <2>1, <3>2 DEF CacheInv, TypeOK
      <4>2. s_lba[j] \in LBAs \ suspect
        BY <2>1, <3>1, <4>1
      <4>. QED BY <2>1, <4>1, <4>2 DEF CacheInv, TypeOK, SlotsHoldLastWrite
    <3>3. CASE j = i
      <4>1. /\ s_lba'[j] = l
            /\ s_buf'[j] = Patch(IF r = Parts THEN s_buf[i] ELSE disk1[l], r, d)
            /\ truth'[l] = Patch(truth[l], r, d)
        BY <1>3, <2>1, <3>3 DEF CacheInv, TypeOK
      <4>2. CASE r = Parts
        <5>1. s_buf[i] \in Sector /\ truth[l] \in Sector
          BY <1>3 DEF CacheInv, TypeOK
        <5>. QED BY <4>1, <4>2, <5>1, PatchAll
      <4>3. CASE r # Parts
        BY <1>6, <2>1, <4>1, <4>3
      <4>. QED BY <4>2, <4>3
    <3>. QED BY <3>2, <3>3
  <2>4. DiskHoldsRest'
    <3> SUFFICES ASSUME NEW k \in LBAs \ suspect',
                        \A j \in Active : s_lba'[j] = k => ~s_dirty'[j]
                 PROVE  disk1[k] = truth'[k]
      BY <1>3, <2>1 DEF DiskHoldsRest
    <3>1. k # l /\ k \notin doubt /\ truth'[k] = truth[k]
      BY <1>3, <2>1 DEF CacheInv, TypeOK
    <3>2. \A j \in Active \ {i} : s_lba[j] = k => ~s_dirty[j]
      BY <1>3, <2>1 DEF CacheInv, TypeOK
    <3>. QED BY <1>5, <3>1, <3>2
  <2>5. OneSlotPerSector' /\ DirtyHoldsSector' /\ CardBypassesCache'
    BY <1>2, <1>3, <2>1
    DEF CacheInv, TypeOK, OneSlotPerSector, DirtyHoldsSector, CardBypassesCache
  <2>. QED BY <2>2, <2>3, <2>4, <2>5 DEF CacheInv
<1>. QED BY <1>7, <1>8

-----------------------------------------------------------------------------

\* Every step of the TinyUSB task, of ui_task and every reboot keeps the cache
\* coherent.
LEMMA NextCacheInv == CacheInv /\ [Next]_vars => CacheInv'
<1> SUFFICES ASSUME CacheInv, [Next]_vars PROVE CacheInv' OBVIOUS
<1>1. CASE TestUnitReady
  BY <1>1, TestUnitReadyInv
<1>2. ASSUME NEW l \in LBAs, NEW r \in Ranges, NEW d \in Data,
             Write10Sd(l, r, d) \/ Write10Hit(l, r, d) \/ Write10Miss(l, r, d)
      PROVE  CacheInv'
  BY <1>2, Write10SdInv, Write10HitInv, Write10MissInv
<1>3. CASE SynchronizeCache \/ Eject
  <2>1. PICK outcome \in [Slots -> FlushOutcomes] :
          FlushAll(outcome) /\ hostReady' \in BOOLEAN
    BY <1>3 DEF SynchronizeCache, Eject, CacheInv, TypeOK
  <2>. QED BY <2>1, FlushAllInv
<1>4. CASE AppAcquire \/ AppMount \/ AppRelease
  BY <1>4, AppOwnershipInv
<1>5. ASSUME NEW l \in LBAs, NEW d \in Data, AppWrite(l, d) PROVE CacheInv'
  BY <1>5, AppWriteInv
<1>6. CASE Reboot
  BY <1>6, RebootInv
<1>7. CASE UNCHANGED vars
  <2>1. TypeOK'
    BY <1>7 DEF vars, CacheInv, TypeOK
  <2>. QED BY <1>7, <2>1, CoherenceFrame DEF vars
<1>. QED
  BY <1>1, <1>2, <1>3, <1>4, <1>5, <1>6, <1>7, AppDataAssumption DEF Next, HostStep, AppStep

\* The coherence invariant is an invariant of the drive.
THEOREM CacheCoherent == Spec => []CacheInv
BY InitCacheInv, NextCacheInv, PTL DEF Spec

\* msc_disk.c answers every READ(10) with the data last written to the sector,
\* for any number of sectors and slots, through evictions, failed flushes of
\* other sectors, failed read-ins and reboots.
THEOREM ReadsLastWrite == Spec => []HostReadsLastWrite
<1>1. CacheInv => HostReadsLastWrite
  <2> SUFFICES ASSUME CacheInv, NEW l \in LBAs \ suspect PROVE HostView(l) = truth[l]
    BY DEF HostReadsLastWrite
  <2>1. CASE Cached(l)
    <3>1. PICK i \in Active : s_lba[i] = l
      BY <2>1 DEF Cached
    <3>2. slot_find(l) = i
      BY <3>1, FoundSlot DEF CacheInv
    <3>. QED
      BY <2>1, <3>1, <3>2 DEF HostView, CacheInv, SlotsHoldLastWrite
  <2>2. CASE ~Cached(l)
    BY <2>2 DEF HostView, Cached, CacheInv, DiskHoldsRest
  <2>. QED BY <2>1, <2>2
<1>. QED BY <1>1, CacheCoherent, PTL

\* A cache without dirty slots has everything on the disk: what `flash` reads
\* after an eject whose flushes worked, and what a reboot keeps.
THEOREM CleanIsOnDisk == Spec => []CleanCacheIsOnDisk
<1>1. CacheInv => CleanCacheIsOnDisk
  BY DEF CacheInv, DiskHoldsRest, CleanCacheIsOnDisk
<1>. QED BY <1>1, CacheCoherent, PTL

-----------------------------------------------------------------------------
(* The drive implements CachedDrive: what the host sees is `view`, the disk  *)
(* is `saved`                                                                *)

\* What READ(10) answers, by the slot of the sector.
Sees ==
    \A l \in LBAs :
      /\ \A i \in Active : s_lba[i] = l => HostView(l) = s_buf[i]
      /\ (\A i \in Active : s_lba[i] # l) => HostView(l) = disk[l]

LEMMA HostSees == CacheInv => Sees
<1> SUFFICES ASSUME CacheInv, NEW l \in LBAs
             PROVE  /\ \A i \in Active : s_lba[i] = l => HostView(l) = s_buf[i]
                    /\ (\A i \in Active : s_lba[i] # l) => HostView(l) = disk[l]
  BY DEF Sees
<1>1. ASSUME NEW i \in Active, s_lba[i] = l PROVE HostView(l) = s_buf[i]
  BY <1>1, FoundSlot DEF CacheInv, HostView, Cached
<1>2. ASSUME \A i \in Active : s_lba[i] # l PROVE HostView(l) = disk[l]
  BY <1>2 DEF HostView, Cached
<1>. QED BY <1>1, <1>2

\* A step of the drive that the host cannot tell from none.
LEMMA DriveStutters ==
    ASSUME \A k \in LBAs : HostView(k)' = HostView(k), disk' = disk
    PROVE  UNCHANGED <<[l \in LBAs |-> HostView(l)], disk>>
OBVIOUS

\* A write to sector l that evicts the sectors of K, at most one.
LEMMA DriveWrites ==
    ASSUME NEW l \in LBAs, NEW K \in SUBSET (LBAs \ {l}), \A j, k \in K : j = k,
           \A k \in LBAs \ {l} : k \notin K => HostView(k)' = HostView(k) /\ disk'[k] = disk[k],
           \A k \in K : /\ disk'[k] \in {disk[k], HostView(k), Filled(Erased)}
                        /\ HostView(k)' = disk'[k],
           \E d \in Data : \A p \in Parts : HostView(l)'[p] \in {HostView(l)[p], d},
           disk'[l] \in {disk[l], HostView(l)'}
    PROVE  Drive!Write
<1>1. \A k \in LBAs \ {l} : k \notin K => Drive!Same(k)
  BY DEF Drive!Same
<1>2. \A k \in K : Drive!Evicted(k)
  BY DEF Drive!Evicted, Drive!Saving, Drive!Filled, Filled
<1>3. Drive!Patched([k \in LBAs |-> HostView(k)][l], [k \in LBAs |-> HostView(k)]'[l])
  BY DEF Drive!Patched
<1>4. PICK other \in LBAs : K \subseteq {other} /\ (other # l => other \in K)
  <2>1. CASE K = {}
    BY <2>1
  <2>2. CASE K # {}
    BY <2>2
  <2>. QED BY <2>1, <2>2
<1>5. /\ \A k \in LBAs \ {l, other} : Drive!Same(k)
      /\ other # l => Drive!Evicted(other)
  BY <1>1, <1>2, <1>4
<1>. QED BY <1>3, <1>5 DEF Drive!Write

LEMMA Write10SdDrive ==
    ASSUME CacheInv, CacheInv', NEW l \in LBAs, NEW r \in Ranges, NEW d \in Data, Write10Sd(l, r, d)
    PROVE  Drive!Write
<1>1. Sees /\ Sees'
  BY HostSees, PTL
<1>2. \A i \in Active : s_lba[i] = NoLba
  BY DEF CacheInv, CardBypassesCache, Write10Sd
<1>3. Active' = Active /\ s_lba' = s_lba /\ disk' = [disk EXCEPT ![l] = Patch(@, r, d)]
  BY DEF Write10Sd, Active
<1>4. \A k \in LBAs : HostView(k) = disk[k] /\ HostView(k)' = disk'[k]
  BY <1>1, <1>2, <1>3, NoLbaIsNoSector DEF Sees
<1>5. disk'[l] = Patch(disk[l], r, d) /\ \A k \in LBAs \ {l} : disk'[k] = disk[k]
  BY <1>3 DEF CacheInv, TypeOK
<1>6. \A p \in Parts : HostView(l)'[p] \in {HostView(l)[p], d}
  BY <1>4, <1>5 DEF Patch
<1>7. PICK K \in SUBSET (LBAs \ {l}) : K = {}
  OBVIOUS
<1>8. /\ \A k \in LBAs \ {l} : HostView(k)' = HostView(k) /\ disk'[k] = disk[k]
      /\ disk'[l] = HostView(l)'
  BY <1>4, <1>5
<1>. QED BY <1>6, <1>7, <1>8, DriveWrites

LEMMA Write10HitDrive ==
    ASSUME CacheInv, CacheInv', NEW l \in LBAs, NEW r \in Ranges, NEW d \in Data, Write10Hit(l, r, d)
    PROVE  Drive!Write
<1>1. Sees /\ Sees'
  BY HostSees, PTL
<1>2. PICK i \in Active : s_lba[i] = l /\ s_buf' = [s_buf EXCEPT ![i] = Patch(@, r, d)]
  BY DEF Write10Hit, Holds
<1>3. Active' = Active /\ Active \subseteq Slots /\ s_lba' = s_lba /\ disk' = disk
  BY ActiveSlots DEF Write10Hit, Active, CacheInv
<1>4. HostView(l) = s_buf[i] /\ HostView(l)' = Patch(s_buf[i], r, d)
  BY <1>1, <1>2, <1>3 DEF Sees, CacheInv, TypeOK
<1>5. \A k \in LBAs \ {l} : HostView(k)' = HostView(k)
  BY <1>1, <1>2, <1>3 DEF Sees, CacheInv, TypeOK
<1>6. \A p \in Parts : HostView(l)'[p] \in {HostView(l)[p], d}
  BY <1>4 DEF Patch
<1>7. PICK K \in SUBSET (LBAs \ {l}) : K = {}
  OBVIOUS
<1>. QED BY <1>3, <1>5, <1>6, <1>7, DriveWrites

\* A miss evicts the victim's sector: it now shows what its flush left of it.
LEMMA Write10MissDrive ==
    ASSUME CacheInv, CacheInv', NEW l \in LBAs, NEW r \in Ranges, NEW d \in Data, Write10Miss(l, r, d)
    PROVE  Drive!Write
<1>1. Sees /\ Sees'
  BY HostSees, PTL
<1>2. PICK i \in Active, outcome \in FlushOutcomes, done \in BOOLEAN :
        /\ disk' = IF s_dirty[i] THEN [disk EXCEPT ![s_lba[i]] = Flushed(@, s_buf[i], outcome)] ELSE disk
        /\ s_lba' = [s_lba EXCEPT ![i] = IF done THEN l ELSE NoLba]
        /\ done => s_buf' = [s_buf EXCEPT ![i] = Patch(IF r = Parts THEN @ ELSE disk'[l], r, d)]
        /\ ~done => s_buf' = s_buf
  <2>1. PICK i \in Active, outcome \in FlushOutcomes, readOk \in BOOLEAN :
          LET disk1 == IF s_dirty[i]
                         THEN [disk EXCEPT ![s_lba[i]] = Flushed(@, s_buf[i], outcome)]
                         ELSE disk
              done  == r = Parts \/ readOk
          IN  /\ disk' = disk1
              /\ s_lba' = [s_lba EXCEPT ![i] = IF done THEN l ELSE NoLba]
              /\ IF done
                   THEN s_buf' = [s_buf EXCEPT ![i] = Patch(IF r = Parts THEN @ ELSE disk1[l], r, d)]
                   ELSE s_buf' = s_buf
    BY DEF Write10Miss
  <2>2. PICK done \in BOOLEAN : done = (r = Parts \/ readOk)
    BY Zenon
  <2>. QED BY <2>1, <2>2
<1>3. Active' = Active /\ Active \subseteq Slots /\ \A j \in Active : s_lba[j] # l
  BY ActiveSlots DEF Write10Miss, Active, CacheInv, Cached
<1>4. PICK old \in LBAs \union {NoLba} : old = s_lba[i]
  BY <1>3 DEF CacheInv, TypeOK
<1>5. PICK K \in SUBSET (LBAs \ {l}) : K = {old} \cap LBAs
  BY <1>3, <1>4
<1>6. ASSUME NEW k \in LBAs, k # old PROVE disk'[k] = disk[k]
  BY <1>2, <1>4, <1>6 DEF CacheInv, TypeOK
<1>7. s_lba'[i] \in {l, NoLba} /\ \A j \in Active \ {i} : s_lba'[j] = s_lba[j] /\ s_buf'[j] = s_buf[j]
  BY <1>2, <1>3 DEF CacheInv, TypeOK
<1>8. ASSUME NEW k \in LBAs \ {l}, k \notin K PROVE HostView(k)' = HostView(k) /\ disk'[k] = disk[k]
  <2>1. k # old
    BY <1>5, <1>8
  <2>2. disk'[k] = disk[k]
    BY <1>6, <2>1
  <2>3. \A j \in Active : s_lba[j] = k => j # i /\ s_lba'[j] = k /\ s_buf'[j] = s_buf[j]
    BY <1>4, <1>7, <2>1
  <2>4. \A j \in Active : s_lba'[j] = k => s_lba[j] = k
    BY <1>7, <1>8, NoLbaIsNoSector
  <2>. QED BY <1>1, <1>3, <2>2, <2>3, <2>4 DEF Sees
<1>9. ASSUME NEW k \in K
      PROVE  disk'[k] \in {disk[k], HostView(k), Filled(Erased)} /\ HostView(k)' = disk'[k]
  <2>1. k = old /\ k \in LBAs /\ k # l /\ HostView(k) = s_buf[i]
    BY <1>1, <1>4, <1>5, <1>9 DEF Sees
  <2>2. \A j \in Active : s_lba'[j] # k
    <3>1. \A j \in Active \ {i} : s_lba[j] # k
      BY <1>4, <2>1, NoLbaIsNoSector DEF CacheInv, OneSlotPerSector
    <3>. QED BY <1>7, <2>1, <3>1, NoLbaIsNoSector
  <2>3. HostView(k)' = disk'[k]
    BY <1>1, <1>3, <2>1, <2>2 DEF Sees
  <2>4. disk'[k] \in {disk[k], s_buf[i], Filled(Erased)}
    BY <1>2, <1>4, <2>1 DEF CacheInv, TypeOK, Flushed
  <2>. QED BY <2>1, <2>3, <2>4
<1>10. HostView(l) = disk[l] /\ disk'[l] = disk[l]
  BY <1>1, <1>3, <1>4, <1>6 DEF Sees
<1>11. \A p \in Parts : HostView(l)'[p] \in {HostView(l)[p], d}
  <2>1. CASE done
    <3>1. s_lba'[i] = l /\ s_buf'[i] = Patch(IF r = Parts THEN s_buf[i] ELSE disk[l], r, d)
      BY <1>2, <1>3, <1>10, <2>1 DEF CacheInv, TypeOK
    <3>2. HostView(l)' = Patch(IF r = Parts THEN s_buf[i] ELSE disk[l], r, d)
      BY <1>1, <1>3, <3>1 DEF Sees
    <3>. QED BY <1>10, <3>2 DEF Patch
  <2>2. CASE ~done
    <3>1. s_lba'[i] = NoLba
      BY <1>2, <1>3, <2>2 DEF CacheInv, TypeOK
    <3>2. HostView(l)' = disk'[l]
      BY <1>1, <1>3, <1>7, <3>1, NoLbaIsNoSector DEF Sees
    <3>. QED BY <1>10, <3>2
  <2>. QED BY <2>1, <2>2
<1>12. \A j, k \in K : j = k
  BY <1>5
<1>. QED BY <1>8, <1>9, <1>10, <1>11, <1>12, DriveWrites

\* A flush of every slot changes nothing the host sees.
LEMMA FlushAllDrive ==
    ASSUME CacheInv, CacheInv', NEW outcome \in [Slots -> FlushOutcomes], FlushAll(outcome)
    PROVE  Drive!Synchronize
<1>1. Sees /\ Sees'
  BY HostSees, PTL
<1>2. Active' = Active /\ Active \subseteq Slots /\ s_lba' = s_lba /\ s_buf' = s_buf
  BY ActiveSlots DEF FlushAll, Active, CacheInv
<1>3. ASSUME NEW l \in LBAs
      PROVE  HostView(l)' = HostView(l) /\ disk'[l] \in {disk[l], HostView(l), Filled(Erased)}
  <2>1. CASE \E i \in Active : s_lba[i] = l
    <3>1. PICK i \in Active : s_lba[i] = l
      BY <2>1
    <3>2. HostView(l) = s_buf[i] /\ HostView(l)' = s_buf[i]
      BY <1>1, <1>2, <3>1 DEF Sees
    <3>3. slot_find(l) = i
      BY <3>1, FoundSlot DEF CacheInv
    <3>4. disk'[l] \in {disk[l], Flushed(disk[l], s_buf[i], outcome[i])}
      BY <3>3 DEF FlushAll
    <3>. QED BY <3>2, <3>4 DEF Flushed
  <2>2. CASE \A i \in Active : s_lba[i] # l
    <3>1. disk'[l] = disk[l]
      BY <2>2 DEF FlushAll
    <3>. QED BY <1>1, <1>2, <2>2, <3>1 DEF Sees
  <2>. QED BY <2>1, <2>2
<1>4. [l \in LBAs |-> HostView(l)]' = [l \in LBAs |-> HostView(l)]
  BY <1>3
<1>. QED BY <1>3, <1>4 DEF Drive!Synchronize, Drive!Saving, Drive!Filled, Filled

LEMMA AppWriteDrive ==
    ASSUME CacheInv, CacheInv', NEW l \in LBAs, NEW d \in Data, AppWrite(l, d)
    PROVE  Drive!Overwritten
<1>1. Sees /\ Sees'
  BY HostSees, PTL
<1>2. Active' = Active /\ s_lba' = s_lba /\ s_buf' = s_buf /\ disk' = [disk EXCEPT ![l] = Filled(d)]
  BY DEF AppWrite, Active
<1>3. disk'[l] = Filled(d) /\ \A k \in LBAs \ {l} : disk'[k] = disk[k]
  BY <1>2 DEF CacheInv, TypeOK
<1>4. \A k \in LBAs \ {l} : HostView(k)' = HostView(k)
  BY <1>1, <1>2, <1>3 DEF Sees
<1>5. HostView(l)' \in {HostView(l), disk'[l]}
  BY <1>1, <1>2 DEF Sees
<1>6. \A k \in LBAs \ {l} : Drive!Same(k)
  BY <1>3, <1>4 DEF Drive!Same
<1>. QED BY <1>3, <1>5, <1>6 DEF Drive!Overwritten, Drive!Filled, Filled

LEMMA RebootDrive == ASSUME CacheInv, CacheInv', Reboot PROVE Drive!Restart
<1>1. Sees'
  BY HostSees, PTL
<1>2. \A i \in Active' : s_lba'[i] = NoLba
  BY DEF Reboot, Active
<1>3. disk' = disk /\ disk \in [LBAs -> Sector]
  BY DEF Reboot, CacheInv, TypeOK
<1>4. \A l \in LBAs : HostView(l)' = disk[l]
  BY <1>1, <1>2, <1>3, NoLbaIsNoSector DEF Sees
<1>5. [l \in LBAs |-> HostView(l)]' = disk
  BY <1>3, <1>4
<1>. QED BY <1>3, <1>5 DEF Drive!Restart

\* Steps of the ownership flag and of TEST UNIT READY, and no step.
LEMMA QuietDrive ==
    ASSUME CacheInv, CacheInv', UNCHANGED <<disk, s_nslots, s_lba, s_buf>>
    PROVE  UNCHANGED <<[l \in LBAs |-> HostView(l)], disk>>
<1>1. Sees /\ Sees'
  BY HostSees, PTL
<1>2. Active' = Active
  BY DEF Active
<1>3. \A l \in LBAs : HostView(l)' = HostView(l)
  BY <1>1, <1>2 DEF Sees
<1>. QED BY <1>3, DriveStutters

LEMMA NextDrive ==
    ASSUME CacheInv, CacheInv', [Next]_vars
    PROVE  [Drive!Next]_<<[l \in LBAs |-> HostView(l)], disk>>
<1>1. CASE TestUnitReady \/ AppAcquire \/ AppMount \/ AppRelease \/ UNCHANGED vars
  <2>1. UNCHANGED <<disk, s_nslots, s_lba, s_buf>>
    BY <1>1 DEF TestUnitReady, AppAcquire, AppMount, AppRelease, vars
  <2>. QED BY <2>1, QuietDrive
<1>2. ASSUME NEW l \in LBAs, NEW r \in Ranges, NEW d \in Data,
             Write10Sd(l, r, d) \/ Write10Hit(l, r, d) \/ Write10Miss(l, r, d)
      PROVE  Drive!Next
  BY <1>2, Write10SdDrive, Write10HitDrive, Write10MissDrive DEF Drive!Next
<1>3. CASE SynchronizeCache \/ Eject
  BY <1>3, FlushAllDrive DEF SynchronizeCache, Eject, Drive!Next
<1>4. ASSUME NEW l \in LBAs, NEW d \in Data, AppWrite(l, d) PROVE Drive!Next
  BY <1>4, AppWriteDrive DEF Drive!Next
<1>5. CASE Reboot
  BY <1>5, RebootDrive DEF Drive!Next
<1>. QED
  BY <1>1, <1>2, <1>3, <1>4, <1>5, AppDataAssumption DEF Next, HostStep, AppStep

LEMMA InitDrive == Init => Drive!Init
<1> SUFFICES ASSUME Init PROVE Drive!Init OBVIOUS
<1>1. Sees
  BY InitCacheInv, HostSees
<1>2. \A i \in Active : s_lba[i] = NoLba
  BY DEF Init, Active
<1>3. \A l \in LBAs : HostView(l) = disk[l]
  BY <1>1, <1>2, NoLbaIsNoSector DEF Sees
<1>4. [l \in LBAs |-> HostView(l)] = disk
  BY <1>3 DEF Init
<1>. QED BY <1>4 DEF Drive!Init, Drive!Filled, Init, Filled

\* The drive of msc_disk.c keeps the contract of a drive with a volatile write cache, for
\* every number of sectors and slots: what READ(10) answers only changes by a write to
\* the sector, by its eviction to what the medium then holds, by a write of the
\* on-device commands, or by a restart to what is saved (msc_disk.c:95-139, 178-274).
THEOREM DriveContract == Spec => KeepsContract
<1>1. Init => Drive!Init
  BY InitDrive
<1>2. CacheInv /\ CacheInv' /\ [Next]_vars => [Drive!Next]_<<[l \in LBAs |-> HostView(l)], disk>>
  BY NextDrive
<1>. QED BY <1>1, <1>2, CacheCoherent, PTL DEF Spec, KeepsContract, Drive!Spec

=============================================================================
