----------------------------- MODULE CachedDrive -----------------------------
(***************************************************************************)
(* What a drive with a volatile write cache promises its host, whatever    *)
(* the cache looks like: `view` is what a read answers now, `saved` what   *)
(* would be left after a restart.  A sector that leaves the cache shows    *)
(* what is saved of it; a restart shows what is saved of every sector.     *)
(* Somebody else may write to the medium under the host: it is saved, and  *)
(* the host sees it or not, but never something else.                      *)
(***************************************************************************)
CONSTANTS LBAs, Parts, Data, Blank, Erased

VARIABLES view, saved

Sector == [Parts -> Data]

Filled(d) == [p \in Parts |-> d]

Init == view = [l \in LBAs |-> Filled(Blank)] /\ saved = view

\* What may be saved of a sector after an attempt to save it: that, what was
\* there before, or a cleared sector.
Saving(l) == saved'[l] \in {saved[l], view[l], Filled(Erased)}

Same(l) == view'[l] = view[l] /\ saved'[l] = saved[l]

Evicted(l) == Saving(l) /\ view'[l] = saved'[l]

\* Some part of a sector is overwritten, the rest is as the host saw it.
Patched(old, new) ==
    \E d \in Data : \A p \in Parts : new[p] \in {old[p], d}

\* The host writes to one sector, in the cache or through it; at most one other
\* sector has to leave the cache for it.  The write may come to nothing after that.
Write ==
    \E l, other \in LBAs :
      /\ \A k \in LBAs \ {l, other} : Same(k)
      /\ other # l => Same(other) \/ Evicted(other)
      /\ Patched(view[l], view'[l])
      /\ saved'[l] \in {saved[l], view'[l]}

\* The host asks for everything to be saved; the drive says yes whatever comes of it.
Synchronize == view' = view /\ \A l \in LBAs : Saving(l)

\* Somebody else writes a sector.
Overwritten ==
    \E l \in LBAs :
      /\ \A k \in LBAs \ {l} : Same(k)
      /\ \E d \in Data : saved'[l] = Filled(d)
      /\ view'[l] \in {view[l], saved'[l]}

Restart == view' = saved /\ UNCHANGED saved

Next == Synchronize \/ Write \/ Overwritten \/ Restart

Spec == Init /\ [][Next]_<<view, saved>>
=============================================================================
