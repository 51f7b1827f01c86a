------------------------------ MODULE MCMscDisk ------------------------------
(***************************************************************************)
(* Small instances of MscDisk.  Three sectors compete for two slots, so    *)
(* that evictions happen.                                                  *)
(***************************************************************************)
EXTENDS MscDisk, TLC

MCLBAs == 0 .. 2
MCPartly == {0}
MCSymmetry == Permutations(Parts)

\* What a free slot still holds makes no difference: it is bound before any other, and
\* overwritten or read in before it is used.  Of the ticks only their order counts, and
\* nothing is said of what was last written to a suspect sector before it is written
\* as a whole again.
MCView ==
    LET Bound(field) == [i \in Slots |-> IF s_lba[i] = NoLba THEN 0 ELSE field[i]]
        older == {q \in Slots \X Slots : Bound(s_used)[q[1]] < Bound(s_used)[q[2]]}
    IN  <<bootVars, disk, s_nslots, s_lba, s_dirty, older, Bound(s_buf), s_clock,
          s_app_owns, app, hostReady, [l \in LBAs \ suspect |-> truth[l]]>>
=============================================================================
