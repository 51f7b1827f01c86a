-------------------------------- MODULE Loader --------------------------------
(***************************************************************************)
(* The on-device `flash` command: v_flash of ui_debug.c and the two        *)
(* loaders of bmp_standalone_load.c on top of target_flash.c.  A load      *)
(* erases the span of its segments, writes them chunk by chunk, completes, *)
(* and reads everything back.  Any read of the file may come up short, any *)
(* call may fail: the load then stops where it is, without completing, and *)
(* the user may type the next command.                                     *)
(*                                                                         *)
(* A raw binary is an image of one segment.                                *)
(***************************************************************************)
EXTENDS TargetFlash, Sequences, FiniteSetsExt

CONSTANTS
    Images,   \* the files: sequences of [addr, len, data, load] segments
    CHUNK     \* the size of the streaming buffer

ASSUME ChunkAssumption == CHUNK \in Nat \ {0}
ASSUME ImagesAssumption ==
    /\ Images \subseteq Seq([addr : Addrs, len : Nat \ {0}, data : Data, load : BOOLEAN])
    /\ \A image \in Images : \A s \in DOMAIN image : image[s].addr + image[s].len <= MaxAddr + 1

VARIABLES
    phase,    \* "idle", "erase", "write", "complete" or "verify"
    file,     \* the image being loaded
    seg,      \* its current segment
    at,       \* offset of the next chunk in it
    loaded    \* the image the last command said "flash ok" about, or <<>>

loaderVars == <<phase, file, seg, at, loaded>>
allVars == <<vars, loaderVars>>

NoImage == <<>>

\* seg_flashable with in_flash = NULL: the loadable segments that have bytes.
Flashable(image) == {s \in DOMAIN image : image[s].load}

CellsOf(segment) == segment.addr .. segment.addr + segment.len - 1

\* The union span of pass 1.
Lo(image) == Min({image[s].addr : s \in Flashable(image)})
Hi(image) == Max({image[s].addr + image[s].len : s \in Flashable(image)})

LoaderInit ==
    /\ Init
    /\ phase = "idle"
    /\ file = NoImage
    /\ seg = 0
    /\ at = 0
    /\ loaded = NoImage

\* FAIL: return at once.
Fail ==
    /\ phase' = "idle"
    /\ file' = NoImage
    /\ seg' = 0
    /\ at' = 0
    /\ UNCHANGED <<vars, loaded>>

At(p, s, o) ==
    /\ phase' = p
    /\ seg' = s
    /\ at' = o
    /\ UNCHANGED <<file, loaded>>

\* The command: headers and pass 1, then the erase.  A file that cannot be opened
\* or read, is of the wrong kind or has nothing to load is refused first.
Refused ==
    /\ phase = "idle"
    /\ Idle
    /\ loaded' = NoImage
    /\ UNCHANGED <<vars, phase, file, seg, at>>

Load(image) ==
    /\ phase = "idle"
    /\ Flashable(image) # {}
    /\ EraseBegin(Lo(image), Hi(image) - Lo(image))
    /\ phase' = "erase"
    /\ file' = image
    /\ loaded' = NoImage
    /\ UNCHANGED <<seg, at>>

\* A call of the sink returned.
Returned(p) == phase = p /\ Idle /\ call.ok

CallFailed ==
    /\ phase \in {"erase", "write", "complete"}
    /\ Idle
    /\ ~call.ok
    /\ Fail

EraseOk ==
    /\ Returned("erase")
    /\ At("write", 1, 0)
    /\ UNCHANGED vars

\* The file ends early, or a header of pass 2 cannot be read.
ShortRead ==
    /\ Returned("write") \/ (phase = "verify" /\ Idle)
    /\ seg \in DOMAIN file
    /\ Fail

WriteChunk ==
    LET s == file[seg]
        n == Min({CHUNK, s.len - at})
    IN  /\ Returned("write")
        /\ seg \in Flashable(file)
        /\ at < s.len
        /\ WriteBegin(s.addr + at, n, s.data)
        /\ At("write", seg, at + n)

NextSegment ==
    /\ Returned("write")
    /\ seg \in DOMAIN file
    /\ seg \notin Flashable(file) \/ at = file[seg].len
    /\ At("write", seg + 1, 0)
    /\ UNCHANGED vars

Complete ==
    /\ Returned("write")
    /\ seg \notin DOMAIN file
    /\ CompleteBegin
    /\ At("complete", 0, 0)

\* Mutant: the read-back is left out.
CompleteOk_NoVerify ==
    /\ Returned("complete")
    /\ At("verify", Len(file) + 1, 0)
    /\ UNCHANGED vars

CompleteOk ==
    /\ Returned("complete")
    /\ At("verify", 1, 0)
    /\ UNCHANGED vars

\* verify_range for one segment; memory that is not mapped cannot be read.
Matches(s) == \A a \in CellsOf(s) : a \in Mapped /\ mem[a] = s.data

Verify ==
    /\ phase = "verify"
    /\ Idle
    /\ seg \in DOMAIN file
    /\ IF seg \in Flashable(file) => Matches(file[seg])
       THEN At("verify", seg + 1, 0) /\ UNCHANGED vars
       ELSE Fail

FlashOk ==
    /\ phase = "verify"
    /\ Idle
    /\ seg \notin DOMAIN file
    /\ loaded' = file
    /\ phase' = "idle"
    /\ file' = NoImage
    /\ seg' = 0
    /\ at' = 0
    /\ UNCHANGED vars

\* A panic restarts the probe; the target keeps what was programmed.
Reboot ==
    /\ panic
    /\ panic' = FALSE
    /\ operation' = [f \in Regions |-> "none"]
    /\ buf' = [f \in Regions |-> NoBuf]
    /\ base' = [f \in Regions |-> UINT32_MAX]
    /\ low' = [f \in Regions |-> UINT32_MAX]
    /\ high' = [f \in Regions |-> 0]
    /\ flash_mode' = FALSE
    /\ call' = NoCall
    /\ want' = mem
    /\ clean' = TRUE
    /\ fresh' = {}
    /\ completed' = FALSE
    /\ phase' = "idle"
    /\ file' = NoImage
    /\ seg' = 0
    /\ at' = 0
    /\ loaded' = NoImage
    /\ UNCHANGED <<client, mem>>

\* ui_task gets on with the command it is in.
Work ==
    \/ Step /\ UNCHANGED loaderVars
    \/ CallFailed
    \/ EraseOk
    \/ ShortRead
    \/ WriteChunk
    \/ NextSegment
    \/ Complete
    \/ CompleteOk
    \/ Verify
    \/ FlashOk
    \/ Reboot

LoaderNext ==
    \/ Next /\ UNCHANGED loaderVars
    \/ client = "ui" /\ (Refused \/ (\E image \in Images : Load(image)) \/ Work)

LoaderSpec == LoaderInit /\ [][LoaderNext]_allVars

\* A task that is in a command or a packet runs on; GDB and the user may stop.
FairLoaderSpec == LoaderSpec /\ WF_allVars(Work)

-----------------------------------------------------------------------------
(* Properties *)

\* "flash ok" means that every segment is in the flash, whatever the driver said
\* and whatever earlier loads left behind (bmp_standalone_load.c:132-172).
LoadedIsFile ==
    \A s \in Flashable(loaded) : \A a \in CellsOf(loaded[s]) : mem[a] = loaded[s].data

\* Every load ends, with a result or a reboot.
LoadEnds == (phase # "idle") ~> (phase = "idle")

===============================================================================
