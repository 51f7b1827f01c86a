----------------------------- MODULE StmProbes ------------------------------
(***************************************************************************)
(* How the target drivers recognise a part, describe it, attach to it and   *)
(* run their monitor commands: one definition per C function, under its     *)
(* name.  A routine is the sequence of what it does to the target and to    *)
(* target_s and of the tests that end it early, as ProbeChain runs it.      *)
(* Left out are addresses, sizes, names and output; a table lookup keeps    *)
(* its outcome (Known), a register read that only picks among alternatives *)
(* is a choice (Perhaps, Either).  Flash routines are in FlashDrivers.      *)
(* Here are the vocabulary and the STM32 families with their clones; the    *)
(* other vendors are in DriverProbes.                                       *)
(***************************************************************************)
EXTENDS Integers, Sequences

\* A test that fails returns v; "exit" goes to the label Exit that follows, "go" carries on.
Ins(do, k, v) == [do |-> do, k |-> k, v |-> v]
Op(do) == Ins(do, "", "go")

(* Tests *)
Id(v) == Ins("id", "", v)          \* the part number already read, designer or AP
Cpu(v) == Ins("cpu", "", v)        \* target->cpuid alone: parts of other families may pass
Is(v) == Ins("is", "", v)          \* an identification register of the family
Like(v) == Ins("like", "", v)      \* a member's identification that a look-alike may answer too
Ask(v) == Ins("ask", "", v)        \* the result of a call; not set when the call timed out
Known(v) == Ins("known", "", v)    \* the member is in the driver's table
Check(v) == Ins("check", "", v)    \* target_check_error
Arg(v) == Ins("arg", "", v)        \* arguments, or a part's setting, end it here
Ret(v) == Ins("ret", "", v)
Exit == Op("exit")
Member(v) == <<Is(v), Known(v)>>   \* one table of identification values is both tests
(* The target *)
Look == Op("look")                 \* read
Save == Op("save")                 \* keep a register to put back
Touch == Op("touch")               \* change the part's configuration
Write == Op("write")               \* a change the user asked for
Mend == Op("mend")                 \* put back what was saved
Smash == Op("smash")               \* overwrite registers or RAM of the program and keep no copy
Poll(v) == Ins("poll", "", v)      \* a polling loop; "hang": nothing but success ends it
Halt == Op("halt")
Run == Op("run")
Call(v) == Ins("call", "", v)      \* run code on the core, wait until it halts again, look at its result
CoreAttach(v) == Ins("coreattach", "", v)  \* cortexm_attach, cortexar_attach
CoreDetach == Op("coredetach")
(* target_s *)
Name == Ins("put", <<"name", 1>>, "go")
Hook(h) == Ins("put", <<h, 1>>, "go")     \* a callback: attach, detach, reset, enter, exit, mass, resume
Unhook(h) == Ins("cut", <<h, 1>>, "go")
Opt == Ins("put", <<"opt", 1>>, "go")     \* target_options
Cmds == Ins("cmds", <<"cmds", 1>>, "go")  \* target_add_commands
Keep == Op("keep")                 \* target_storage = the new block
Drop == Op("drop")                 \* free(target_storage)
New(v) == Ins("new", "", v)        \* calloc; "null": used without a test
Deref == Op("deref")               \* use target_storage
UseFlash == Op("useflash")         \* use the first flash region
FreeMap == Op("freemap")           \* target_mem_map_free
Region(k, n) == [i \in 1 .. n |-> Ins("region", <<k, i>>, "go")]
Ram(n) == Region("ram", n)         \* n calls of target_add_ram
Flash(n) == Region("flash", n)     \* n regions, each skipped when calloc fails
FlashNull(n) == [i \in 1 .. n |-> Ins("regionnull", <<"flash", i>>, "go")]  \* the NULL is used
(* Choices *)
Perhaps(p) == <<Ins("skip", Len(p), "go")>> \o p
Either(p, q) == <<Ins("skip", Len(p) + 1, "go")>> \o p \o <<Ins("jump", Len(q), "go")>> \o q
True == <<Ret("true")>>
False == <<Ret("false")>>
Instead(p, from, to) == [i \in DOMAIN p |-> IF p[i].v = from THEN [p[i] EXCEPT !.v = to] ELSE p[i]]
Ignored(p) == Instead(p, "false", "go")

-----------------------------------------------------------------------------
(* SPI flash behind a controller: spi.c, sfdp.c *)

spi_read_sfdp == <<Look, Look, Look>>
\* The callbacks do the reading; without a table the standard sizes are used.
bmp_spi_add_flash == spi_read_sfdp \o Flash(1)

-----------------------------------------------------------------------------
(* STM32F1 and its clones *)

stm32f1_add_flash == Flash(1)
stm32f1_read_idcode == <<Look>>

\* mass_erase is set before the part is known and taken back when it is not.
stm32f1_probe ==
    stm32f1_read_idcode \o <<Hook("mass")>> \o Member("exit") \o
    Either(Ram(1), Ram(2)) \o Either(stm32f1_add_flash, Flash(2)) \o <<Name, Cmds>> \o True \o
    <<Exit, Unhook("mass")>> \o False

gd32f1_probe ==
    stm32f1_read_idcode \o Member("false") \o <<Name, Look>> \o Either(stm32f1_add_flash, Flash(2)) \o
    <<Opt, Hook("mass")>> \o Ram(1) \o <<Cmds>> \o True

gd32vf1_probe ==
    <<Cpu("false")>> \o Member("false") \o <<Name, Look, Hook("mass")>> \o Ram(1) \o stm32f1_add_flash \o <<Cmds>> \o True

\* The part has two banks or one, or is not known.
at32f40_is_dual_bank == <<>>
at32f40_detect ==
    <<Known("false")>> \o at32f40_is_dual_bank \o Either(stm32f1_add_flash, Flash(2)) \o Ram(1) \o <<Name, Opt, Hook("mass")>> \o True
at32f41_detect == <<Known("false")>> \o stm32f1_add_flash \o Ram(1) \o <<Name, Opt, Hook("mass")>> \o True
at32f40x_probe == <<Cpu("false"), Is("false")>> \o Either(at32f40_detect, at32f41_detect)

\* mm32l0xx replaces the debug port's memory write.
mm32l0xx_probe ==
    <<Look, Check("false")>> \o Member("false") \o <<Name, Hook("mass")>> \o Ram(1) \o stm32f1_add_flash \o
    <<Cmds, Hook("mem_write")>> \o True
mm32f3xx_probe ==
    <<Look, Check("false")>> \o Member("false") \o <<Name, Hook("mass")>> \o Either(Ram(1), Ram(2)) \o
    stm32f1_add_flash \o <<Cmds>> \o True

at32f43_add_flash == Flash(1)
at32f43_detect ==
    <<Known("false")>> \o Either(at32f43_add_flash, Flash(2)) \o <<Look>> \o Ram(2) \o <<Name, Hook("mass")>> \o True
at32f43x_probe == <<Cpu("false"), Is("false")>> \o at32f43_detect

\* The fast mode of the CH32 is unlocked and read back; nothing locks it again.
ch32f1_add_flash == Flash(1)
ch32f1_has_fast_unlock == <<Look, Touch, Is("false"), Touch, Is("false")>>
ch32f1_probe ==
    <<Cpu("false"), Like("false")>> \o ch32f1_has_fast_unlock \o
    <<Look>> \o Ram(1) \o ch32f1_add_flash \o <<Cmds, Name>> \o True

hc32l110_add_flash == Flash(1)
hc32l110_probe ==
    Member("false") \o Ram(1) \o <<Name, Hook("enter"), Hook("mass")>> \o hc32l110_add_flash \o True

-----------------------------------------------------------------------------
(* The other STM32 families *)

stm32f4_add_flash(n) == Flash(n)
stm32f4_read_idcode == <<Look>>
stm32f4_get_chip_name == Member("false") \o <<Name>>
stm32f4_probe ==
    stm32f4_read_idcode \o stm32f4_get_chip_name \o <<Hook("attach"), Hook("detach"), Hook("mass"), Cmds>> \o True
gd32f4_probe ==
    <<Id("false"), Unhook("attach"), Unhook("detach"), Hook("mass"), Name, Cmds, FreeMap>> \o Ram(2) \o stm32f4_add_flash(7) \o True

\* A new block at every attach: the one before is lost.
stm32f4_attach ==
    <<CoreAttach("false"), New("false"), Keep, Save, Touch, FreeMap>> \o
    Either(Ram(1), Ram(3) \o <<Look>>) \o Either(stm32f4_add_flash(3), stm32f4_add_flash(6)) \o True

stm32f4_detach == <<Deref, Mend, CoreDetach>>

optcr_mask == <<Arg("exit")>>
stm32f4_option_write_default == <<Write>>
stm32f4_cmd_option ==
    Either(stm32f4_option_write_default, Either(optcr_mask \o <<Write>>, <<>>)) \o <<Exit, Look>> \o True
stm32f4_cmd_psize == <<Arg("false")>> \o True

stm32g0_add_flash == Flash(1)
stm32g0_probe ==
    <<Id("false"), Known("false"), Look, Name>> \o Ram(1) \o stm32g0_add_flash \o
    <<Hook("attach"), Hook("detach"), Hook("mass"), Cmds, New("false"), Keep>> \o SubSeq(Flash(2), 2, 2) \o True
stm32g0_attach == <<CoreAttach("false"), Deref, Save, Touch>> \o True
stm32g0_detach == <<Deref, Mend, CoreDetach>>
stm32g0_parse_cmdline_registers == <<Arg("false")>>
stm32g0_validate_options == <<Deref, Arg("false")>>
stm32g0_display_registers == <<Look>>
stm32g0_cmd_option ==
    Either(<<Write>>, Either(stm32g0_parse_cmdline_registers \o stm32g0_validate_options \o <<Write>>,
                             stm32g0_display_registers)) \o True
stm32g0_cmd_irreversible == <<Deref, Arg("false")>> \o True

stm32h5_add_flash(n) == Flash(n)
stm32h5_probe ==
    <<Id("false"), Name, Hook("mass"), Hook("enter"), Hook("exit"), Cmds>> \o Either(Ram(2), Ram(3)) \o stm32h5_add_flash(2) \o True
stm32h5_cmd_uid == <<Look>> \o True
stm32h5_cmd_rev == <<Look>> \o True

\* DBGMCU_CR is written at the probe, put back at the detach, and not written by an attach.
stm32h7_add_flash(n) == Flash(n)
stm32h7_probe ==
    <<Id("false"), Name, Hook("attach"), Hook("detach"), Hook("mass"), Cmds, New("false"), Save, Keep>> \o
    Either(Ram(5), Ram(6)) \o <<Look>> \o Either(stm32h7_add_flash(1), stm32h7_add_flash(2)) \o <<Touch>> \o True
stm32h7_attach == <<CoreAttach("false"), Look>> \o True
stm32h7_detach == <<Deref, Mend, CoreDetach>>
stm32h7_uid == <<Look>> \o True
stm32h7_crc_bank == <<Write, Poll("false"), Arg("false")>>
stm32h7_crc == stm32h7_crc_bank \o <<Look>> \o stm32h7_crc_bank \o <<Look>> \o True
stm32h7_cmd_psize == <<Arg("false")>> \o True
stm32h7_cmd_rev == <<Look, Arg("false")>> \o True

stm32mp15_ident == <<Id("false")>>
stm32mp15_cm4_probe ==
    stm32mp15_ident \o <<Name, Hook("attach"), Hook("detach"), Cmds, New("false"), Keep>> \o Ram(2) \o True
stm32mp15_ca7_probe == stm32mp15_ident \o <<Name, Cmds>> \o Ram(5) \o True
stm32mp15_attach == <<CoreAttach("false"), Deref, Save, Touch>> \o True
stm32mp15_detach == <<Deref, Mend, CoreDetach>>
stm32mp15_uid == <<Look>> \o True
stm32mp15_cmd_rev == <<Look>> \o True

stm32l_add_flash == Flash(1)
stm32l_add_eeprom == SubSeq(Flash(4), 4, 4)
stm32l0_probe ==
    <<Id("false"), Name>> \o Ram(1) \o Either(stm32l_add_flash, Flash(3) \o stm32l_add_eeprom) \o
    <<Cmds, New("false"), Keep, Look, Name, Hook("mass")>> \o Perhaps(<<Hook("attach")>>) \o True
\* The first attach of a protected part does not touch it; the next one is cortexm_attach.
stm32lx_protected_attach == <<Unhook("attach")>> \o True

stm32l4_get_device_info == Member("false")
stm32l4_flash_read32 == <<Look>>
stm32l4_main_sram_length == <<>>
stm32l4_get_opt_bytes_info == <<>>
stm32l4_add_flash == Flash(1)
stm32l5_flash_enable == <<Touch>>
stm32l4_idcode_reg_address == <<Deref>> \o Perhaps(stm32l5_flash_enable)
stm32l4_probe ==
    Perhaps(<<Look>>) \o stm32l4_get_device_info \o <<New("null"), Keep, Name>> \o Perhaps(<<Look, Touch>>) \o
    <<Hook("mass"), Hook("attach"), Hook("detach"), Cmds>> \o True
stm32l4_attach ==
    <<CoreAttach("false")>> \o stm32l4_idcode_reg_address \o <<Save, Touch, FreeMap>> \o stm32l4_main_sram_length \o Ram(2) \o <<Look>> \o
    Either(stm32l4_add_flash, Flash(2)) \o True
\* The address is the L4's, also on an L5.
stm32l4_detach == <<Deref>> \o Perhaps(<<Mend>>) \o <<CoreDetach>>
stm32l4_cmd_option ==
    stm32l4_get_opt_bytes_info \o <<Arg("false")>> \o Either(Perhaps(stm32l4_flash_read32) \o <<Write, Arg("false")>>, <<>>) \o
    stm32l4_flash_read32 \o True
=============================================================================
