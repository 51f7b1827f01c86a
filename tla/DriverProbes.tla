---------------------------- MODULE DriverProbes ----------------------------
(***************************************************************************)
(* Probes, attaches, detaches and monitor commands of the drivers that are  *)
(* not for STM32 parts, in the vocabulary of StmProbes, and the tables of   *)
(* all drivers.                                                             *)
(***************************************************************************)
EXTENDS StmProbes

-----------------------------------------------------------------------------
(* LPC *)

\* Every caller uses the result of lpc_add_flash without a test.
lpc_add_flash == FlashNull(1)
lpc_save_state == <<Look, Save>>
lpc_restore_state == <<Mend>>
\* RAM and registers are put back on every way out.
lpc_iap_frame(call, v) ==
    <<Look>> \o lpc_save_state \o <<Touch, call>> \o lpc_restore_state \o <<Ins("jump", 3, "go"), Exit>> \o lpc_restore_state \o <<Ret(v)>>
\* Only the call that asks for the part's number has a timeout.
lpc_iap_partid(v) == lpc_iap_frame(Call("exit"), v)
lpc_iap_call(v) == lpc_iap_frame(Call("hang"), v)

lpc11xx_add_flash == lpc_add_flash
lpc11xx_detect == Member("exit") \o <<Arg("exit"), Name>> \o Ram(1) \o lpc11xx_add_flash
\* The flash mode callbacks are set before the part is known.
lpc8xx_detect ==
    <<Look, Hook("enter"), Hook("exit")>> \o Member("false") \o <<Name>> \o Ram(1) \o lpc11xx_add_flash
lpc11xx_probe ==
    lpc11xx_detect \o <<Cmds>> \o True \o <<Exit>> \o lpc8xx_detect \o <<Cmds>> \o True
lpc11xx_read_uid == lpc_iap_call("false") \o True

lpc15xx_add_flash == lpc_add_flash
lpc15xx_probe == Member("false") \o <<Name>> \o Ram(1) \o lpc15xx_add_flash \o <<Cmds>> \o True
lpc15xx_read_uid == lpc_iap_call("false") \o True

lpc17xx_add_flash(n) == FlashNull(n)
lpc17xx_enter_flash_mode == <<Deref, Save, Touch>>
lpc17xx_exit_flash_mode == <<Deref, Mend>>
\* The part is asked for its number by code run on it.
lpc17xx_probe ==
    <<Cpu("false"), Halt, New("false"), Keep>> \o lpc17xx_enter_flash_mode \o <<Smash, Call("go")>> \o
    lpc17xx_exit_flash_mode \o <<Run, Ask("exit")>> \o
    <<Known("false"), Name, Hook("reset"), Hook("mass"), Hook("enter"), Hook("exit")>> \o Ram(3) \o
    lpc17xx_add_flash(2) \o True \o <<Exit, Drop>> \o False

lpc17xx_extended_reset == <<Write>>

lpc40xx_add_flash(n) == FlashNull(n)
lpc40xx_enter_flash_mode == <<Deref, Save, Touch>>
lpc40xx_exit_flash_mode == <<Deref, Mend>>
lpc40xx_probe ==
    <<Cpu("false"), Halt, New("false"), Keep>> \o lpc40xx_enter_flash_mode \o <<Smash, Call("go")>> \o
    lpc40xx_exit_flash_mode \o <<Run, Ask("exit")>> \o
    <<Known("false"), Name, Hook("reset"), Hook("mass"), Hook("enter"), Hook("exit")>> \o Ram(3) \o
    lpc40xx_add_flash(2) \o True \o <<Exit, Drop>> \o False

lpc40xx_extended_reset == <<Write>>

lpc43xx_wdt_set_period == <<Look, Write>>
lpc43xx_add_iap_flash(n) == FlashNull(n)
lpc43xx_iap_read_partid == <<Look>> \o lpc43xx_wdt_set_period \o <<Touch>> \o lpc_iap_partid("exit")
lpc43xx_detect == <<Deref, Look, Name>> \o Ram(5) \o Either(lpc43xx_add_iap_flash(2), lpc43xx_add_iap_flash(4)) \o <<Cmds>>
\* SPI flash through the SPIFI or the SSP controller.
lpc43x0_spi_abort == <<Deref, Touch, Poll("go")>>
lpc43x0_ssp0_setup_command == <<Touch, Look>>
lpc43x0_spi_setup_xfer == Either(<<Touch>>, lpc43x0_ssp0_setup_command)
lpc43x0_spi_read == lpc43x0_spi_setup_xfer \o <<Look>>
lpc43x0_spi_read_partid == <<Look>>
\* A part that is not in the list gets the callbacks and one RAM region.
lpc43x0_detect == Ram(1) \o Perhaps(<<Name>> \o SubSeq(Ram(5), 2, 5)) \o <<Hook("attach"), Hook("detach")>>
lpc43xx_probe ==
    <<Is("false"), Opt>> \o Perhaps(<<Touch>>) \o
    Either(<<New("false"), Keep>> \o lpc43xx_iap_read_partid \o <<Known("exit"), Hook("mass"), Hook("enter")>> \o
               lpc43xx_detect \o True \o <<Exit, Drop>> \o False,
           lpc43x0_spi_read_partid \o <<Known("false"), Hook("mass"), Hook("enter"), Hook("exit")>> \o lpc43x0_detect \o True)

lpc43x0_read_boot_src == <<Save, Touch, Look, Mend>>
lpc43x0_determine_flash_interface == <<Deref, Look>> \o Perhaps(lpc43x0_read_boot_src) \o <<Look>>
\* The pins are saved and set unless the part boots from flash; what is put
\* back tests for one of the two boot addresses.
lpc43x0_enter_flash_mode == <<Deref>> \o Perhaps(<<Save, Touch>>) \o lpc43x0_spi_abort
lpc43x0_exit_flash_mode == <<Deref>> \o Perhaps(<<Mend>>)
lpc43x0_add_spi_flash == <<Arg("exit"), Deref>> \o FlashNull(1) \o SubSeq(Flash(2), 2, 2)
lpc43x0_attach ==
    <<CoreAttach("false"), Ins("ifstore", 2 + Len(lpc43x0_determine_flash_interface), "go"), New("false"), Keep>> \o
    lpc43x0_determine_flash_interface \o lpc43x0_enter_flash_mode \o lpc43x0_spi_read \o lpc43x0_add_spi_flash \o <<Exit>> \o
    lpc43x0_exit_flash_mode \o True
lpc43x0_detach == <<Deref, Ins("cutflash", "flash", "go"), CoreDetach>>
lpc43xx_cmd_reset == <<Write>> \o True
lpc43xx_cmd_mkboot == <<Arg("false")>> \o lpc_iap_call("false") \o True

lpc546xx_get_device == Member("false")
lpc546xx_add_flash == lpc_add_flash
lpc546xx_probe ==
    lpc546xx_get_device \o <<Name, Hook("mass")>> \o lpc546xx_add_flash \o Ram(3) \o <<Cmds, Opt>> \o True
\* The result of cortexm_attach is not looked at.
lpc546xx_reset_attach == <<Write, Run, CoreAttach("go")>>
lpc546xx_cmd_erase_sector == <<Write>> \o True
lpc546xx_cmd_read_partid == lpc_iap_call("false") \o True
lpc546xx_cmd_read_uid == lpc_iap_call("false") \o True
lpc546xx_cmd_reset_attach == lpc546xx_reset_attach \o True
lpc546xx_cmd_reset == <<Write>> \o True
lpc546xx_cmd_write_sector == <<Write, New("false"), Write, Op("release")>> \o True

\* RAM and registers are put back on every way out.
lpc55xx_prepare_flash_config == <<Touch>>
lpc55xx_get_rom_address == <<Look, Look, Look>>
lpc55xx_flash_init(v) ==
    <<Look, Save>> \o lpc55xx_prepare_flash_config \o lpc55xx_get_rom_address \o
    <<Call("hang"), Look, Mend, Arg(v)>>
lpc55xx_get_uuid(v) ==
    <<Look, Save>> \o lpc55xx_prepare_flash_config \o lpc55xx_get_rom_address \o
    <<Call("hang"), Call("hang"), Call("hang"), Look, Mend, Arg(v)>>
lpc55xx_add_flash ==
    <<New("exit")>> \o Instead(lpc55xx_flash_init("none"), "none", "exit") \o <<Hook("enter")>> \o Flash(1) \o <<Exit>>
lpc55xx_get_device_name == <<Name>>
\* The option and the name are set before the part is known.
lpc55xx_probe ==
    <<Id("false"), Look, Opt>> \o lpc55xx_get_device_name \o Member("false") \o Either(Ram(2), Ram(5)) \o
    lpc55xx_add_flash \o <<Cmds>> \o True
lpc55xx_read_uid == lpc55xx_get_uuid("false") \o True
lpc55_dmap_probe == <<Id("false"), New("false"), Name, Hook("mass")>> \o True

-----------------------------------------------------------------------------
(* NXP i.MX RT, Kinetis; TI; Silicon Labs; Nordic *)

imxrt_enter_flash_mode == <<Deref, Save, Touch>>
imxrt_exit_flash_mode == <<Deref, Mend>>
imxrt_boot_source == <<Look>>
imxrt_ident_device == Member("false")
\* The block and the option are set before the part is known.
imxrt_probe ==
    <<Id("false"), New("false"), Keep, Opt>> \o imxrt_ident_device \o <<Name>> \o imxrt_boot_source \o Ram(2) \o
    Perhaps(imxrt_enter_flash_mode \o <<Look, Hook("mass"), Hook("enter"), Hook("exit")>> \o Perhaps(bmp_spi_add_flash) \o
            imxrt_exit_flash_mode) \o True

kinetis_add_flash == Flash(1)
kl_s32k14_setup == <<Name>> \o Ram(2) \o Flash(3)
\* The KL16 adds its RAM before the flash size is known.
kinetis_named == <<Known("false"), Name>> \o Ram(2) \o Either(kinetis_add_flash, Flash(2))
kinetis_probe ==
    <<Look, Is("false")>> \o
    Either(Ram(2) \o <<Known("false"), Name>> \o kinetis_add_flash,
           Either(<<Known("false")>> \o kl_s32k14_setup, kinetis_named)) \o <<Cmds>> \o True
kinetis_cmd_unsafe == True
kinetis_mdm_probe == <<Id("false"), New("false"), Hook("mass"), Name, Cmds>> \o True

\* Without a block for the flash region the RAM and the callback stay.
ke04_probe ==
    <<Is("false"), Known("false")>> \o Perhaps(<<Look, Check("go")>>) \o <<Name, Hook("mass")>> \o Ram(2) \o
    <<New("false")>> \o Flash(1) \o <<Cmds>> \o True
ke04_cmd_sector_erase == <<UseFlash, Arg("false"), Write>> \o True

lmi_add_flash == Flash(1)
lm3s_probe == <<Known("false"), Name, Hook("mass")>> \o Ram(1) \o lmi_add_flash \o True
tm4c_probe == <<Known("false"), Name, Hook("mass"), Opt>> \o Ram(1) \o lmi_add_flash \o True
lmi_probe == <<Is("false")>> \o Either(lm3s_probe, tm4c_probe)

msp432e4_add_flash == Flash(1)
msp432e4_probe == <<Is("false"), Name, Hook("mass")>> \o Ram(1) \o msp432e4_add_flash \o True
msp432_add_flash(n) == Flash(n)
msp432p4_probe == <<Is("false"), Is("false"), Is("false"), Known("false"), Name>> \o Ram(1) \o msp432_add_flash(4) \o <<Cmds>> \o True
msp432_cmd_erase_main == <<UseFlash, Write>> \o True
msp432_cmd_sector_erase == <<UseFlash, Arg("false"), Write>> \o True

efm32_read_unique_id == <<Look>>
efm32_read_sizes == <<Look, Look, Look>>
efm32_v2_read_miscchip == <<Look>>
efm32_add_flash == Flash(1)
efm32_get_device == Member("false")
efm32_probe ==
    efm32_read_unique_id \o efm32_get_device \o <<Hook("mass")>> \o efm32_read_sizes \o efm32_v2_read_miscchip \o <<New("false"), Keep, Opt, Name>> \o Ram(1) \o
    Either(efm32_add_flash, Flash(3)) \o <<Cmds>> \o True
efm32_cmd_serial == <<Look>> \o True
efm32_cmd_efm_info == <<Look, Deref>> \o True
efm32_cmd_bootloader == <<Arg("false"), Poll("false"), Write>> \o True
\* Two blocks: the target and its name; the second is used without a test and not kept.
efm32_aap_probe == <<Id("false"), New("false"), Hook("mass"), New("null"), Name>> \o True

nrf51_add_flash(n) == Flash(n)
nrf51_probe ==
    Member("false") \o <<Name, Opt>> \o Ram(1) \o nrf51_add_flash(2) \o <<Cmds, Hook("mass")>> \o True
nrf51_cmd_protect_flash == <<Write, Poll("false"), Write, Poll("false")>> \o True
nrf51_cmd_read == Either(<<Look>>, <<Arg("false"), Look>>) \o True
nrf51_mdm_probe == <<Id("false"), New("false"), Hook("mass"), Look, Name>> \o True
nrf91_add_flash == Flash(1)
nrf91_probe == <<Id("false"), Name, Opt>> \o Ram(1) \o nrf91_add_flash \o True

-----------------------------------------------------------------------------
(* Renesas, Raspberry Pi, Zynq *)

renesas_add_rv40_flash(i) == SubSeq(Flash(i), i, i)
renesas_add_flash(i) == <<Deref>> \o Perhaps(<<Hook("enter")>> \o renesas_add_rv40_flash(i))
renesas_fmifrt_read == <<Look>>
renesas_pnr_read == <<Look>>
renesas_flash_size == <<>>
\* The regions of each series.
renesas_add_series == renesas_add_flash(1) \o Either(Ram(1), Ram(4)) \o renesas_flash_size \o renesas_add_flash(2)
\* The part's debug mode is switched on before it is known; the block and the
\* name stay when the series is not known.
renesas_ra_probe ==
    <<Touch>> \o Either(renesas_pnr_read, renesas_fmifrt_read \o renesas_pnr_read) \o <<Is("false"), New("false"), Keep, Name, Known("false")>> \o
    renesas_add_series \o <<Cmds>> \o True
renesas_uid == <<Deref, Arg("false"), Look>> \o True

renesas_rz_flash_prepare == <<Save, Touch>>
renesas_rz_part_name == <<Name>>
renesas_rz_add_flash == <<Hook("enter"), Hook("exit")>> \o renesas_rz_flash_prepare \o bmp_spi_add_flash \o <<Mend>>
renesas_rz_probe == <<Id("false"), Is("false")>> \o renesas_rz_part_name \o <<Look>> \o Perhaps(renesas_rz_add_flash) \o Ram(2) \o True

rp_flash_in_por_state == <<Look>>
rp_flash_connect_internal == <<Touch, Poll("hang"), Touch>>
rp_flash_init_spi == <<Touch, Look>>
rp_flash_put_get == <<Poll("hang"), Touch>>
rp_flash_exit_xip == rp_flash_init_spi \o rp_flash_put_get
rp_flash_flush_cache == <<Touch, Look, Touch>>
rp_flash_enter_xip == <<Touch, Look>>
rp_spi_config == <<Deref, Save, Touch>>
rp_spi_restore == <<Deref, Mend>>
rp_spi_setup_xfer == <<Touch>>
rp_get_flash_length == <<Look>>
rp_add_flash ==
    rp_flash_in_por_state \o Perhaps(rp_flash_connect_internal) \o rp_flash_exit_xip \o rp_spi_config \o rp_spi_setup_xfer \o
    rp_get_flash_length \o spi_read_sfdp \o FlashNull(1) \o rp_spi_restore \o Perhaps(rp_flash_flush_cache) \o rp_flash_enter_xip
rp_read_rom_func_table == <<Deref, Look, Check("false"), Look, Arg("false")>>
rp_probe ==
    <<Is("false"), New("false"), Keep, Hook("mass"), Name, Opt, Hook("attach"), Hook("enter"), Hook("exit"), Cmds>> \o True
rp_attach == <<CoreAttach("false")>> \o rp_read_rom_func_table \o <<FreeMap>> \o rp_add_flash \o Ram(1) \o True
rp_cmd_erase_sector == <<UseFlash, Arg("false"), Write>> \o True
rp_cmd_reset_usb_boot == <<Deref, Write, Run>> \o True
rp_rescue_probe == <<New("false"), Hook("attach"), Name>> \o True
rp_rescue_do_reset == <<Write, Poll("go")>> \o False

\* Reads the core until it answers, for a second, and passes the last exception on.
zynq7_reset == <<Write, Poll("false")>>
zynq7_probe == <<Id("false"), Name, Hook("reset"), Look>> \o Ram(4) \o True

-----------------------------------------------------------------------------
(* Microchip *)

sam_gpnvm_get == <<Look, Poll("false"), Look>>
samx7x_parse_id == <<>>               \* always a descriptor
sam_flash_size == <<>>
samx7x_add_ram == Either(Ram(1), Ram(3))
sam_add_flash == Flash(1)
sam3_add_flash == Flash(1)
\* The block stays when the part does not answer with its configuration.
samx7x_probe ==
    Member("false") \o <<New("false"), Keep>> \o samx7x_parse_id \o sam_gpnvm_get \o samx7x_add_ram \o sam_add_flash \o <<Cmds, Name>> \o True
sam3x_probe == sam_flash_size \o Member("false") \o <<Name>> \o Perhaps(<<Opt>>) \o Ram(1) \o Either(sam3_add_flash, Flash(2)) \o <<Cmds>> \o True
\* Only on the SAMx7x, whose TCM setting moves its RAM.
sam_cmd_gpnvm(x7) ==
    <<Arg("false")>> \o Perhaps(<<Arg("false"), Write, Poll("false")>>) \o sam_gpnvm_get \o
    (IF x7 THEN Perhaps(<<Deref, Ins("cutram", "ram", "go")>> \o samx7x_add_ram \o <<Write>>) ELSE <<>>) \o True

sam4l_extended_reset == <<Touch, Look, Touch>>
sam4l_add_flash == Flash(1)
sam4l_probe ==
    Member("false") \o <<Name, Hook("reset")>> \o Ram(1) \o sam4l_add_flash \o sam4l_extended_reset \o <<Check("go")>> \o True

samd_reset == <<Look, Write, Look, Write, Poll("go"), Write, Check("go")>>
samd20_revB_detach == <<CoreDetach, Look, Touch>>
samd11_attach == <<Look, Touch, CoreAttach("false")>> \o True
\* The first attach of a protected part does not touch it; the next one is cortexm_attach.
samd_protected_attach == <<Unhook("attach")>> \o True
samd_parse_device_id == <<Name>>      \* always a descriptor: name, flash and RAM size
samd_add_flash == Flash(1)
\* The block is used without a test.  Only a part held in reset is released.
samd_probe ==
    <<Is("false"), Is("false"), New("null"), Keep, Look, Deref>> \o samd_parse_device_id \o <<Hook("reset"), Hook("mass")>> \o
    Perhaps(Either(<<Hook("detach"), Hook("resume")>>, <<Hook("attach")>>)) \o Perhaps(<<Hook("attach")>>) \o
    Ram(1) \o samd_add_flash \o <<Cmds>> \o Perhaps(<<Look, Touch>>) \o True
samd_cmd_lock_flash == <<Arg("false"), Write>> \o True
samd_cmd_lock_bootprot == <<Arg("false"), Write>> \o True
samd_cmd_read == <<Look>> \o True
samd_cmd_mbist == <<UseFlash, Write, Poll("false"), Look>> \o True

samx5x_parse_device_id == <<Name>>
samx5x_add_flash == Flash(1)
\* Commands only for a part that is not protected.
samx5x_probe ==
    <<Is("false"), Is("false"), New("null"), Keep, Look, Deref>> \o samx5x_parse_device_id \o <<Hook("reset"), Hook("mass")>> \o
    Either(<<Hook("attach")>> \o Ram(1) \o samx5x_add_flash, Ram(1) \o samx5x_add_flash \o <<Cmds>>) \o
    Perhaps(<<Look, Touch>>) \o True
samx5x_set_flashlock == <<Look, Write, Poll("false")>>
samx5x_set_bootprot == <<Look, Write, Poll("false")>>
samx5x_cmd_lock_flash == samx5x_set_flashlock \o True
samx5x_cmd_lock_bootprot == samx5x_set_bootprot \o True
samx5x_cmd_read == <<Look>> \o True
samx5x_cmd_mbist == <<UseFlash, Write, Poll("false"), Look>> \o True
samx5x_cmd_update_user_word == <<Arg("false"), Arg("false"), Write, Poll("false")>> \o True
samx5x_cmd_write == <<Arg("false"), Write>> \o True

-----------------------------------------------------------------------------
(* The drivers *)

Probe == [
    stm32f1 |-> stm32f1_probe, gd32f1 |-> gd32f1_probe, gd32vf1 |-> gd32vf1_probe, at32f40x |-> at32f40x_probe,
    mm32l0xx |-> mm32l0xx_probe, mm32f3xx |-> mm32f3xx_probe, at32f43x |-> at32f43x_probe, ch32f1 |-> ch32f1_probe,
    hc32l110 |-> hc32l110_probe, stm32f4 |-> stm32f4_probe, gd32f4 |-> gd32f4_probe, stm32g0 |-> stm32g0_probe,
    stm32h5 |-> stm32h5_probe, stm32h7 |-> stm32h7_probe, stm32mp15_cm4 |-> stm32mp15_cm4_probe,
    stm32mp15_ca7 |-> stm32mp15_ca7_probe, stm32l0 |-> stm32l0_probe, stm32l4 |-> stm32l4_probe,
    lpc11xx |-> lpc11xx_probe, lpc15xx |-> lpc15xx_probe, lpc17xx |-> lpc17xx_probe, lpc40xx |-> lpc40xx_probe,
    lpc43xx |-> lpc43xx_probe, lpc546xx |-> lpc546xx_probe, lpc55xx |-> lpc55xx_probe, lpc55_dmap |-> lpc55_dmap_probe,
    imxrt |-> imxrt_probe, kinetis |-> kinetis_probe, kinetis_mdm |-> kinetis_mdm_probe, ke04 |-> ke04_probe,
    lmi |-> lmi_probe, msp432e4 |-> msp432e4_probe, msp432p4 |-> msp432p4_probe, efm32 |-> efm32_probe,
    efm32_aap |-> efm32_aap_probe, nrf51 |-> nrf51_probe, nrf51_mdm |-> nrf51_mdm_probe, nrf91 |-> nrf91_probe,
    renesas_ra |-> renesas_ra_probe, renesas_rz |-> renesas_rz_probe, rp |-> rp_probe, rp_rescue |-> rp_rescue_probe,
    zynq7 |-> zynq7_probe, samx7x |-> samx7x_probe, sam3x |-> sam3x_probe, sam4l |-> sam4l_probe, samd |-> samd_probe,
    samx5x |-> samx5x_probe]

\* The callbacks a driver may set; samd has one for the SAMD11 and one for protected parts.
Attach == [
    stm32f4 |-> {stm32f4_attach}, stm32g0 |-> {stm32g0_attach}, stm32h7 |-> {stm32h7_attach},
    stm32mp15_cm4 |-> {stm32mp15_attach}, stm32l0 |-> {stm32lx_protected_attach}, stm32l4 |-> {stm32l4_attach},
    lpc43xx |-> {lpc43x0_attach}, rp |-> {rp_attach}, rp_rescue |-> {rp_rescue_do_reset},
    samd |-> {samd11_attach, samd_protected_attach}, samx5x |-> {samd_protected_attach}]
Detach == [
    stm32f4 |-> stm32f4_detach, stm32g0 |-> stm32g0_detach, stm32h7 |-> stm32h7_detach,
    stm32mp15_cm4 |-> stm32mp15_detach, stm32l4 |-> stm32l4_detach, lpc43xx |-> lpc43x0_detach,
    samd |-> samd20_revB_detach]

\* t->reset and t->extended_reset.
Reset == [
    samd |-> samd_reset, samx5x |-> samd_reset, sam4l |-> sam4l_extended_reset, zynq7 |-> zynq7_reset,
    lpc17xx |-> lpc17xx_extended_reset, lpc40xx |-> lpc40xx_extended_reset]

\* Their monitor commands; the ones that program flash are in FlashDrivers.
Commands == [
    stm32f4 |-> {stm32f4_cmd_option, stm32f4_cmd_psize}, stm32g0 |-> {stm32g0_cmd_option, stm32g0_cmd_irreversible},
    stm32h5 |-> {stm32h5_cmd_uid, stm32h5_cmd_rev}, stm32h7 |-> {stm32h7_uid, stm32h7_crc, stm32h7_cmd_psize, stm32h7_cmd_rev},
    stm32mp15_cm4 |-> {stm32mp15_uid, stm32mp15_cmd_rev}, stm32l4 |-> {stm32l4_cmd_option},
    lpc11xx |-> {lpc11xx_read_uid}, lpc15xx |-> {lpc15xx_read_uid}, lpc43xx |-> {lpc43xx_cmd_reset, lpc43xx_cmd_mkboot},
    lpc546xx |-> {lpc546xx_cmd_erase_sector, lpc546xx_cmd_read_partid, lpc546xx_cmd_read_uid, lpc546xx_cmd_reset_attach,
                  lpc546xx_cmd_reset, lpc546xx_cmd_write_sector},
    lpc55xx |-> {lpc55xx_read_uid}, kinetis |-> {kinetis_cmd_unsafe}, ke04 |-> {kinetis_cmd_unsafe, ke04_cmd_sector_erase},
    msp432p4 |-> {msp432_cmd_erase_main, msp432_cmd_sector_erase},
    efm32 |-> {efm32_cmd_serial, efm32_cmd_efm_info, efm32_cmd_bootloader},
    nrf51 |-> {nrf51_cmd_protect_flash, nrf51_cmd_read}, renesas_ra |-> {renesas_uid},
    rp |-> {rp_cmd_erase_sector, rp_cmd_reset_usb_boot}, samx7x |-> {sam_cmd_gpnvm(TRUE)}, sam3x |-> {sam_cmd_gpnvm(FALSE)},
    samd |-> {samd_cmd_lock_flash, samd_cmd_lock_bootprot, samd_cmd_read, samd_cmd_mbist},
    samx5x |-> {samx5x_cmd_lock_flash, samx5x_cmd_lock_bootprot, samx5x_cmd_read, samx5x_cmd_mbist, samx5x_cmd_update_user_word, samx5x_cmd_write}]
=============================================================================
