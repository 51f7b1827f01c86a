---------------------------- MODULE FlashDrivers ----------------------------
(***************************************************************************)
(* The flash routines of the target drivers, one definition per C function, *)
(* under its name.  A routine is the sequence of what it does to the flash  *)
(* controller and of the tests that end it early, as FlashCall runs it.     *)
(* Left out are addresses, data and mode bits, and register writes that     *)
(* only prepare the next one.  A loop over pages is written for two pages.  *)
(***************************************************************************)
EXTENDS Integers, Sequences

(* One access to the target, or one test.  b is the bank; a test that holds *)
(* gives the result v: "true" and "false" return, "exit" jumps to the label *)
(* Exit that follows (what the C does on a failure), "over" to the label   *)
(* Over that follows, "go" carries on.                                      *)
Ins(do, until, stops, v) == [do |-> do, b |-> 1, until |-> until, stops |-> stops, v |-> v]
Op(do) == Ins(do, "", {}, "go")

Key == Op("key")                 \* the unlock sequence
Keyed == Op("keyed")             \* the same, when the lock bit reads as set
Lock == Op("lock")
Clear == Op("clear")             \* clear the error and end-of-operation flags
ClearSeen == Op("clearseen")     \* clear those the status read last shows
ClearEop == Op("cleareop")
Start == Op("start")             \* write the bit or register that starts a job
Launch == Op("launch")           \* the same, and the controller drops its old flags
Store == Op("store")             \* target_mem_write32 into the flash array
Poke == Op("poke")               \* target_mem_write and alike into it, result not looked at
Load == Op("load")               \* the same into a page buffer or RAM
LoadOr(v) == Ins("loador", "", {}, v)   \* the same, result looked at
Reset == Op("reset")             \* target_reset
Read == Op("read")               \* read the status register and keep it
Drop == Op("drop")               \* target_check_error, result not looked at
Exit == Op("exit")
Over == Op("over")
Bus == Op("bus")                 \* a wait for the debug port itself, without a timeout
Check(v) == Ins("check", "", {}, v)     \* target_check_error
If(c, v) == Ins("if", c, {}, v)         \* read the status now and test it
Sr(c, v) == Ins("sr", c, {}, v)         \* test the status read last
Maybe(v) == Ins("maybe", "", {}, v)     \* nothing to do, or refused, by the arguments
Either(v) == Ins("either", "", {}, v)   \* one of two errors the status tells apart
Ret(v) == Ins("ret", "", {}, v)
\* Poll the status until it shows `until`; `stops` are the tests in the loop that give up.
Wait(until, stops) == Ins("wait", until, stops, "false")

True == <<Ret("true")>>
Nothing == <<>>
On(b, p) == [i \in DOMAIN p |-> [p[i] EXCEPT !.b = b]]
Twice(p) == p \o p
Instead(p, from, to) == [i \in DOMAIN p |-> IF p[i].v = from THEN [p[i] EXCEPT !.v = to] ELSE p[i]]
OrExit(p) == Instead(p, "false", "exit")
Ignored(p) == Instead(p, "false", "go")

\* What a driver does not register: target_enter_flash_mode and
\* target_exit_flash_mode then reset the target, flash_prepare and flash_done do nothing.
Plain == [enter |-> {<<Reset, Ret("true")>>}, exit |-> {<<Reset, Ret("true")>>},
          prepare |-> {True}, done |-> {True},
          erase |-> {}, write |-> {}, mass |-> {}, option |-> {}]

-----------------------------------------------------------------------------
(* STM32F1 and its clones: two banks with registers of their own *)

stm32f1_flash_unlock == <<Key, If("locked", "false")>>

stm32f1_flash_clear_eop == <<Read, ClearSeen>>

\* Mutant: the error flags are not looked at.
stm32f1_flash_busy_wait_Blind == <<Wait("either", {"link"})>>
stm32f1_flash_busy_wait == <<Wait("either", {"link"}), Sr("err", "false")>>

stm32f1_flash_erase == stm32f1_flash_unlock \o stm32f1_flash_clear_eop \o <<Start>> \o stm32f1_flash_busy_wait

stm32f1_write_bank == stm32f1_flash_clear_eop \o <<Poke>> \o stm32f1_flash_busy_wait

\* Within one bank, and across the split.
stm32f1_flash_write ==
    {stm32f1_write_bank, On(2, stm32f1_write_bank), stm32f1_write_bank \o On(2, stm32f1_write_bank)}

stm32f1_mass_erase_bank == stm32f1_flash_unlock \o stm32f1_flash_clear_eop \o <<Start>> \o stm32f1_flash_busy_wait

stm32f1_mass_erase ==
    {stm32f1_flash_unlock \o stm32f1_mass_erase_bank,
     stm32f1_flash_unlock \o stm32f1_mass_erase_bank \o On(2, stm32f1_mass_erase_bank)}

stm32f1_option_erase == stm32f1_flash_clear_eop \o <<Start>> \o stm32f1_flash_busy_wait

\* A programming error of the read-protection half-word (offset 0) is taken
\* for success, the other errors are not.
stm32f1_option_write_erased(offset) ==
    stm32f1_flash_clear_eop \o <<Store>> \o
    (IF offset # 0 THEN stm32f1_flash_busy_wait
     ELSE OrExit(stm32f1_flash_busy_wait) \o <<Ret("over"), Exit, If("noerr", "false"), Either("false"), Over>>)

stm32f1_option_write == stm32f1_option_erase \o stm32f1_option_write_erased(0) \o stm32f1_option_write_erased(1)

stm32f1_cmd_option ==
    {stm32f1_flash_unlock \o <<Key>> \o p : p \in {stm32f1_option_erase \o stm32f1_option_write_erased(0), stm32f1_option_write}}

-----------------------------------------------------------------------------
(* STM32F4 and F7 *)

stm32f4_flash_unlock == <<Keyed>>
stm32f4_flash_busy_wait == <<Wait("idle", {"err", "link"})>>
stm32f4_flash_erase == stm32f4_flash_unlock \o Twice(<<Start>> \o stm32f4_flash_busy_wait)
stm32f4_flash_write == <<Poke>> \o stm32f4_flash_busy_wait
stm32f4_mass_erase == stm32f4_flash_unlock \o <<Start>> \o stm32f4_flash_busy_wait
stm32f4_option_write ==
    <<Read, Key>> \o stm32f4_flash_busy_wait \o <<Start>> \o stm32f4_flash_busy_wait \o <<Lock, Reset>>

-----------------------------------------------------------------------------
(* STM32G0: the lock is closed again at the end of every routine *)

stm32g0_flash_unlock == <<Key>>
stm32g0_flash_lock == <<Read, Lock>>
stm32g0_wait_busy == <<Wait("idle1", {"link"})>>
stm32g0_flash_op_finish == <<ClearEop>> \o stm32g0_flash_lock
stm32g0_verdict == <<Read, Sr("err", "exit")>> \o stm32g0_flash_op_finish \o True
                   \o <<Exit>> \o stm32g0_flash_op_finish \o <<Ret("false")>>

stm32g0_flash_erase ==
    OrExit(stm32g0_wait_busy) \o <<Read, ClearSeen>> \o stm32g0_flash_unlock
    \o OrExit(Twice(<<Start>> \o stm32g0_wait_busy)) \o stm32g0_verdict

stm32g0_flash_write ==
    stm32g0_flash_unlock \o <<Poke>> \o OrExit(stm32g0_wait_busy) \o stm32g0_verdict

stm32g0_mass_erase == stm32g0_flash_unlock \o <<Start>> \o OrExit(stm32g0_wait_busy) \o stm32g0_verdict

\* A dead link leaves without clearing the flags.
stm32g0_cmd_erase_bank ==
    stm32g0_flash_unlock \o <<Start>> \o OrExit(stm32g0_wait_busy) \o <<Read>> \o stm32g0_flash_op_finish
    \o <<Sr("err", "false")>> \o True \o <<Exit>> \o stm32g0_flash_lock \o <<Ret("false")>>

stm32g0_option_write ==
    stm32g0_flash_unlock \o <<Key>> \o OrExit(stm32g0_wait_busy) \o <<Start>> \o OrExit(stm32g0_wait_busy)
    \o <<Reset>> \o True \o <<Exit>> \o stm32g0_flash_op_finish \o <<Ret("false")>>

-----------------------------------------------------------------------------
(* STM32L0 and L1 *)

stm32lx_nvm_lock == <<Lock>>
stm32lx_nvm_prog_data_unlock == <<Lock, Key, If("locked", "false")>>
stm32lx_nvm_opt_unlock == <<Lock, Key, If("locked", "false")>>
stm32lx_nvm_busy_wait == <<Wait("idle1", {"link"}), Read, Check("false"), Sr("err", "false")>>

stm32lx_nvm_prog_erase ==
    stm32lx_nvm_prog_data_unlock \o <<If("dead", "false"), Clear>> \o Twice(<<Store>>)
    \o stm32lx_nvm_lock \o stm32lx_nvm_busy_wait

stm32lx_nvm_prog_write ==
    stm32lx_nvm_prog_data_unlock \o stm32lx_nvm_busy_wait \o <<Poke>> \o stm32lx_nvm_lock \o stm32lx_nvm_busy_wait

stm32lx_nvm_data_erase ==
    stm32lx_nvm_prog_data_unlock \o <<If("dead", "false")>> \o Twice(<<Store>>)
    \o stm32lx_nvm_lock \o stm32lx_nvm_busy_wait

stm32lx_nvm_data_write ==
    stm32lx_nvm_prog_data_unlock \o Twice(<<Store, Check("false")>>) \o stm32lx_nvm_lock \o stm32lx_nvm_busy_wait

stm32lx_protected_mass_erase ==
    stm32lx_nvm_opt_unlock \o <<Store, Reset, Store, Reset, Wait("idle1", {})>> \o stm32lx_nvm_lock

\* The result is compared with the 0 that meant success before routines
\* returned bool: an erase that succeeds ends the loop as a failure.
stm32lx_mass_erase == Twice(OrExit(stm32lx_nvm_prog_erase) \o <<Ret("false"), Exit>>)

stm32lx_option_write == <<Store>> \o stm32lx_nvm_busy_wait
stm32lx_eeprom_write == <<Clear, Store>> \o stm32lx_nvm_busy_wait

\* The two commands print their verdict and return true.
stm32lx_cmd_option ==
    Instead(stm32lx_nvm_opt_unlock, "false", "true") \o OrExit(stm32lx_option_write) \o <<Exit>> \o stm32lx_nvm_lock

stm32lx_cmd_eeprom ==
    Instead(stm32lx_nvm_prog_data_unlock, "false", "true") \o OrExit(stm32lx_eeprom_write) \o <<Exit>> \o stm32lx_nvm_lock

-----------------------------------------------------------------------------
(* STM32L4, G4, WB, U5 *)

stm32l4_flash_unlock == <<Keyed>>
stm32l4_flash_busy_wait == <<Wait("idle", {"err", "link"})>>
stm32l4_flash_erase ==
    <<Read, ClearSeen>> \o stm32l4_flash_unlock \o stm32l4_flash_busy_wait \o Twice(<<Start>> \o stm32l4_flash_busy_wait)
stm32l4_flash_write == <<Poke>> \o stm32l4_flash_busy_wait
stm32l4_cmd_erase == stm32l4_flash_unlock \o <<Start>> \o stm32l4_flash_busy_wait

\* Returns true for a failure, except when the option bytes failed to program;
\* written with the result its one caller, stm32l4_cmd_option, makes of it.
stm32l4_option_write ==
    stm32l4_flash_unlock \o <<Key>> \o stm32l4_flash_busy_wait
    \o <<Start>> \o Instead(stm32l4_flash_busy_wait, "false", "true")
    \o <<Reset, Wait("idle1", {"link"}), Lock>>

-----------------------------------------------------------------------------
(* STM32H5 *)

stm32h5_flash_wait_complete == <<Wait("either", {"link"}), ClearSeen, Sr("err", "false")>>
stm32h5_enter_flash_mode == <<Reset>> \o stm32h5_flash_wait_complete \o <<Keyed, If("locked", "false")>>
stm32h5_exit_flash_mode == <<Lock, Reset>>
stm32h5_flash_erase == Twice(<<Start>> \o stm32h5_flash_wait_complete)
stm32h5_flash_write == <<Poke>> \o stm32h5_flash_wait_complete
stm32h5_mass_erase ==
    stm32h5_enter_flash_mode \o <<Start>> \o OrExit(stm32h5_flash_wait_complete) \o stm32h5_exit_flash_mode \o True
    \o <<Exit>> \o stm32h5_exit_flash_mode \o <<Ret("false")>>

-----------------------------------------------------------------------------
(* STM32H7: two banks *)

stm32h7_flash_busy_wait ==
    OrExit(<<Wait("idle", {"err", "link"})>>) \o <<Ret("over"), Exit, ClearSeen, Ret("false"), Over>>
stm32h7_flash_unlock == stm32h7_flash_busy_wait \o <<Keyed, If("locked", "false")>>
stm32h7_flash_erase == stm32h7_flash_unlock \o Twice(<<Start>> \o stm32h7_flash_busy_wait)
stm32h7_flash_write == stm32h7_flash_unlock \o <<Poke>> \o stm32h7_flash_busy_wait
stm32h7_erase_bank == stm32h7_flash_unlock \o <<Start>>
stm32h7_wait_erase_bank == <<Wait("idle1", {"link"})>>
stm32h7_check_bank == <<If("err", "false")>>
stm32h7_mass_erase ==
    stm32h7_erase_bank \o On(2, stm32h7_erase_bank) \o stm32h7_wait_erase_bank \o On(2, stm32h7_wait_erase_bank)
    \o stm32h7_check_bank \o On(2, stm32h7_check_bank)

-----------------------------------------------------------------------------
(* AT32F43x *)

at32f43_flash_unlock == <<Keyed, If("locked", "false")>>
at32f43_flash_lock == <<Lock, If("unlocked", "false")>>
at32f43_flash_clear_eop == <<Read, ClearSeen>>
at32f43_flash_busy_wait == <<Wait("either", {"link"}), Sr("err", "false")>>
at32f43_flash_erase == <<Maybe("false")>> \o at32f43_flash_clear_eop \o <<Start>> \o at32f43_flash_busy_wait
at32f43_flash_write == at32f43_flash_clear_eop \o <<Poke>> \o at32f43_flash_busy_wait
at32f43_mass_erase_bank == at32f43_flash_unlock \o at32f43_flash_clear_eop \o <<Start>> \o at32f43_flash_busy_wait
at32f43_mass_erase == {at32f43_mass_erase_bank, at32f43_mass_erase_bank \o On(2, at32f43_mass_erase_bank)}

-----------------------------------------------------------------------------
(* CH32F1.  The macros WAIT_BUSY and WAIT_EOP return -1 on a dead link, which *)
(* a routine of type bool passes on as true.                               *)

WAIT_BUSY(v) == Instead(<<Wait("idle", {"link"})>>, "false", v)
WAIT_EOP(v) == Instead(<<Wait("eop", {"link"})>>, "false", v)

ch32f1_flash_unlock == <<Key, If("locked", "false")>>
ch32f1_flash_erase ==
    ch32f1_flash_unlock \o Twice(<<Start>> \o WAIT_EOP("true") \o <<ClearEop>>)
    \o <<Read, Lock, Sr("err", "false")>>
ch32f1_wait_flash_ready == <<If("dead", "false"), Maybe("false")>>
ch32f1_upload == <<Start>> \o WAIT_EOP("false") \o <<ClearEop>>
ch32f1_buffer_clear == WAIT_BUSY("go")
ch32f1_flash_write ==
    Twice(ch32f1_flash_unlock \o WAIT_BUSY("true") \o ch32f1_buffer_clear \o ch32f1_wait_flash_ready
          \o Twice(ch32f1_upload) \o <<Start>> \o WAIT_EOP("true") \o <<ClearEop, Read, Lock, Sr("err", "false")>>)

-----------------------------------------------------------------------------
(* A routine in target RAM: cortexm_run_stub, external to the drivers.      *)
(* lost is what its callers make of false, failed of a breakpoint with a    *)
(* number other than 0.                                                    *)
cortexm_run_stub(lost, failed) ==
    <<Check(lost), Launch, Ins("wait", "ready", {"time"}, lost), If("dead", lost), If("err", failed)>>

(* EFM32 *)
efm32_flash_erase == <<Key>> \o Twice(<<Start, Wait("idle1", {"link"})>>)
\* The code in RAM unlocks the controller itself.
efm32_flash_write == <<Load, Load, Key>> \o cortexm_run_stub("true", "false")
efm32_mass_erase ==
    <<Maybe("false"), Key>> \o Twice(<<Start, Wait("idle1", {"link"})>>) \o <<Lock>>
efm32_aap_mass_erase == <<If("busy", "false"), Key, Start, Wait("idle1", {}), Read>>

(* Stellaris *)
lmi_flash_erase == <<Drop>> \o Twice(<<Launch, Wait("idle1", {}), Check("false")>>)
lmi_flash_write == <<Drop, Load, Load, Check("false")>> \o cortexm_run_stub("true", "false")

-----------------------------------------------------------------------------
(* HC32L110 *)

hc32l110_flash_cr_unlock == <<Key>>
hc32l110_check_flash_completion == <<Wait("idle", {"link", "time"})>>
hc32l110_slock_lock_all == hc32l110_flash_cr_unlock \o <<Lock>>
hc32l110_slock_unlock_all == hc32l110_flash_cr_unlock
hc32l110_flash_prepare == hc32l110_flash_cr_unlock \o hc32l110_slock_unlock_all
hc32l110_flash_erase == <<Store>> \o hc32l110_check_flash_completion
hc32l110_flash_write == <<Store>> \o hc32l110_check_flash_completion
hc32l110_mass_erase ==
    <<Reset>> \o hc32l110_flash_cr_unlock \o hc32l110_check_flash_completion \o hc32l110_slock_unlock_all
    \o <<Store>> \o OrExit(hc32l110_check_flash_completion) \o hc32l110_slock_lock_all \o True
    \o <<Exit>> \o hc32l110_slock_lock_all \o <<Ret("false")>>

-----------------------------------------------------------------------------
(* LPC: in-application programming by the boot ROM.  The loop that waits for *)
(* the ROM routine has no time limit, and results not read are zero, which  *)
(* is IAP_STATUS_CMD_SUCCESS.                                              *)

lpc_iap_call == <<Load, Launch, Wait("ready", {}), If("err", "false"), Drop>>
lpc_flash_erase == {Twice(lpc_iap_call) \o lpc_iap_call, Twice(lpc_iap_call)}
lpc_flash_write == lpc_iap_call \o <<Load>> \o lpc_iap_call
lpc_flash_write_magic_vect == lpc_flash_write

lpc43xx_iap_init == {lpc_iap_call, Ignored(lpc_iap_call)}     \* only INVALID_COMMAND is a failure
lpc43xx_iap_mass_erase == Ignored(lpc_iap_call) \o Twice(Twice(lpc_iap_call))
lpc546xx_flash_init == <<Reset>>
lpc546xx_flash_erase == {lpc546xx_flash_init \o p : p \in lpc_flash_erase}
\* As stm32lx_mass_erase: success is reported as failure, and the other way round.
lpc546xx_mass_erase == {OrExit(p) \o <<Ret("false"), Exit>> : p \in lpc546xx_flash_erase}
lpc17xx_iap_call == <<Load, Launch, Wait("ready", {}), If("err", "false"), Drop>>
lpc17xx_mass_erase == lpc17xx_iap_call \o lpc17xx_iap_call \o lpc17xx_iap_call
lpc40xx_iap_call == <<Load, Launch, Wait("ready", {}), If("err", "false"), Drop>>
lpc40xx_mass_erase == lpc40xx_iap_call \o lpc40xx_iap_call \o lpc40xx_iap_call

iap_call_raw == <<Launch, Wait("ready", {}), If("err", "false")>>
lpc55xx_enter_flash_mode == <<Launch, Wait("ready", {})>>
lpc55xx_flash_prepare == <<Load>> \o iap_call_raw
lpc55xx_flash_erase == iap_call_raw
lpc55xx_flash_write == <<Load>> \o iap_call_raw
lpc55_dmap_cmd == <<Wait("idle1", {"time"}), Launch, Wait("idle1", {"time"})>>

-----------------------------------------------------------------------------
(* MSP432E4 and MSP432P4 *)

msp432e4_flash_erase == <<Launch, Wait("idle1", {})>>
msp432e4_flash_write == <<Launch, Wait("idle1", {})>>
msp432e4_mass_erase == <<Launch, Wait("idle1", {})>>

msp432_sector_unprotect == <<Read, Key>>
msp432_call_rom == <<Launch, Wait("ready", {})>>
msp432_verdict == <<If("dead", "exit"), If("err", "exit"), Lock, Ret("true"), Exit, Lock, Ret("false")>>
msp432_sector_erase == msp432_sector_unprotect \o msp432_call_rom \o msp432_verdict
msp432_flash_erase == msp432_sector_erase
msp432_flash_write == <<Load>> \o msp432_sector_unprotect \o msp432_call_rom \o msp432_verdict

-----------------------------------------------------------------------------
(* nRF51, nRF52 and nRF91 *)

\* Mutant: a dead link, which reads as not ready, is polled for ever.
nrf51_wait_ready_Deaf == <<Wait("ready1", {})>>
nrf51_wait_ready == <<Wait("ready1", {"link"})>>

nrf51_flash_prepare == <<Key>> \o nrf51_wait_ready
nrf51_flash_done == <<Lock>> \o nrf51_wait_ready
nrf51_flash_erase == Twice(<<Start>> \o nrf51_wait_ready)
nrf51_flash_write == <<Poke>> \o nrf51_wait_ready
nrf51_mass_erase == <<Reset, Key>> \o nrf51_wait_ready \o <<Start>> \o nrf51_wait_ready
nrf51_cmd_erase_uicr == <<Key>> \o nrf51_wait_ready \o <<Start>> \o nrf51_wait_ready
nrf51_mdm_mass_erase == <<Read, Launch, Wait("idle1", {}), Read>>

nrf91_wait_ready == <<Wait("ready1", {"link"})>>
nrf91_flash_erase ==
    <<Key>> \o nrf91_wait_ready \o Twice(<<Store>> \o nrf91_wait_ready) \o <<Lock>> \o nrf91_wait_ready
nrf91_flash_write == <<Key>> \o nrf91_wait_ready \o <<Poke>> \o nrf91_wait_ready \o <<Lock>>

-----------------------------------------------------------------------------
(* Kinetis and KE04 *)

kinetis_fccob_cmd == <<Clear, Wait("ready", {}), Start, Wait("ready", {"err"})>>
kinetis_flash_cmd_erase == Twice(kinetis_fccob_cmd)
kinetis_flash_cmd_write == Twice(kinetis_fccob_cmd)
\* Restores the security byte, if it was overwritten; its own failure is not reported.
kinetis_flash_done == <<Maybe("true")>> \o OrExit(kinetis_fccob_cmd) \o <<Exit>>
\* Acknowledged, then complete: the second loop ends when the request bit
\* reads as set, which is while the erase is under way.
kinetis_mdm_mass_erase ==
    <<Maybe("false"), If("notready", "false"), If("ack", "false"), Launch, Wait("ack", {}), Wait("busy", {})>>

ke04_wait_complete == <<Wait("ready", {"link"})>>
ke04_command == ke04_wait_complete \o <<Clear>> \o ke04_wait_complete \o <<Start, Wait("ready", {"err"})>>
ke04_flash_erase == Twice(ke04_command)
ke04_flash_write == Twice(ke04_command)
ke04_flash_done == <<Maybe("true")>> \o ke04_command
ke04_mass_erase == OrExit(ke04_command) \o <<Exit>> \o OrExit(ke04_flash_done) \o <<Exit>>
ke04_cmd_sector_erase == <<Maybe("false")>> \o OrExit(ke04_command) \o <<Exit>> \o OrExit(ke04_flash_done) \o <<Exit>>

-----------------------------------------------------------------------------
(* Serial flash behind a controller on the target.  bus is what a transfer  *)
(* waits for before it can say anything of the flash.                      *)

bmp_spi_flash_erase(bus) == bus \o <<Key>> \o bus \o <<If("unset", "false"), Start>> \o bus \o <<Wait("idle1", {})>>
bmp_spi_flash_write(bus) ==
    Twice(bus \o <<Key>> \o bus \o <<If("unset", "false"), Start>> \o bus \o <<Wait("idle1", {})>>)
bmp_spi_mass_erase(enter, bus, exit) ==
    enter \o bus \o <<Key>> \o bus \o <<If("unset", "exit"), Start>> \o bus \o <<Wait("idle1", {})>> \o exit \o True
    \o <<Exit>> \o exit \o <<Ret("false")>>

lpc43x0_spi_wait_complete == <<Read>>          \* a dead link reads as complete
lpc43x0_enter_flash_mode == lpc43x0_spi_wait_complete

imxrt_spi_wait_complete == <<Bus, Drop>>
imxrt_enter_flash_mode == <<Drop>>
imxrt_exit_flash_mode == <<Drop>>

renesas_rz_flash_prepare == <<Bus>>
renesas_rz_flash_resume == <<Read>>
renesas_rz_spi_run_xfer == <<Bus>>

rp_flash_connect_internal == <<Bus>>
rp_flash_put_get == <<Bus>>
rp_flash_exit_xip == Twice(rp_flash_put_get)
rp_flash_prepare == rp_flash_connect_internal \o rp_flash_exit_xip \o <<LoadOr("false")>>
rp_flash_resume == <<Read, Reset>>
rp_flash_write == <<LoadOr("false"), Key>> \o cortexm_run_stub("false", "false")

-----------------------------------------------------------------------------
(* SAM3, SAM4S, SAMx7x; SAM4L *)

sam_flash_cmd == <<Launch, Wait("ready", {"link"}), Sr("err", "false")>>
sam_flash_erase == Twice(sam_flash_cmd)
sam3_flash_erase == Nothing
sam_flash_write == <<Load>> \o sam_flash_cmd
sam_gpnvm_get == sam_flash_cmd
sam_cmd_gpnvm == <<Maybe("false")>> \o sam_flash_cmd \o sam_gpnvm_get

\* Returns once the command is issued; the next one waits for it.
\* Mutant: that wait is left out.
sam4l_flash_command_Hasty == <<Launch>>
sam4l_flash_command == <<Wait("ready1", {"time"}), Launch>>

sam4l_flash_write == <<Maybe("false")>> \o sam4l_flash_command \o <<Store>> \o sam4l_flash_command
sam4l_flash_erase == Twice(sam4l_flash_command)

-----------------------------------------------------------------------------
(* SAMD and SAMx5x *)

samd_lock_current_address == <<Lock>>
samd_unlock_current_address == <<Key>>
samd_wait_nvm_ready == <<Wait("ready1", {"link"})>>
samd_wait_dsu_ready == <<Wait("ready", {"link"})>>
samd_flash_erase ==
    Twice(samd_unlock_current_address \o <<Start>> \o samd_wait_nvm_ready \o samd_lock_current_address)
samd_flash_write == <<Load>> \o samd_unlock_current_address \o <<Start>> \o samd_wait_nvm_ready \o samd_lock_current_address
\* A protection error is printed and reported as success.
samd_mass_erase == <<Clear, Key, Start>> \o samd_wait_dsu_ready \o <<Sr("noerr", "true"), Either("true"), Ret("false")>>
\* Returns once the page write is issued.
samd_set_flashlock == <<Key, Start>> \o samd_wait_nvm_ready \o <<Load, Start>>
samd_set_bootprot == <<Key, Start>> \o samd_wait_nvm_ready \o <<Load, Start>>
samd_cmd_ssb == <<Key, Start>> \o samd_wait_nvm_ready \o <<Reset>>

samx5x_unlock_current_address == <<Key>>
samx5x_lock_current_address == <<Lock>>
samx5x_clear_nvm_error == <<Read, ClearSeen>>
samx5x_check_nvm_error == <<If("err", "false")>>
samx5x_ready == <<Wait("ready1", {"link", "err"})>>
samx5x_flash_erase ==
    samx5x_clear_nvm_error \o <<If("dead", "false"), Maybe("false")>> \o samx5x_unlock_current_address
    \o Twice(<<Start>> \o samx5x_ready \o <<Check("false")>> \o samx5x_check_nvm_error) \o samx5x_lock_current_address
samx5x_flash_write ==
    samx5x_clear_nvm_error \o samx5x_unlock_current_address \o <<Load, Start>> \o samx5x_ready
    \o <<Check("false")>> \o samx5x_check_nvm_error \o samx5x_lock_current_address
samx5x_write_user_page ==
    samx5x_clear_nvm_error \o <<Key, Start>> \o samx5x_ready \o Twice(<<Load, Start>> \o samx5x_ready)
samx5x_update_user_word == <<Drop, Maybe("true")>> \o samx5x_write_user_page
samx5x_cmd_ssb == <<Key, Start, Wait("ready1", {"link"})>>

-----------------------------------------------------------------------------
(* Renesas RA *)

renesas_enter_flash_mode == <<Reset>>
renesas_rv40_pe_mode(pe) ==
    IF pe = "READ" THEN <<Lock, Wait("shut1", {"link", "time"})>> ELSE <<Key, Wait("open1", {"link", "time"})>>
\* An error is cleared by a forced stop, which has to come to an end.
renesas_rv40_error_check ==
    <<Read, Sr("noerr", "over"), Clear, Wait("ready1", {"link", "time"}), Ret("false"), Over>>
renesas_rv40_prepare ==
    <<If("notready", "false"), If("unlocked", "false")>> \o renesas_rv40_pe_mode("CF") \o renesas_rv40_error_check
renesas_rv40_done == renesas_rv40_pe_mode("READ")
renesas_rv40_ready == <<Wait("ready1", {"link", "time"})>>
renesas_rv40_flash_erase == Twice(<<Start>> \o renesas_rv40_ready \o renesas_rv40_error_check)
renesas_rv40_flash_write == Twice(<<Start>> \o renesas_rv40_ready) \o renesas_rv40_error_check

-----------------------------------------------------------------------------
(* What each driver registers with target_flash.c, and its commands *)

Drivers ==
    [stm32f1 |-> [Plain EXCEPT !.erase = {stm32f1_flash_erase, On(2, stm32f1_flash_erase)}, !.write = stm32f1_flash_write,
                  !.mass = stm32f1_mass_erase, !.option = stm32f1_cmd_option],
     stm32f4 |-> [Plain EXCEPT !.erase = {stm32f4_flash_erase}, !.write = {stm32f4_flash_write},
                  !.mass = {stm32f4_mass_erase}, !.option = {stm32f4_option_write}],
     stm32g0 |-> [Plain EXCEPT !.erase = {stm32g0_flash_erase}, !.write = {stm32g0_flash_write},
                  !.mass = {stm32g0_mass_erase, stm32g0_cmd_erase_bank}, !.option = {stm32g0_option_write}],
     stm32lx |-> [Plain EXCEPT !.erase = {stm32lx_nvm_prog_erase}, !.write = {stm32lx_nvm_prog_write}, !.mass = {stm32lx_mass_erase},
                  !.option = {stm32lx_cmd_option, stm32lx_cmd_eeprom}],
     stm32lx_data |-> [Plain EXCEPT !.erase = {stm32lx_nvm_data_erase}, !.write = {stm32lx_nvm_data_write},
                  !.mass = {stm32lx_protected_mass_erase}],
     stm32l4 |-> [Plain EXCEPT !.erase = {stm32l4_flash_erase}, !.write = {stm32l4_flash_write}, !.mass = {stm32l4_cmd_erase},
                  !.option = {stm32l4_option_write}],
     stm32h5 |-> [Plain EXCEPT !.enter = {stm32h5_enter_flash_mode}, !.exit = {stm32h5_exit_flash_mode}, !.erase = {stm32h5_flash_erase},
                  !.write = {stm32h5_flash_write}, !.mass = {stm32h5_mass_erase}],
     stm32h7 |-> [Plain EXCEPT !.erase = {stm32h7_flash_erase, On(2, stm32h7_flash_erase)}, !.write = {stm32h7_flash_write},
                  !.mass = {stm32h7_mass_erase}],
     at32f43x |-> [Plain EXCEPT !.prepare = {at32f43_flash_unlock}, !.done = {at32f43_flash_lock}, !.erase = {at32f43_flash_erase},
                  !.write = {at32f43_flash_write}, !.mass = at32f43_mass_erase],
     ch32f1 |-> [Plain EXCEPT !.erase = {ch32f1_flash_erase}, !.write = {ch32f1_flash_write}],
     efm32 |-> [Plain EXCEPT !.erase = {efm32_flash_erase}, !.write = {efm32_flash_write}, !.mass = {efm32_mass_erase}],
     efm32_aap |-> [Plain EXCEPT !.mass = {efm32_aap_mass_erase}],
     lmi |-> [Plain EXCEPT !.erase = {lmi_flash_erase}, !.write = {lmi_flash_write}, !.mass = {lmi_flash_erase}],
     hc32l110 |-> [Plain EXCEPT !.prepare = {hc32l110_flash_prepare}, !.done = {hc32l110_slock_lock_all}, !.erase = {hc32l110_flash_erase},
                  !.write = {hc32l110_flash_write}, !.mass = {hc32l110_mass_erase}],
     lpc43xx |-> [Plain EXCEPT !.enter = {Nothing}, !.erase = {i \o p : i \in lpc43xx_iap_init, p \in lpc_flash_erase},
                  !.write = {lpc_flash_write_magic_vect}, !.mass = {lpc43xx_iap_mass_erase}],
     lpc546xx |-> [Plain EXCEPT !.erase = lpc546xx_flash_erase, !.write = {lpc_flash_write_magic_vect},
                  !.mass = lpc546xx_mass_erase],
     lpc17xx |-> [Plain EXCEPT !.enter = {Nothing}, !.exit = {Nothing}, !.erase = lpc_flash_erase, !.write = {lpc_flash_write_magic_vect},
                  !.mass = {lpc17xx_mass_erase}],
     lpc40xx |-> [Plain EXCEPT !.enter = {Nothing}, !.exit = {Nothing}, !.erase = lpc_flash_erase, !.write = {lpc_flash_write_magic_vect},
                  !.mass = {lpc40xx_mass_erase}],
     lpc55xx |-> [Plain EXCEPT !.enter = {lpc55xx_enter_flash_mode}, !.prepare = {lpc55xx_flash_prepare}, !.erase = {lpc55xx_flash_erase},
                  !.write = {lpc55xx_flash_write}, !.mass = {lpc55_dmap_cmd}],
     msp432e4 |-> [Plain EXCEPT !.erase = {msp432e4_flash_erase}, !.write = {msp432e4_flash_write}, !.mass = {msp432e4_mass_erase}],
     msp432p4 |-> [Plain EXCEPT !.erase = {msp432_flash_erase}, !.write = {msp432_flash_write}],
     nrf51 |-> [Plain EXCEPT !.prepare = {nrf51_flash_prepare}, !.done = {nrf51_flash_done}, !.erase = {nrf51_flash_erase},
                  !.write = {nrf51_flash_write}, !.mass = {nrf51_mass_erase}, !.option = {nrf51_cmd_erase_uicr}],
     nrf51_mdm |-> [Plain EXCEPT !.mass = {nrf51_mdm_mass_erase}],
     nrf91 |-> [Plain EXCEPT !.erase = {nrf91_flash_erase}, !.write = {nrf91_flash_write}],
     kinetis |-> [Plain EXCEPT !.erase = {kinetis_flash_cmd_erase}, !.write = {kinetis_flash_cmd_write}, !.done = {kinetis_flash_done}],
     kinetis_mdm |-> [Plain EXCEPT !.mass = {kinetis_mdm_mass_erase}],
     nxpke04 |-> [Plain EXCEPT !.erase = {ke04_flash_erase}, !.write = {ke04_flash_write}, !.done = {ke04_flash_done},
                  !.mass = {ke04_mass_erase}, !.option = {ke04_cmd_sector_erase}],
     lpc43x0 |-> [Plain EXCEPT !.enter = {lpc43x0_enter_flash_mode}, !.exit = {Nothing},
                  !.erase = {bmp_spi_flash_erase(lpc43x0_spi_wait_complete)}, !.write = {bmp_spi_flash_write(lpc43x0_spi_wait_complete)},
                  !.mass = {bmp_spi_mass_erase(lpc43x0_enter_flash_mode, lpc43x0_spi_wait_complete, Nothing)}],
     imxrt |-> [Plain EXCEPT !.enter = {imxrt_enter_flash_mode}, !.exit = {imxrt_exit_flash_mode},
                  !.erase = {bmp_spi_flash_erase(imxrt_spi_wait_complete)}, !.write = {bmp_spi_flash_write(imxrt_spi_wait_complete)},
                  !.mass = {bmp_spi_mass_erase(imxrt_enter_flash_mode, imxrt_spi_wait_complete, imxrt_exit_flash_mode)}],
     renesas_rz |-> [Plain EXCEPT !.enter = {renesas_rz_flash_prepare}, !.exit = {renesas_rz_flash_resume},
                  !.erase = {bmp_spi_flash_erase(renesas_rz_spi_run_xfer)}, !.write = {bmp_spi_flash_write(renesas_rz_spi_run_xfer)}],
     rp |-> [Plain EXCEPT !.enter = {rp_flash_prepare}, !.exit = {rp_flash_resume}, !.erase = {bmp_spi_flash_erase(<<Read>>)},
                  !.write = {rp_flash_write}, !.mass = {bmp_spi_mass_erase(Ignored(rp_flash_prepare), <<Read>>, rp_flash_resume)}],
     sam3x |-> [Plain EXCEPT !.erase = {sam3_flash_erase, sam_flash_erase}, !.write = {sam_flash_write}, !.option = {sam_cmd_gpnvm}],
     sam4l |-> [Plain EXCEPT !.erase = {sam4l_flash_erase}, !.write = {sam4l_flash_write}],
     samd |-> [Plain EXCEPT !.erase = {samd_flash_erase}, !.write = {samd_flash_write}, !.mass = {samd_mass_erase},
                  !.option = {samd_set_flashlock, samd_set_bootprot, samd_cmd_ssb}],
     samx5x |-> [Plain EXCEPT !.erase = {samx5x_flash_erase}, !.write = {samx5x_flash_write}, !.mass = {samd_mass_erase},
                  !.option = {samx5x_update_user_word, samx5x_cmd_ssb}],
     renesas_ra |-> [Plain EXCEPT !.enter = {renesas_enter_flash_mode}, !.prepare = {renesas_rv40_prepare}, !.done = {renesas_rv40_done},
                  !.erase = {renesas_rv40_flash_erase}, !.write = {renesas_rv40_flash_write}]]
=============================================================================
