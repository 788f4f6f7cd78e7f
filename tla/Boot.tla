-------------------------------- MODULE Boot --------------------------------
(***************************************************************************)
(* How main (kern/init/main.cpp) makes the card ready on hart 0, and the   *)
(* disk path it is then used by: the pins (Pins), the DMA controller's     *)
(* clock and reset, the card's select line and the commands of sd_init     *)
(* (kern/driver/sdcard.cpp).  When it is done the processes of Disk run.   *)
(*                                                                         *)
(* A command, with the bytes the SPI controller sends and receives for it  *)
(* (kern/driver/spi.c) and the loop that waits for R1, is one step: hart 0 *)
(* is alone.  Of the bytes that come back, R1 is "idle" for 0x01, "ok" for *)
(* 0, "silent" for 0xff and "error" for any other, or when the bytes that  *)
(* follow (the echo, the voltages) are wrong.                              *)
(***************************************************************************)
EXTENDS Disk, Pins, Sequences

CONSTANTS
    Tries,      \* how often most loops try, 0xfe in the code
    SlowTries,  \* how often set_SDXC_capacity does, 0xffe
    MaxSlow,    \* bound: how often a card says that it is not ready yet
    Found       \* functions that pins may have before fpioa_pin_init

ASSUME BootAssumption ==
    /\ {Tries, SlowTries} \subseteq Nat \ {0} /\ MaxSlow \in Nat
    /\ Found \subseteq Function /\ Sectors \subseteq Nat

VARIABLES
    step,           \* where main is
    given,          \* how many functions fpioa_pin_init has given a pin
    timeout,        \* the tries that are left in this loop
    clocks,         \* the clocks that are enabled
    cs,             \* gpiohs->output_en, bit 7
    is_standard_sd,
    sd,             \* the card: what it is and what it has been told
    noisy           \* whether its answers may be lost

device == <<clocks, cs, io>>
bootVars == <<step, given, timeout, device, is_standard_sd, sd, noisy>>
allVars == <<vars, bootVars>>

-----------------------------------------------------------------------------
(* Pins and clocks *)

\* fpioa_pin_init's calls in their order: the pin and its function
Wiring == <<<<27, FUNC_SPI0_SCLK>>, <<28, FUNC_SPI0_D0>>, <<26, FUNC_SPI0_D1>>,
            <<32, FUNC_GPIOHS0 + 7>>, <<29, FUNC_SPI0_SS3>>>>

\* What the firmware has set up: the console and its own button
Firmware == [n \in {4, 5, 16} |-> CASE n = 4 -> 18 [] n = 5 -> 19 [] n = 16 -> 24]

\* Pins a boot ROM may have used, one that fpioa_pin_init sets and one it does not
Strays == {0, 28}

\* The clocks of the bus a device hangs on
Apb0 == {"GPIO", "SPI2", "I2S0", "I2S1", "I2S2", "I2C0", "I2C1", "I2C2", "UART1", "UART2",
         "UART3", "FPIOA", "TIMER0", "TIMER1", "TIMER2", "SHA"}
Apb1 == {"AES", "WDT0", "WDT1", "OTP", "RTC"}
Apb2 == {"SPI0", "SPI1"}
sysctl_clock_bus_en(clock) ==
    {bus \in {"APB0", "APB1", "APB2"} :
        clock \in (CASE bus = "APB0" -> Apb0 [] bus = "APB1" -> Apb1 [] OTHER -> Apb2)}

\* Those that sysctl_clock_device_en has a register bit for
Clock == Apb0 \cup Apb1 \cup Apb2 \cup
    {"PLL0", "PLL1", "PLL2", "CPU", "SRAM0", "SRAM1", "APB0", "APB1", "APB2", "ROM", "DMA",
     "AI", "DVP", "FFT", "SPI3"}

sysctl_clock_enable(clock) ==
    clocks' = clocks \cup ({clock} \cap Clock) \cup sysctl_clock_bus_en(clock)

-----------------------------------------------------------------------------
(* The card, as its specification has it *)

Kinds == {"SDHC", "SDSC", "version 1", "none"}

\* every line is on its pin and turned the way the card needs it
Wired ==
    /\ cs /\ {"SPI0", "APB2"} \subseteq clocks
    /\ \A i \in DOMAIN Wiring : io[Wiring[i][1]].ch_sel = Wiring[i][2]
    /\ \A n \in {27, 28, 29, 32} : Drives(n)
    /\ Listens(26)

\* Before CMD0 it listens to nothing else.
Hears(cmd) == Wired /\ sd.kind # "none" /\ (sd.mode = "sd" => cmd = "CMD0")

Told(cmd) ==
    [sd EXCEPT
        !.mode = CASE cmd = "CMD0" -> "idle"
                   [] cmd = "ACMD41" /\ sd.app /\ sd.slow = 0 -> "ready"
                   [] OTHER -> @,
        !.slow = IF cmd = "ACMD41" /\ sd.app /\ @ > 0 THEN @ - 1 ELSE @,
        !.app = cmd = "CMD55",
        !.block = IF cmd = "CMD16" THEN 512 ELSE @]

R1(cmd) ==
    IF cmd = "CMD8" /\ sd.kind = "version 1" THEN "error"
    ELSE IF Told(cmd).mode = "ready" THEN "ok" ELSE "idle"

\* A command and its answer; on a noisy line the one or the other gets lost.
Exchange(cmd, r1) ==
    \/ Hears(cmd) /\ sd' = Told(cmd) /\ r1 = R1(cmd)
    \/ ~Hears(cmd) /\ UNCHANGED sd /\ r1 = "silent"
    \/ noisy /\ Hears(cmd) /\ sd' \in {sd, Told(cmd)} /\ r1 \in {"silent", "error"}

Answers == {"idle", "ok", "silent", "error"}

-----------------------------------------------------------------------------
(* main, as far as the card needs it *)

\* SPI0's clock, which nobody here enables, is running.
BootInit ==
    /\ Init
    /\ step = "fpioa_pin_init" /\ given = 0 /\ timeout = 0
    /\ clocks = {"SPI0", "APB2"} /\ cs = FALSE
    /\ \E left \in [Strays -> Found] :
        io = [n \in Pin |-> fpioa_set_function_raw(
                  IF n \in DOMAIN Firmware THEN Firmware[n]
                  ELSE IF n \in Strays THEN left[n] ELSE FUNC_RESV0)]
    /\ is_standard_sd = FALSE
    /\ noisy \in BOOLEAN
    /\ sd \in [kind : Kinds, mode : {"sd"}, app : {FALSE}, block : {512, 1024},
               slow : 0..MaxSlow]
    /\ sd.kind = "SDSC" \/ sd.block = 512

At(s) == step = s

PinInit ==
    /\ At("fpioa_pin_init")
    /\ given' = given + 1
    /\ fpioa_set_function(Wiring[given'][1], Wiring[given'][2])
    /\ step' = IF given' = Len(Wiring) THEN "dmac_init" ELSE step
    /\ UNCHANGED <<vars, timeout, clocks, cs, is_standard_sd, sd, noisy>>

DmacClock ==
    /\ At("dmac_init")
    /\ sysctl_clock_enable("DMA")
    /\ step' = "reset"
    /\ UNCHANGED <<vars, given, timeout, cs, io, is_standard_sd, sd, noisy>>

\* it polls the controller until it is reset and off
DmacReset ==
    /\ At("reset") /\ "DMA" \in clocks
    /\ irq' = FALSE
    /\ step' = "sd_lowlevel_init"
    /\ UNCHANGED <<locked, state, pc, procVars, data, cells, card, by, dma, handler>>
    /\ UNCHANGED <<given, timeout, device, is_standard_sd, sd, noisy>>

Tried(s) ==
    CASE s = "set_SDXC_capacity" -> SlowTries
      [] s = "check_block_size" -> Tries + 1
      [] s = "verify_operation_condition" -> 1
      [] OTHER -> Tries

Enter(s) == step' = s /\ timeout' = Tried(s)

\* Mutant: the direction of the pin is left alone
LowLevelInitBlind ==
    /\ At("sd_lowlevel_init")
    /\ fpioa_set_io_pull(fpioa_get_io_by_function(FUNC_GPIOHS0 + 7), {"pd"})
    /\ Enter("switch_to_SPI_mode")
    /\ UNCHANGED <<vars, given, clocks, cs, is_standard_sd, sd, noisy>>

\* gpiohs_set_drive_mode(7, GPIO_DM_OUTPUT), and bytes that the card does not answer
LowLevelInit ==
    /\ At("sd_lowlevel_init")
    /\ fpioa_set_io_pull(fpioa_get_io_by_function(FUNC_GPIOHS0 + 7), {"pd"})
    /\ cs' = TRUE
    /\ Enter("switch_to_SPI_mode")
    /\ UNCHANGED <<vars, given, clocks, is_standard_sd, sd, noisy>>

\* One of sd_init's commands and what R1 it gets
Command(s, cmd, r1) ==
    /\ At(s) /\ timeout > 0
    /\ Exchange(cmd, r1)
    /\ UNCHANGED <<given, device>>

Again == timeout' = timeout - 1 /\ step' = step

\* "sdcard_init failed"
Fail == step' = "panicked"

SwitchToSpiMode ==
    \E r1 \in Answers :
        /\ Command("switch_to_SPI_mode", "CMD0", r1)
        /\ IF r1 = "idle" THEN Enter("verify_operation_condition") ELSE Again
        /\ UNCHANGED <<vars, is_standard_sd, noisy>>

VerifyOperationCondition ==
    \E r1 \in Answers :
        /\ Command("verify_operation_condition", "CMD8", r1)
        /\ IF r1 = "idle" THEN Enter("read_OCR") ELSE Again
        /\ UNCHANGED <<vars, is_standard_sd, noisy>>

ReadOcr ==
    \E r1 \in Answers :
        /\ Command("read_OCR", "CMD58", r1)
        /\ IF r1 = "idle" THEN Enter("set_SDXC_capacity") ELSE Again
        /\ UNCHANGED <<vars, is_standard_sd, noisy>>

\* CMD55: a card that is ready already, since an answer of it got lost, fails here.
SetCapacityApp ==
    \E r1 \in Answers :
        /\ Command("set_SDXC_capacity", "CMD55", r1)
        /\ IF r1 = "idle" THEN step' = "ACMD41" ELSE Fail
        /\ UNCHANGED <<vars, timeout, is_standard_sd, noisy>>

SetCapacity ==
    \E r1 \in Answers :
        /\ Command("ACMD41", "ACMD41", r1)
        /\ IF r1 = "ok" THEN Enter("check_block_size")
           ELSE step' = "set_SDXC_capacity" /\ timeout' = timeout - 1
        /\ UNCHANGED <<vars, is_standard_sd, noisy>>

\* What later gets lost is Disk's.
Ready(standard) ==
    /\ step' = "scheduler" /\ timeout' = 0
    /\ is_standard_sd' = standard
    /\ noisy' = FALSE

\* The OCR's bit 30 tells a card of high capacity.
CheckBlockSize ==
    \E r1 \in Answers :
        /\ Command("check_block_size", "CMD58", r1)
        /\ IF r1 = "ok"
           THEN IF sd.kind = "SDHC" THEN Ready(FALSE)
                ELSE Enter("CMD16") /\ UNCHANGED <<is_standard_sd, noisy>>
           ELSE Again /\ UNCHANGED <<is_standard_sd, noisy>>
        /\ UNCHANGED vars

SetBlockSize ==
    \E r1 \in Answers :
        /\ Command("CMD16", "CMD16", r1)
        /\ IF r1 = "ok" THEN Ready(TRUE) ELSE Again /\ UNCHANGED <<is_standard_sd, noisy>>
        /\ UNCHANGED vars

GiveUp ==
    /\ \E s \in {"switch_to_SPI_mode", "verify_operation_condition", "read_OCR",
                 "set_SDXC_capacity", "check_block_size", "CMD16"} : At(s)
    /\ timeout = 0
    /\ Fail
    /\ UNCHANGED <<vars, given, timeout, device, is_standard_sd, sd, noisy>>

-----------------------------------------------------------------------------
Main ==
    \/ PinInit \/ DmacClock \/ DmacReset \/ LowLevelInit
    \/ SwitchToSpiMode \/ VerifyOperationCondition \/ ReadOcr
    \/ SetCapacityApp \/ SetCapacity \/ CheckBlockSize \/ SetBlockSize \/ GiveUp

BootNext == Main \/ (step = "scheduler" /\ Next /\ UNCHANGED bootVars)

BootSpec == BootInit /\ [][BootNext]_allVars /\ WF_allVars(Main) /\ Fairness

-----------------------------------------------------------------------------
(* Properties *)

\* Each function that was given a pin is on that pin alone, and the console's pins keep
\* theirs.
PinsGiven ==
    /\ \A i \in 1..given : {n \in Pin : io[n].ch_sel = Wiring[i][2]} = {Wiring[i][1]}
    /\ \A n \in DOMAIN Firmware : io[n].ch_sel = Firmware[n]

\* The address that sdcard_read_sector and sdcard_write_sector send for a sector
\* (sdcard.cpp:340-345), and the sector a card of its kind takes it for.
Address(s) == IF is_standard_sd THEN s * 512 ELSE s
Meant(a) == IF sd.kind = "SDHC" THEN a
            ELSE IF sd.block = 512 /\ a % 512 = 0 THEN a \div 512 ELSE -1

\* What the disk path rests on when the processes start: fpioa_set_function
\* (fpioa.c:4876) has moved each function from wherever it was, so that
\* fpioa_get_io_by_function finds it, and check_block_size (sdcard.cpp:226-281) leaves the
\* driver and the card agreed on what an address is, whatever was lost on the way: every
\* sector is where a command looks for it.
BoardReady ==
    /\ PinsGiven
    /\ step = "scheduler" => \A s \in Sectors : Meant(Address(s)) = s

\* Every loop of sd_init ends, also without a card (sdcard.cpp:110-281), and a card that
\* is not older than version 2, answers and gets ready within the tries is found.
Good == ~noisy /\ sd.kind \in {"SDHC", "SDSC"} /\ sd.slow < SlowTries
CardFound ==
    /\ <>(step \in {"scheduler", "panicked"})
    /\ Good => <>(step = "scheduler")
=============================================================================
