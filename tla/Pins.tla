-------------------------------- MODULE Pins --------------------------------
(***************************************************************************)
(* The K210's pins (kern/driver/fpioa.c): which function each has, by the  *)
(* table of what a function asks of its pin.                               *)
(*                                                                         *)
(* The table's eighteen fields are the drive strength and the set of the   *)
(* one-bit fields that are 1; ch_sel of a row is its index.  Of a pin's    *)
(* register, fpioa_set_function_raw copies the row and only the pulls are  *)
(* written again, so a pin is its function and its pulls.                  *)
(***************************************************************************)
EXTENDS Integers, FiniteSets, TLC

Pin == 0..47            \* FPIOA_NUM_IO
FUNC_MAX == 256
Function == 0..FUNC_MAX - 1
FUNC_SPI0_D0 == 4
FUNC_SPI0_D1 == 5
FUNC_SPI0_SS3 == 15
FUNC_SPI0_SCLK == 17
FUNC_GPIOHS0 == 24
FUNC_RESV0 == 120

VARIABLE io     \* fpioa->io

-----------------------------------------------------------------------------
(* function_config *)

Row(ds, bits) == [ds |-> ds, bits |-> bits]

Unconnected == Row(0, {})
Input == Row(0, {"ie_en", "st"})
PulledInput == Row(0, {"ie_en", "st", "pu"})
TiedInput == Row(0, {"ie_en", "st", "tie_en", "tie_val"})
Output == Row(15, {"oe_en"})
Either == Row(15, {"oe_en", "ie_en", "st"})
PulledEither == Row(15, {"oe_en", "ie_en", "st", "pu", "sl"})
\* the device turns its direction around
Bidirectional == Row(15, {"oe_en", "oe_inv", "ie_en", "ie_inv", "st"})
OpenDrain == Row(0, {"oe_en", "ie_en", "st", "pu", "sl"})
OpenDrainData == Row(0, {"oe_en", "oe_inv", "ie_en", "st", "pu", "sl"})

Rows(first, last, row) == [f \in first..last |-> row]

Jtag == Rows(0, 2, Input) @@ Rows(3, 3, Output)
Spi0Data == Rows(4, 11, Bidirectional)
Spi0Control == Rows(12, 15, Output) @@ Rows(16, 16, TiedInput) @@ Rows(17, 17, Output)
Uarths == Rows(18, 18, Input) @@ Rows(19, 19, Output)
Clocks1 == Rows(20, 21, Input) @@ Rows(22, 23, Output)
Gpiohs == Rows(FUNC_GPIOHS0, 55, Either)
Gpio == Rows(56, 63, Either)
Uarts == [f \in 64..69 |-> IF f % 2 = 0 THEN Input ELSE Output]
Spi1Data == Rows(70, 77, Bidirectional)
Spi1Control == Rows(78, 81, Output) @@ Rows(82, 82, TiedInput) @@ Rows(83, 83, Output)
SpiSlave == Rows(84, 84, Bidirectional) @@ Rows(85, 86, Input)
I2s0 == Rows(87, 89, Output) @@ Rows(90, 93, Input) @@ Rows(94, 97, Output)
I2s1 == Rows(98, 100, Output) @@ Rows(101, 104, Input) @@ Rows(105, 108, Output)
I2s2 == Rows(109, 111, Output) @@ Rows(112, 115, Input) @@ Rows(116, 119, Output)
Reserved == Rows(FUNC_RESV0, 125, Unconnected)
I2c == Rows(126, 131, OpenDrain)
Cmos == Rows(132, 134, Output) @@ Rows(135, 145, Input)
Sccb == Rows(146, 147, OpenDrainData)
Uart1Modem == Rows(148, 152, Input) @@ Rows(153, 161, Output)
Uart2Modem == Rows(162, 166, Input) @@ Rows(167, 175, Output)
Uart3Modem == Rows(176, 180, Input) @@ Rows(181, 189, Output)
Timer0 == Rows(190, 193, Output)
Timer1 == Rows(194, 197, Output)
Timer2 == Rows(198, 201, Output)
Clocks2 == Rows(202, 203, Output)
Internal ==
    Rows(204, 212, Output) @@ Rows(213, 216, Input) @@ Rows(217, 217, PulledInput) @@
    Rows(218, 218, PulledEither) @@ Rows(219, 221, Input) @@ Rows(223, 223, Input)
Constant == Rows(222, 222, Unconnected)
Debug == Rows(224, 255, Output)

function_config ==
    Jtag @@ Spi0Data @@ Spi0Control @@ Uarths @@ Clocks1 @@ Gpiohs @@ Gpio @@ Uarts @@
    Spi1Data @@ Spi1Control @@ SpiSlave @@ I2s0 @@ I2s1 @@ I2s2 @@ Reserved @@ I2c @@ Cmos @@
    Sccb @@ Uart1Modem @@ Uart2Modem @@ Uart3Modem @@ Timer0 @@ Timer1 @@ Timer2 @@
    Clocks2 @@ Internal @@ Constant @@ Debug

-----------------------------------------------------------------------------
(* Operations, where their arguments are in range; else they return -1 *)

fpioa_set_function_raw(f) ==
    [ch_sel |-> f, pulls |-> function_config[f].bits \cap {"pu", "pd"}]

\* Mutant: the function stays on the pin that had it
SetFunctionAgain(n, f) == io' = [io EXCEPT ![n] = fpioa_set_function_raw(f)]

\* every other pin that has the function loses it
fpioa_set_function(n, f) ==
    io' = [m \in Pin |->
              IF m = n THEN fpioa_set_function_raw(f)
              ELSE IF io[m].ch_sel = f /\ f # FUNC_RESV0 THEN fpioa_set_function_raw(FUNC_RESV0)
              ELSE io[m]]

\* the lowest such pin, or -1
fpioa_get_io_by_function(f) ==
    IF \A n \in Pin : io[n].ch_sel # f THEN -1
    ELSE CHOOSE n \in Pin : /\ io[n].ch_sel = f
                            /\ \A m \in 0..n - 1 : io[m].ch_sel # f

fpioa_set_io_pull(n, pulls) ==
    io' = IF n \in Pin THEN [io EXCEPT ![n].pulls = pulls] ELSE io

\* What a pin does: io[n] carries its function's signal out, or in
Drives(n) == "oe_en" \in function_config[io[n].ch_sel].bits
Listens(n) == "ie_en" \in function_config[io[n].ch_sel].bits
=============================================================================
