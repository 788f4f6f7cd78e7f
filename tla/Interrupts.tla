----------------------------- MODULE Interrupts -----------------------------
(***************************************************************************)
(* How an interrupt gets from a device or the timer to the kernel on the   *)
(* K210, which has no supervisor external interrupts: the firmware's trap  *)
(* handler (rustsbi/rustsbi-k210/src/main.rs) turns one into a supervisor  *)
(* software interrupt with 9 in stval, and a machine timer interrupt into  *)
(* a supervisor timer interrupt; DevIntr (kern/trap/trap.cpp) takes them,  *)
(* with the PLIC (kern/trap/plic.cpp) and set_next_timeout                 *)
(* (kern/sync/timer.cpp).                                                  *)
(*                                                                         *)
(* Machine traps come at any time, also between two steps of a handler.    *)
(* The firmware's side of a trap is one step: it runs with every interrupt *)
(* of its hart off.  What the kernel does once DevIntr has returned is in  *)
(* module Traps, what consoleintr and disk_intr do is in Console and Disk. *)
(***************************************************************************)
EXTENDS Integers, FiniteSets

CONSTANTS
    Harts,
    MaxChars,   \* bound: what waits in the UART's receive queue
    Acks        \* whether DevIntr acknowledges a device interrupt to the firmware:
                \* the code does so under QEMU alone, so {FALSE} on the K210

ASSUME InterruptsAssumption ==
    /\ MaxChars \in Nat \ {0}
    /\ Acks \subseteq BOOLEAN

Irqs == {"uart", "disk"}    \* UART_IRQ and DISK_IRQ
Nobody == "none"            \* Plic_Claim's 0

VARIABLES
    acks,       \* which of Acks this kernel is built with
    raised,     \* how many characters wait; 1 while the DMA's interrupt is raised
    claimed,    \* the interrupts that are claimed and not complete
    mei, mti,   \* mie: MEIE and MTIE
    mtip,       \* mip: the hart's clock has passed mtimecmp
    ssip, stip, \* sip: what the firmware has forwarded
    stval,      \* "external" for 9, "address" for any other value
    pc,         \* where the hart is in DevIntr, or "code"
    cause, irq  \* scause and DevIntr's irq, while in DevIntr

plic == <<raised, claimed>>
masks == <<mei, mti>>
forwarded == <<ssip, stip>>
kernel == <<pc, cause, irq>>
interruptVars == <<acks, plic, masks, mtip, forwarded, stval, kernel>>

Set(f, h, v) == [f EXCEPT ![h] = v]

\* set_next_timeout in TrapInitHart: with the clock past mtimecmp, which nobody has set
\* before, it enables MEIE
InterruptsInit ==
    /\ acks \in Acks
    /\ raised = [i \in Irqs |-> 0] /\ claimed = {}
    /\ mei \in [Harts -> BOOLEAN] /\ mti = [h \in Harts |-> TRUE]
    /\ mtip = [h \in Harts |-> FALSE]
    /\ ssip = [h \in Harts |-> FALSE] /\ stip = [h \in Harts |-> FALSE]
    /\ stval = [h \in Harts |-> "address"]
    /\ pc = [h \in Harts |-> "code"]
    /\ cause = [h \in Harts |-> "none"] /\ irq = [h \in Harts |-> Nobody]

-----------------------------------------------------------------------------
(* The devices and the hart's clock *)

\* A level-triggered source is not offered again before it is completed.
Pending(i) == raised[i] > 0 /\ i \notin claimed
Meip == \E i \in Irqs : Pending(i)

Raise(i) ==
    /\ raised[i] < (IF i = "uart" THEN MaxChars ELSE 1)
    /\ raised' = [raised EXCEPT ![i] = @ + 1]
    /\ UNCHANGED <<acks, claimed, masks, mtip, forwarded, stval, kernel>>

\* the next transfer clears the channel's interrupt before anybody has seen it
Withdraw ==
    /\ raised["disk"] = 1
    /\ raised' = Set(raised, "disk", 0)
    /\ UNCHANGED <<acks, claimed, masks, mtip, forwarded, stval, kernel>>

Expire(h) ==
    /\ ~mtip[h]
    /\ mtip' = Set(mtip, h, TRUE)
    /\ UNCHANGED <<acks, plic, masks, forwarded, stval, kernel>>

-----------------------------------------------------------------------------
(* The firmware *)

Mask(h) == mei' = Set(mei, h, FALSE) /\ mti' = Set(mti, h, FALSE)

\* Mutant: the interrupt is forwarded without its mark
ForwardUnmarked(h) ==
    /\ ssip' = Set(ssip, h, TRUE)
    /\ UNCHANGED <<stip, stval>>

ForwardExternal(h) ==
    /\ stval' = Set(stval, h, "external")
    /\ ssip' = Set(ssip, h, TRUE)
    /\ UNCHANGED stip

MachineExternal(h) ==
    /\ mei[h] /\ Meip
    /\ ForwardExternal(h)
    /\ Mask(h)
    /\ UNCHANGED <<acks, plic, mtip, kernel>>

\* an external interrupt comes first
MachineTimer(h) ==
    /\ mti[h] /\ mtip[h] /\ ~(mei[h] /\ Meip)
    /\ stip' = Set(stip, h, TRUE)
    /\ Mask(h)
    /\ UNCHANGED <<acks, plic, mtip, ssip, stval, kernel>>

\* Mutant: the call for a new time does not look at MTIP
SetTimer(h) ==
    /\ \E late \in BOOLEAN :
        /\ mtip' = Set(mtip, h, late)
        /\ mti' = Set(mti, h, ~late)
        /\ stip' = Set(stip, h, late)
    /\ UNCHANGED <<mei, ssip>>

\* the call for a new time, which may have passed before mtimecmp holds it
SbiSetTimer(h) ==
    /\ mei' = IF mtip[h] THEN Set(mei, h, TRUE) ELSE mei
    /\ \E late \in BOOLEAN :
        /\ mtip' = Set(mtip, h, late)
        /\ mti' = Set(mti, h, ~late)
        /\ stip' = Set(stip, h, late)
    /\ UNCHANGED ssip

\* Mutant: only MEIE, as the call that registers a handler does
SbiSetMext(h) == mei' = Set(mei, h, TRUE) /\ UNCHANGED mti

SbiSetMie(h) == mei' = Set(mei, h, TRUE) /\ mti' = Set(mti, h, TRUE)

-----------------------------------------------------------------------------
(* The kernel *)

At(h, label) == pc[h] = label
Proceed(h, label) == pc' = Set(pc, h, label)

\* A process faults: nothing of the kernel's is pending, or it would be taken first.
Fault(h) ==
    /\ At(h, "code") /\ ~ssip[h] /\ ~stip[h]
    /\ stval' = Set(stval, h, "address")
    /\ UNCHANGED <<acks, plic, masks, mtip, forwarded, kernel>>

\* The hart takes a supervisor interrupt, a software interrupt first, when the code it runs
\* lets it.
Take(h, c) ==
    /\ At(h, "code")
    /\ IF c = "software" THEN ssip[h] ELSE stip[h] /\ ~ssip[h]
    /\ cause' = Set(cause, h, c)
    /\ Proceed(h, "DevIntr")
    /\ UNCHANGED <<acks, plic, masks, mtip, forwarded, stval, irq>>

\* Plic_Claim: of two with the same priority, which PlicInit gives them, the PLIC offers
\* the lower number first
Offered(i) == Pending(i) /\ (i = "uart" => ~Pending("disk"))
Claim(h, i) ==
    /\ At(h, "DevIntr") /\ cause[h] = "software" /\ stval[h] = "external"
    /\ IF i = Nobody THEN ~Meip ELSE Offered(i)
    /\ irq' = Set(irq, h, i)
    /\ claimed' = claimed \cup ({i} \ {Nobody})
    /\ Proceed(h, "device")
    /\ UNCHANGED <<acks, raised, masks, mtip, forwarded, stval, cause>>

\* one character is read, or dmac_intr clears the channel's interrupt
Device(h) ==
    /\ At(h, "device")
    /\ raised' = CASE irq[h] = "uart" -> [raised EXCEPT !["uart"] = @ - 1]
                   [] irq[h] = "disk" -> Set(raised, "disk", 0)
                   [] OTHER -> raised
    /\ Proceed(h, "complete")
    /\ UNCHANGED <<acks, claimed, masks, mtip, forwarded, stval, cause, irq>>

Return(h) ==
    /\ Proceed(h, "code")
    /\ cause' = Set(cause, h, "none") /\ irq' = Set(irq, h, Nobody)

\* and out of DevIntr, where the software interrupt is not acknowledged
Complete(h) ==
    /\ At(h, "complete")
    /\ claimed' = claimed \ {irq[h]}
    /\ IF acks THEN Proceed(h, "w_sip") /\ UNCHANGED <<cause, irq>> ELSE Return(h)
    /\ UNCHANGED <<acks, raised, masks, mtip, forwarded, stval>>

Acknowledge(h) ==
    /\ At(h, "w_sip")
    /\ ssip' = Set(ssip, h, FALSE)
    /\ Proceed(h, "sbi_set_mie")
    /\ UNCHANGED <<acks, plic, masks, mtip, stip, stval, cause, irq>>

Unmask(h) ==
    /\ At(h, "sbi_set_mie")
    /\ SbiSetMie(h)
    /\ Return(h)
    /\ UNCHANGED <<acks, plic, mtip, forwarded, stval>>

set_next_timeout(h) ==
    /\ At(h, "DevIntr") /\ cause[h] = "timer"
    /\ SbiSetTimer(h)
    /\ Return(h)
    /\ UNCHANGED <<acks, plic, stval>>

-----------------------------------------------------------------------------
Firmware(h) == MachineExternal(h) \/ MachineTimer(h)
DevIntrHandler(h) ==
    \/ \E i \in Irqs \cup {Nobody} : Claim(h, i)
    \/ Device(h) \/ Complete(h) \/ Acknowledge(h) \/ Unmask(h) \/ set_next_timeout(h)

InterruptsNext ==
    \/ Withdraw
    \/ \E i \in Irqs : Raise(i)
    \/ \E h \in Harts :
        \/ Expire(h) \/ Firmware(h) \/ DevIntrHandler(h) \/ Fault(h)
        \/ \E c \in {"software", "timer"} : Take(h, c)

InterruptsSpec == InterruptsInit /\ [][InterruptsNext]_interruptVars

\* A handler and the firmware run, a clock goes on, and no code keeps interrupts off for
\* ever.  A timer interrupt waits for the software interrupts (SF).
InterruptsFairness ==
    \A h \in Harts :
        /\ WF_interruptVars(DevIntrHandler(h))
        /\ WF_interruptVars(Expire(h)) /\ WF_interruptVars(Firmware(h))
        /\ WF_interruptVars(Take(h, "software")) /\ SF_interruptVars(Take(h, "timer"))

FairInterruptsSpec == InterruptsSpec /\ InterruptsFairness

-----------------------------------------------------------------------------
(* Properties *)

\* DevIntr tells a device interrupt by stval (trap.cpp:156), which the firmware has
\* written some time before the kernel takes the interrupt and which a page fault writes
\* too: no software interrupt reaches DevIntr with another value.  DevIntr would return 0 and
\* KernelTrap panic, which is why neither is an action here.
RecognisesDevices ==
    \A h \in Harts : At(h, "DevIntr") /\ cause[h] = "software" => stval[h] = "external"

\* The firmware masks both machine interrupts whenever it forwards one (main.rs:428-442)
\* and leaves it to the kernel to have them enabled again: a hart whose timer is masked
\* has a forwarded interrupt that it has yet to take, or is on its way to the call; and
\* one that does not listen to devices has that or a timer interrupt to come, which
\* enables both.
MaskedForAReason ==
    \A h \in Harts :
        /\ ~mti[h] => ssip[h] \/ stip[h] \/ pc[h] = "sbi_set_mie"
        /\ ~mei[h] => ssip[h] \/ stip[h] \/ pc[h] = "sbi_set_mie" \/ mti[h]

\* A hart whose timer interrupts are forwarded ("Forward to S-level timer interrupt",
\* main.rs:429) goes on getting ticks (set_next_timeout, timer.cpp:17) once no device
\* keeps it busy.
TicksArrive == <>[](~Meip) => \A h \in Harts : []<>(cause[h] = "timer")

\* Every device interrupt that stays is handled by some hart, the UART's if the disk's do
\* not keep coming before it, and ticks arrive if the kernel is one that acknowledges:
\* whatever order the interrupts come in and whichever hart they come to.
Served(i) == raised[i] > 0 ~> (raised[i] = 0 \/ \E h \in Harts : irq[h] = i)
InterruptsServed ==
    /\ Served("disk")
    /\ <>[](~Pending("disk")) => Served("uart")
    /\ acks => TicksArrive

=============================================================================
