------------------------------ MODULE MCMachine -----------------------------
(***************************************************************************)
(* Small machines from the boot loader to running CPUs: APXH, the CPUs of  *)
(* an x86 machine coming up, its ACPI platform, a RISC-V hart at work, and *)
(* the console.  Each is explored alone: part says which one runs, the     *)
(* others rest.                                                            *)
(***************************************************************************)
EXTENDS MCApxh

CONSTANTS Parts,
          CPU, Bsp,                                             \* Boot
          Tables, APIC_VECT_IRQMAX, MAXCPUS, GSI, Alarms, MaxCtr,  \* Acpi
          Trees, Irq, MaxOps,                                   \* Riscv
          Printers, First, Fbs, GlyphW, GlyphH, FB_ROWCHARS, MaxChars  \* Console

VARIABLES part,
          bpc, stflags, apbooting, active, info, kstackno, kstackcnt, kstack,
          ready, started, nmi, todo, told, cut,
          mach, phase, madt, hpet, lapics, lapics_no, ioapics, red, gsis,
          hpet_irq, cfg, ctr, isr, tpc, enabled, due,
          run, stack, on, ssip, pending, idle, alarm, line, plic, sum,
          usrpgfault, dead, owed, asked, ops,
          desc, fblock, fb, at, panicked, chars

X == INSTANCE Boot WITH pc <- bpc
P == INSTANCE Acpi WITH owed <- due
R == INSTANCE Riscv WITH cur <- run
C == INSTANCE Console

apxhVars == <<fw, map, cur, mmap, md, stage, img, ph, b>>
bootVars == <<bpc, stflags, apbooting, active, info, kstackno, kstackcnt, kstack,
              ready, started, nmi, todo, told, cut>>
acpiVars == <<mach, phase, madt, hpet, lapics, lapics_no, ioapics, red, gsis,
              hpet_irq, cfg, ctr, isr, tpc, enabled, due>>
hartVars == <<run, stack, on, ssip, pending, idle, alarm, line, plic, sum,
              usrpgfault, dead, owed, asked, ops>>
consVars == <<desc, fblock, fb, at, panicked, chars>>
allVars == <<part, apxhVars, bootVars, acpiVars, hartVars, consVars>>

InApxh(Act) == part = "apxh" /\ Act /\ UNCHANGED <<part, bootVars, acpiVars, hartVars, consVars>>
InBoot(Act) == part = "boot" /\ Act /\ UNCHANGED <<part, apxhVars, acpiVars, hartVars, consVars>>
InAcpi(Act) == part = "acpi" /\ Act /\ UNCHANGED <<part, apxhVars, bootVars, hartVars, consVars>>
InHart(Act) == part = "hart" /\ Act /\ UNCHANGED <<part, apxhVars, bootVars, acpiVars, consVars>>
InCons(Act) == part = "cons" /\ Act /\ UNCHANGED <<part, apxhVars, bootVars, acpiVars, hartVars>>

Fb(bpp, pitch, w, h, size, red_, green, blue) ==
  [bpp |-> bpp, pitch |-> pitch, width |-> w, height |-> h, size |-> size,
   r |-> red_, g |-> green, b |-> blue]
Screen == Fb(16, 26, 13, 3, 78, 11 .. 15, 5 .. 10, 0 .. 4)

NoLoader ==
  /\ fw = "" /\ map = <<>> /\ cur = 0 /\ mmap = <<>> /\ md = <<>>
  /\ stage = "" /\ img = <<>> /\ ph = 0 /\ b = <<>>

MCInit ==
  /\ part \in Parts
  /\ IF part = "apxh" THEN Init ELSE NoLoader
  /\ X!Init
  /\ P!Init /\ (part = "acpi" \/ mach = CHOOSE t \in Tables : TRUE)
  /\ R!Init /\ (part = "hart" \/ plic = R!plt_init(CHOOSE t \in Trees : TRUE))
  /\ C!Init /\ (part = "cons" \/ desc = Screen)

ConsNext ==
  \E c \in Printers :
    \/ InCons(C!Selftest(c)) \/ InCons(C!spinlock(c)) \/ InCons(C!NextLine(c))
    \/ InCons(C!NextColumn(c)) \/ InCons(C!spinunlock(c)) \/ InCons(C!Drawn(c))
    \/ InCons(C!hal_panic(c)) \/ InCons(C!PanicPutc(c)) \/ InCons(C!hal_entry_nmi(c))
    \/ \E nl \in BOOLEAN : InCons(C!framebuffer_putc(c, nl))

Rest == UNCHANGED <<stage, img, ph, b>>
ApxhNext ==
  \/ InApxh(stage = "firmware" /\ parse_multiboot_mmap /\ Rest)
  \/ InApxh(stage = "firmware" /\ ramregion_foreach /\ Rest)
  \/ InApxh(stage = "firmware" /\ add_dtb /\ Rest)
  \/ InApxh(stage = "firmware" /\ apxhefi_add_memregion /\ Rest)
  \/ InApxh(init) \/ InApxh(load_elf32) \/ InApxh(load_elf64)
  \/ InApxh(main) \/ InApxh(riscv_init) \/ InApxh(x86_init)

BootNext ==
  \/ InBoot(X!plt_init) \/ InBoot(X!hal_pcpu_init) \/ InBoot(X!hw_delay)
  \/ InBoot(X!WaitForAps)
  \/ \E c \in CPU :
       \/ InBoot(X!cpu_add(c)) \/ InBoot(X!cpu_enter(c)) \/ InBoot(X!cpu_enter_check(c))
       \/ InBoot(X!plt_pcpu_start(c)) \/ InBoot(X!apsetup(c)) \/ InBoot(X!TakeStack(c))
       \/ InBoot(X!amd64_init_ap(c)) \/ InBoot(X!nux_panic(c))
       \/ InBoot(X!cpu_nmi_allbutself(c)) \/ InBoot(X!cpu_nmi_mask(c))
       \/ InBoot(X!hal_entry_nmi(c)) \/ InBoot(X!exit(c))
       \/ \E d \in CPU : InBoot(X!cpu_nmi(c, d))

AcpiNext ==
  \/ InAcpi(P!acpi_init) \/ InAcpi(P!acpi_madt_scan) \/ InAcpi(P!gsi_start)
  \/ InAcpi(P!acpi_hpet_scan)
  \/ \E g \in GSI : InAcpi(P!plt_irq_enable(g)) \/ InAcpi(P!plt_irq_disable(g))
  \/ \E a \in Alarms : InAcpi(P!hpet_pause(a))
  \/ InAcpi(P!SetComparator) \/ InAcpi(P!EnableTimer) \/ InAcpi(P!hpet_resume)
  \/ InAcpi(P!plt_tmr_clralm) \/ InAcpi(P!Tick) \/ InAcpi(P!plt_interrupt)

HartNext ==
  \/ InHart(R!Interrupt) \/ InHart(R!hal_entry) \/ InHart(R!nmiemul_entry)
  \/ InHart(R!hal_entry_timer) \/ InHart(R!ExternalInterrupt)
  \/ InHart(R!hal_entry_syscall) \/ InHart(R!hal_entry_xcpt) \/ InHart(R!hal_entry_pf)
  \/ InHart(R!hal_entry_ipi) \/ InHart(R!riscv_sstatus_cli) \/ InHart(R!sret)
  \/ InHart(R!UserAccessDone) \/ InHart(R!ReturnToUser) \/ InHart(R!ReturnToIdle)
  \/ InHart(R!cpu_enter_idle) \/ InHart(R!riscv_sie_user) \/ InHart(R!hal_cpu_idle)
  \/ InHart(R!Syscall) \/ InHart(R!PageFault) \/ InHart(R!plt_pcpu_ipi)
  \/ InHart(R!plt_tmr_setalm) \/ InHart(R!plt_tmr_clralm) \/ InHart(R!SetIrq)
  \/ InHart(R!cpu_useraccess_start) \/ InHart(R!cpu_useraccess_reset)
  \/ InHart(R!Ring) \/ InHart(R!Device)

MCNext == ApxhNext \/ BootNext \/ AcpiNext \/ HartNext \/ ConsNext

MCFairness ==
  /\ WF_allVars(InBoot(X!plt_init \/ X!hal_pcpu_init \/ X!hw_delay \/ X!WaitForAps))
  /\ \A c \in CPU : /\ WF_allVars(InBoot(X!Step(c)))
                    /\ WF_allVars(InBoot(X!hal_entry_nmi(c)))
  /\ WF_allVars(InAcpi(P!SetAlarm)) /\ SF_allVars(InAcpi(P!Tick))
  /\ WF_allVars(InAcpi(P!plt_interrupt))
  /\ WF_allVars(InHart(R!Hart)) /\ WF_allVars(InHart(R!Ring))

MCSpec == MCInit /\ [][MCNext]_allVars /\ MCFairness

----------------------------------------------------------------------------
(* The instances. *)

\* The boot CPU's context is the fourth, out of the window, or missing; a PLIC
\* without sources comes first.
Plic(ndev, reg, ext) == [ndev |-> ndev, reg |-> reg, ext |-> ext]
CpuNode(name, reg) == [cpu |-> name = "cpu", reg |-> reg]
Tree(cells, cpus, soc, plics, left) ==
  [cells |-> cells, cpus |-> cpus, soc |-> soc, plics |-> plics, left |-> left]
\* A node that is no CPU, one without reg, a hart listed twice; defaults for
\* the cells; a PLIC without sources and one whose length has 64 bits.
MCTrees ==
  LET ext == <<<<<<7>>, 11>>, <<<<8>>, 9>>, <<<<>>, 9>>, <<<<7>>, 9>>>>
      cells == [a |-> 1, s |-> 0]
      two == [a |-> 2, s |-> 2]
      none == [a |-> -1, s |-> -1]
  IN
  {Tree(cells, <<CpuNode("map", <<3>>), CpuNode("cpu", <<>>), CpuNode("cpu", <<7>>),
                 CpuNode("cpu", <<7>>), CpuNode("cpu", <<8>>), CpuNode("cpu", <<9>>)>>,
        two, <<Plic(0, <<0, 0, 0, 4>>, <<>>), Plic(-1, <<0, 0, 0, 2113536>>, ext)>>, {1}),
   Tree(cells, <<CpuNode("cpu", <<7>>)>>, none, <<Plic(2, <<0, 0, 2101248>>, ext)>>, {}),
   Tree(none, <<CpuNode("cpu", <<0, 7, 0>>)>>, two,
        <<Plic(2, <<0, 0, 1, 0>>, <<<<<<0, 7, 0>>, 11>>>>)>>, {})}

\* Two columns of one row; a mapping shorter than the screen; a screen smaller
\* than a glyph with masks that overlap; no pixels at all.
MCFbs ==
  {Screen, Fb(24, 40, 14, 4, 100, 16 .. 23, 8 .. 15, 0 .. 7),
   Fb(15, 8, 3, 1, 9, 10 .. 14, 4 .. 10, 0 .. 4), Fb(0, 8, 3, 1, 9, {}, {}, {})}

Lapic(id, up) ==
  [type |-> "lapic", size |-> "ok", id |-> id, acpiid |-> id + 1, enabled |-> up]
Ioapic(base, n) == [type |-> "ioapic", size |-> "ok", base |-> base, pins |-> n]
Override(irq, g, t, p) ==
  [type |-> "override", size |-> "ok", irq |-> irq, gsi |-> g, trigger |-> t,
   polarity |-> p]
LapicNmi(id, l) == [type |-> "nmi", size |-> "ok", acpiid |-> id, lint |-> l]
Sized(e, s) == [e EXCEPT !.size = s]
Table(sig, s, es) == [sig |-> sig, sum |-> s, entries |-> es]
Hpet(period, legacy, cap) == [period |-> period, legacy |-> legacy, irqcap |-> cap]

\* Two I/O APICs, overrides before and after them, entries to skip.
Pc ==
  <<Lapic(0, TRUE), Override(9, 9, "level", "high"), Ioapic(0, 16),
    Lapic(1, FALSE), Lapic(2, TRUE), Override(0, 2, "conforms", "high"),
    LapicNmi(255, 1), LapicNmi(3, 0), Sized(Lapic(3, TRUE), "short"),
    Ioapic(16, 4), Override(11, 17, "level", "high"),
    Override(1, 40, "edge", "high")>>

MCTables ==
  {[sum |-> "ok",
    root |-> <<Table("FACP", "ok", <<>>), Table("APIC", "bad", <<>>),
               Table("APIC", "ok", Pc), Table("HPET", "ok", <<>>)>>,
    hpet |-> h] : h \in {Hpet(1, TRUE, {}), Hpet(1, FALSE, {9, 17}),
                         Hpet(1, FALSE, {}), Hpet(0, TRUE, {})}} \cup
  {[sum |-> s,
    root |-> <<Table("APIC", m,
                 <<Ioapic(0, 18), Override(3, 3, "level", "low"),
                   Sized(Override(4, 4, "level", "low"), z),
                   Override(5, 5, "level", "low")>>)>>,
    hpet |-> Hpet(1, TRUE, {})] :
      s \in {"ok", "long"}, m \in {"ok", "long"}, z \in {"ok", "zero", "over"}} \cup
  {[sum |-> "ok", root |-> <<Table("APIC", "ok", <<Lapic(5, TRUE)>>)>>,
    hpet |-> Hpet(0, FALSE, {})]}

----------------------------------------------------------------------------
(* main.c, pae.c, rv64-sv.c: no image stops the loader.                    *)
LoaderRuns == part = "apxh" => NoAbort

(* elf.c, main.c: the kernel finds its image at its addresses.             *)
KernelInPlace == part = "apxh" => ImageInPlace

(* main.c: the S-tree says which frames are free, and no used one is.      *)
FreeFramesTrue == part = "apxh" => BootMapTrue

(* main.c: what the loader promised in bootinfo and areas is there.        *)
KernelHandOver == part = "apxh" => HandOver

(* main.c: a page the loader took is busy in its page map.                 *)
TakenIsBusy == part = "apxh" => AllocatedIsBusy

(* amd64.c, crt0.S: CPUs do not share kernel stacks.                       *)
CpusOwnStack == part = "boot" => X!OwnStack

(* ec.c, cpu.c: a panic stops the machine.                                 *)
PanicHalts == part = "boot" => X!PanicStops

(* docs/debugging.md on nux_panic: it "sends NMIs to stop other CPUs".     *)
PanicTellsAll == part = "boot" => X!PanicTellsAll

(* acpi.c, ioapic.c: every GSI reaches the kernel as itself.               *)
GsiRouted == part = "acpi" => P!IrqRouted

(* framebuffer.c: nothing is drawn outside the framebuffer.                *)
DrawsInside == part = "cons" => C!GlyphsOnScreen

(* entry.c, uctxt.c: interrupts find the frame they expect.                *)
FramesExpected == part = "hart" => R!FramesRight

(* cpu.c: user pages are open to the kernel during an access only.         *)
AccessCloses == part = "hart" => R!WindowClosed

(* riscv.c, nmiemul.c, sbi.c, hpet.c: interrupts and alarms are served.    *)
Delivered == (part = "hart" => R!Served) /\ (part = "acpi" => P!AlarmRings)
=============================================================================
