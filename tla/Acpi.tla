-------------------------------- MODULE Acpi --------------------------------
(***************************************************************************)
(* The ACPI platform (libplt_acpi): finding the MADT and HPET tables,      *)
(* local and I/O APICs and interrupt overrides (acpi.c, lapic.c,           *)
(* ioapic.c), the vectors a GSI raises (plt.c), and the HPET's alarm       *)
(* (hpet.c).                                                               *)
(*                                                                         *)
(* A machine is its tables and its hardware, [sum, root, hpet]: whether    *)
(* its root table is intact, and the tables [sig, sum, entries] in it.  As *)
(* the code assumes, I/O APICs cover all GSIs up to the highest, at least  *)
(* the ISA ones; whoever has an HPET has an I/O APIC; one CPU sets the     *)
(* timer.                                                                  *)
(***************************************************************************)
EXTENDS Integers, Sequences, SequencesExt, FiniteSets, FiniteSetsExt, Bitwise

CONSTANTS
  Tables,       \* The machines to boot.
  APIC_VECT_IRQMAX, MAXCPUS,
  GSI,          \* GSIs the kernel enables and disables.
  Alarms,       \* Times to alarms.
  MaxCtr        \* Bound on the HPET's counter.

VARIABLES
  mach, phase,
  madt,         \* pa_apic_table and pa_hpet_table, as indexes into root.
  hpet,
  lapics, lapics_no,
  ioapics,      \* [base, pins]
  red,          \* The I/O APICs' redirection entries.
  gsis,         \* [mode, irq, ioapic, pin], indexed from 0.
  hpet_irq,     \* pltacpi_hpet_irq, or -1.
  cfg,          \* The HPET timer: [level, enb, cmp, run].
  ctr, isr,     \* Its counter and interrupt status.
  tpc,          \* Progress of plt_tmr_setalm: what is left to do, and alm.
  enabled,      \* GSIs the kernel enabled.
  owed          \* An alarm was set and neither delivered nor cleared.

found  == <<mach, madt, hpet>>
apics  == <<lapics, lapics_no, ioapics, gsis>>
timer  == <<hpet_irq, cfg, ctr, isr, tpc, owed>>
vars   == <<found, phase, apics, red, timer, enabled>>

APIC_VECT_IRQBASE == 40
ISA == 16

Init ==
  /\ mach \in Tables /\ phase = "acpi"
  /\ madt = 0 /\ hpet = 0
  /\ lapics = <<>> /\ lapics_no = 0 /\ ioapics = <<>>
  /\ red = <<>> /\ gsis = <<>>
  /\ hpet_irq = -1 /\ ctr = 0 /\ isr = FALSE /\ owed = FALSE
  /\ cfg = [level |-> FALSE, enb |-> FALSE, cmp |-> 0, run |-> FALSE]
  /\ tpc = <<"none", 0>> /\ enabled = {}

----------------------------------------------------------------------------
(* acpi_init *)

\* load_table: absent, shorter than its header or with a wrong sum is nothing.
\* One that is too long for its sum to be taken is accepted unchecked.
load_table(t) == t.sum \in {"ok", "long"}

\* The last table of a signature counts; a long root table is refused.
Latest(sig) ==
  Max({0} \cup {i \in DOMAIN mach.root : /\ mach.sum = "ok"
                                          /\ load_table(mach.root[i])
                                          /\ mach.root[i].sig = sig})

acpi_init ==
  /\ phase = "acpi" /\ phase' = "madt"
  /\ madt' = Latest("APIC") /\ hpet' = Latest("HPET")
  /\ UNCHANGED <<mach, apics, red, timer, enabled>>

----------------------------------------------------------------------------
(* acpi_madt_scan *)

\* madt_foreach: to the first entry that is empty or runs over the end,
\* without the ones that are too short for their type.
madt_foreach(es) ==
  LET stop == {i \in DOMAIN es : es[i].size \in {"zero", "over"}}
      n == IF stop = {} THEN Len(es) ELSE Min(stop) - 1
  IN  SelectSeq(SubSeq(es, 1, n), LAMBDA e : e.size = "ok")

OfType(es, type) == SelectSeq(es, LAMBDA e : e.type = type)
EnabledLapics(es) == SelectSeq(OfType(es, "lapic"), LAMBDA e : e.enabled)

Masked == [vect |-> 0, level |-> FALSE, low |-> FALSE, mask |-> TRUE]
LINT_MASKED == 65536
LINT_NMI == 1024

\* With no local APIC at all there still is one, all zeros.
NoLapic == [physid |-> 0, platformid |-> 0, lint |-> <<0, 0>>]
lapic_add(e) == [physid |-> e.id, platformid |-> e.acpiid,
                 lint |-> <<LINT_MASKED, LINT_MASKED>>]

\* All processors get it masked, one processor the first entry that is its.
lapic_add_nmi(ls, e) ==
  LET own == {i \in DOMAIN ls : ls[i].platformid = e.acpiid}
  IN  IF e.acpiid = 255
      THEN [i \in DOMAIN ls |-> [ls[i] EXCEPT !.lint[e.lint + 1] = LINT_MASKED + LINT_NMI]]
      ELSE IF own = {} THEN ls
      ELSE [ls EXCEPT ![Min(own)].lint[e.lint + 1] = LINT_NMI]

lapic_init(no) == Min({MAXCPUS, no})

ioapic_irqs(ios) ==
  Min({APIC_VECT_IRQMAX, Max({0} \cup {ios[i].base + ios[i].pins : i \in DOMAIN ios})})

gsi_init(irqs) ==
  [g \in 0 .. irqs - 1 |-> [mode |-> IF g < ISA THEN "EDGE" ELSE "LVLLO",
                            irq |-> g, ioapic |-> 1, pin |-> 0]]

ModeOf(e) ==
  IF e.trigger # "level" THEN "EDGE"
  ELSE IF e.polarity = "high" THEN "LVLHI" ELSE "LVLLO"

\* A mutant: the ISA interrupt's own number is taken for the GSI's.
SetupByIrq(g, e) ==
  IF e.irq \notin DOMAIN g THEN g
  ELSE [g EXCEPT ![e.irq].irq = e.irq, ![e.irq].mode = ModeOf(e)]

gsi_setup(g, e) ==
  IF e.gsi \notin DOMAIN g THEN g
  ELSE [g EXCEPT ![e.gsi].irq = e.irq, ![e.gsi].mode = ModeOf(e)]

NoApics == UNCHANGED <<apics, red>>

Scanned(es) ==
  LET ls == EnabledLapics(es)
      io == OfType(es, "ioapic")
      added == IF ls = <<>> THEN <<NoLapic>>
               ELSE [i \in 1 .. Min({Len(ls), MAXCPUS}) |-> lapic_add(ls[i])]
  IN  /\ lapics_no' = lapic_init(Max({1, Len(ls)}))
      /\ ioapics' = [i \in DOMAIN io |-> [base |-> io[i].base, pins |-> io[i].pins]]
      /\ red' = [i \in DOMAIN io |-> [p \in 0 .. io[i].pins - 1 |-> Masked]]
      /\ lapics' = IF io = <<>> THEN added
                   ELSE FoldLeft(lapic_add_nmi, added, OfType(es, "nmi"))
      /\ gsis' = IF io = <<>> THEN gsis
                 ELSE FoldLeft(gsi_setup, gsi_init(ioapic_irqs(ioapics')),
                               OfType(es, "override"))

acpi_madt_scan ==
  /\ phase = "madt" /\ phase' = "gsi"
  /\ IF madt = 0 THEN NoApics
     ELSE IF mach.root[madt].sum = "long" THEN NoApics
     ELSE Scanned(madt_foreach(mach.root[madt].entries))
  /\ UNCHANGED <<found, timer, enabled>>

----------------------------------------------------------------------------
(* gsi_start *)

\* Whether input g is one of I/O APIC i's.
Covers(i, g) == g >= ioapics[i].base /\ g < ioapics[i].base + ioapics[i].pins

\* irqresolve: the first I/O APIC that has it.
irqresolve(g) ==
  LET has == {i \in DOMAIN ioapics : Covers(i, g)}
  IN  IF has = {} THEN gsis[g]
      ELSE [gsis[g] EXCEPT !.ioapic = Min(has), !.pin = g - ioapics[Min(has)].base]

gsi_set_irqtype(r, d) ==
  [r EXCEPT ![d.ioapic][d.pin].level = d.mode # "EDGE",
            ![d.ioapic][d.pin].low = d.mode = "LVLLO"]

gsi_register(r, d, vect) == [r EXCEPT ![d.ioapic][d.pin].vect = @ | vect]

gsi_start ==
  /\ phase = "gsi" /\ phase' = "hpet"
  /\ gsis' = [g \in DOMAIN gsis |-> irqresolve(g)]
  /\ red' = FoldLeft(LAMBDA r, g : gsi_register(r, gsis'[g], APIC_VECT_IRQBASE + g),
              FoldLeft(LAMBDA r, g : IF \E i \in DOMAIN ioapics : Covers(i, g)
                                     THEN gsi_set_irqtype(r, gsis'[g]) ELSE r,
                       red, [n \in 1 .. Cardinality(DOMAIN gsis) |-> n - 1]),
              [n \in 1 .. Cardinality(DOMAIN gsis) |-> n - 1])
  /\ UNCHANGED <<found, lapics, lapics_no, ioapics, timer, enabled>>

\* plt_irq_enable and plt_irq_disable.
SetMask(g, m) == [red EXCEPT ![gsis[g].ioapic][gsis[g].pin].mask = m]

plt_irq_islevel(g) == g \in DOMAIN gsis /\ gsis[g].mode \in {"LVLHI", "LVLLO"}

----------------------------------------------------------------------------
(* acpi_hpet_scan *)

HpetFails == mach.hpet.period = 0 \/ (~mach.hpet.legacy /\ mach.hpet.irqcap = {})
HpetIrq == IF mach.hpet.legacy THEN 2 ELSE Min(mach.hpet.irqcap)

hpet_init ==
  IF HpetFails THEN UNCHANGED <<hpet_irq, cfg, red>>
  ELSE /\ hpet_irq' = HpetIrq
       /\ cfg' = [cfg EXCEPT !.level = plt_irq_islevel(HpetIrq), !.run = TRUE]
       /\ red' = SetMask(HpetIrq, FALSE)

acpi_hpet_scan ==
  /\ phase = "hpet" /\ phase' = "run"
  /\ IF hpet = 0 THEN UNCHANGED <<hpet_irq, cfg, red>> ELSE hpet_init
  /\ UNCHANGED <<found, apics, ctr, isr, tpc, owed, enabled>>

----------------------------------------------------------------------------
(* The kernel at work. *)

plt_irq_enable(g) ==
  /\ phase = "run" /\ g \in DOMAIN gsis \ {hpet_irq}
  /\ red' = SetMask(g, FALSE) /\ enabled' = enabled \cup {g}
  /\ UNCHANGED <<found, phase, apics, timer>>

plt_irq_disable(g) ==
  /\ phase = "run" /\ g \in DOMAIN gsis \ {hpet_irq}
  /\ red' = SetMask(g, TRUE) /\ enabled' = enabled \ {g}
  /\ UNCHANGED <<found, phase, apics, timer>>

HasTimer == phase = "run" /\ hpet_irq # -1
Timing == UNCHANGED <<found, phase, apics, red, enabled, hpet_irq>>

AtLeastOne(alm) == IF alm = 0 THEN 1 ELSE alm

\* plt_tmr_setalm: stop the counter, set comparator and enable, go on.
hpet_pause(alm) ==
  /\ HasTimer /\ tpc[1] = "none" /\ ctr + alm + 1 <= MaxCtr
  /\ cfg' = [cfg EXCEPT !.run = FALSE]
  /\ tpc' = <<"cmp", AtLeastOne(alm)>> /\ owed' = TRUE
  /\ UNCHANGED <<ctr, isr>> /\ Timing

SetComparator ==
  /\ tpc[1] = "cmp" /\ tpc' = <<"enb", 0>>
  /\ cfg' = [cfg EXCEPT !.cmp = ctr + tpc[2]]
  /\ UNCHANGED <<ctr, isr, owed>> /\ Timing

EnableTimer ==
  /\ tpc[1] = "enb" /\ tpc' = <<"resume", 0>>
  /\ cfg' = [cfg EXCEPT !.enb = TRUE]
  /\ UNCHANGED <<ctr, isr, owed>> /\ Timing

hpet_resume ==
  /\ tpc[1] = "resume" /\ tpc' = <<"none", 0>>
  /\ cfg' = [cfg EXCEPT !.run = TRUE]
  /\ UNCHANGED <<ctr, isr, owed>> /\ Timing

plt_tmr_clralm ==
  /\ HasTimer /\ tpc[1] = "none"
  /\ cfg' = [cfg EXCEPT !.enb = FALSE] /\ owed' = FALSE
  /\ UNCHANGED <<ctr, isr, tpc>> /\ Timing

\* The counter runs; the timer fires when it meets the comparator.
Tick ==
  /\ HasTimer /\ cfg.run /\ ctr < MaxCtr
  /\ ctr' = ctr + 1
  /\ isr' = (isr \/ (cfg.enb /\ ctr' = cfg.cmp))
  /\ UNCHANGED <<cfg, tpc, owed>> /\ Timing

\* What the kernel is told of a vector.
Entry(vect) ==
  LET irq == vect - APIC_VECT_IRQBASE
  IN  IF irq = hpet_irq THEN <<"timer", 0, FALSE>>
      ELSE <<"irq", irq, plt_irq_islevel(irq)>>

PinOf(g) == red[gsis[g].ioapic][gsis[g].pin]

\* The timer's interrupt: hpet_doirq, hal_entry_timer.  An edge leaves no
\* status behind.
plt_interrupt ==
  /\ HasTimer /\ tpc[1] = "none" /\ isr
  /\ ~PinOf(hpet_irq).mask /\ Entry(PinOf(hpet_irq).vect)[1] = "timer"
  /\ isr' = FALSE /\ owed' = FALSE
  /\ UNCHANGED <<cfg, ctr, tpc>> /\ Timing

SetAlarm == SetComparator \/ EnableTimer \/ hpet_resume

Next ==
  \/ acpi_init \/ acpi_madt_scan \/ gsi_start \/ acpi_hpet_scan
  \/ \E g \in GSI : plt_irq_enable(g) \/ plt_irq_disable(g)
  \/ \E a \in Alarms : hpet_pause(a)
  \/ SetAlarm \/ plt_tmr_clralm \/ Tick \/ plt_interrupt

\* plt_tmr_setalm goes on, a counter that is started again and again counts,
\* and the CPU takes interrupts.
Fairness == WF_vars(SetAlarm) /\ SF_vars(Tick) /\ WF_vars(plt_interrupt)

----------------------------------------------------------------------------

\* The MADT's word on a GSI: its last override, or ISA's and PCI's rules.
TrueMode(g) ==
  LET es == OfType(madt_foreach(mach.root[madt].entries), "override")
      over == {i \in DOMAIN es : es[i].gsi = g}
  IN  IF over # {} THEN ModeOf(es[Max(over)])
      ELSE IF g < ISA THEN "EDGE" ELSE "LVLLO"

\* "1:1 map GSI <-> Kernel IRQ": when gsi_start is over, the I/O APIC input of
\* every GSI has the trigger the MADT gives it, reaches the kernel under the
\* GSI's own number (or as the timer), and is unmasked only when the kernel
\* asked for it.
IrqRouted ==
  phase \in {"hpet", "run"} =>
    \A i \in DOMAIN ioapics : \A p \in DOMAIN red[i] :
      LET g == ioapics[i].base + p IN
      g \in DOMAIN gsis =>
        /\ red[i][p].level = (TrueMode(g) # "EDGE")
        /\ red[i][p].low = (TrueMode(g) = "LVLLO")
        /\ Entry(red[i][p].vect) = IF g = hpet_irq THEN <<"timer", 0, FALSE>>
                                   ELSE <<"irq", g, TrueMode(g) # "EDGE">>
        /\ red[i][p].mask = (g \notin enabled \cup {hpet_irq})

\* hpet.c: an alarm that was set rings, unless it is cleared, also one that is
\* set for now.
AlarmRings == owed ~> ~owed
=============================================================================
