------------------------------- MODULE Riscv --------------------------------
(***************************************************************************)
(* One RISC-V hart between user space, idle loop and kernel: trap entry    *)
(* and exit (libhal_riscv/riscv.c, entry.S), the emulation of NMIs and     *)
(* IPIs by the one software interrupt (libnux/nmiemul.c), the entry points *)
(* of libnux/entry.c and uctxt.c, the user-access window of libnux/cpu.c,  *)
(* and the SBI platform's timer and PLIC (libplt_sbi/sbi.c).               *)
(*                                                                         *)
(* What runs is cur = [pc, sie, cause, irq]; traps suspend it on stack.    *)
(* sie is "user" (SIE_USER: all interrupts) or "kernel" (SIE_KERNEL: the   *)
(* software interrupt alone); on is SSTATUS.SIE.  The kernel's handlers    *)
(* (entry_sysc and its like) are not part of NUX: they are any sequence of *)
(* calls to it that ends in a return to user space or to idle.  They do    *)
(* not disable the interrupt they are handling, and a page-fault handler   *)
(* starts no user access of its own.                                       *)
(***************************************************************************)
EXTENDS Integers, Sequences, SequencesExt, FiniteSets, FiniteSetsExt

CONSTANTS
  Trees,        \* Device trees [cells, cpus, soc, plics, left].  cells and soc:
                \* #address-cells and #size-cells [a, s] of /cpus and of the
                \* PLICs' parent, -1 for none.  cpus: its nodes [cpu, reg].
                \* plics: [ndev, reg, ext], ndev -1 for none, ext the pairs
                \* <<reg of the CPU, cause>> of interrupts-extended.  A reg is
                \* a sequence of 32-bit cells, <<>> for none.  left: sources
                \* that firmware left enabled.
  MAXCPUS,      \* HAL_MAXCPUS
  Irq,          \* Interrupt sources with a device behind them.
  MaxOps        \* Bound on what handlers, devices and user code do.

VARIABLES
  cur,          \* What the hart executes.
  stack,        \* What it was executing when it trapped, innermost last.
  on,           \* SSTATUS.SIE.
  ssip,         \* SIP.SSIP, the software interrupt is pending.
  pending,      \* nmiemul's flags for this CPU, of {"nmi", "ipi"}.
  idle,         \* cpu_info.idle.
  alarm,        \* The SBI timer: "none", "set" or "due".
  line,         \* Sources whose device asks for attention.
  plic,         \* [count, length, ctx, enabled, prio, claimed].
  sum,          \* SSTATUS.SUM: the kernel may touch user pages.
  usrpgfault,   \* cpu_info.usrpgfault: user faults go to the access.
  dead,         \* "" or why the kernel stopped.
  owed,         \* An alarm was set and neither cleared nor delivered.
  asked,        \* Valid sources the kernel enabled.
  ops           \* What handlers, devices and user code have done so far.

trap  == <<cur, stack, on, idle>>
swi   == <<ssip, pending>>
timer == <<alarm, owed>>
ext   == <<line, plic, asked>>
uacc  == <<sum, usrpgfault>>
vars  == <<trap, swi, timer, ext, uacc, dead, ops>>

Run(pc, sie) == [pc |-> pc, sie |-> sie, cause |-> "none", irq |-> 0]

----------------------------------------------------------------------------
(* The device tree.  A 64-bit number is the pair of its halves. *)

_get_cells(c) == [a |-> IF c.a = -1 THEN 2 ELSE c.a, s |-> IF c.s = -1 THEN 1 ELSE c.s]

Number(cells) == FoldLeft(LAMBDA n, c : <<n[2], c>>, <<0, 0>>, cells)

_get_reg(cells, reg) ==
  LET c == _get_cells(cells)
  IN  IF Len(reg) < c.a + c.s THEN <<>>
      ELSE <<Number(SubSeq(reg, 1, c.a)), Number(SubSeq(reg, c.a + 1, c.a + c.s))>>

pltcpu_find_hart(cpus, hartid) ==
  Min({i \in 1 .. Len(cpus) + 1 : i > Len(cpus) \/ cpus[i] = hartid}) - 1

pltcpu_add(cpus, hartid) ==
  IF pltcpu_find_hart(cpus, hartid) < Len(cpus) \/ Len(cpus) >= MAXCPUS THEN cpus
  ELSE Append(cpus, hartid)

\* The harts of the cpu@ nodes that have a reg; the first one is CPU 0.
ScanCpus(dt) ==
  FoldLeft(LAMBDA cpus, n : LET r == _get_reg(dt.cells, n.reg)
                            IN  IF n.cpu /\ r # <<>> THEN pltcpu_add(cpus, r[1]) ELSE cpus,
           <<>>, dt.cpus)

----------------------------------------------------------------------------
(* The PLIC's device-tree node and its registers. *)

PLIC_ENABLE_BASE == 8192
PLIC_ENABLE_STRIDE == 128
PLIC_CONTEXT_BASE == 2097152
PLIC_CONTEXT_STRIDE == 4096
PLIC_MAX_SOURCES == 1023
PLIC_FALLBACK_SOURCES == 31
PLIC_MAX_MAP_LENGTH == 16777216

plic_source_count(ndev, length) ==
  IF ndev = 0 \/ length < 4 THEN 0
  ELSE Min({IF ndev = -1 THEN PLIC_FALLBACK_SOURCES ELSE ndev,
            PLIC_MAX_SOURCES, (length - 4) \div 4})

plic_mmio_valid(p, off) == p.count > 0 /\ off <= p.length /\ 4 <= p.length - off

plic_priority_offset(irq) == irq * 4
plic_enable_offset(ctx, irq) ==
  PLIC_ENABLE_BASE + ctx * PLIC_ENABLE_STRIDE + (irq \div 32) * 4
plic_threshold_offset(ctx) == PLIC_CONTEXT_BASE + ctx * PLIC_CONTEXT_STRIDE
plic_claim_offset(ctx) == PLIC_CONTEXT_BASE + ctx * PLIC_CONTEXT_STRIDE + 4

plic_valid_irq(p, irq) == p.count > 0 /\ irq > 0 /\ irq <= p.count

plic_context_valid(p, ctx) ==
  /\ p.count > 0
  /\ plic_mmio_valid(p, plic_threshold_offset(ctx))
  /\ plic_mmio_valid(p, plic_claim_offset(ctx))
  /\ plic_mmio_valid(p, plic_enable_offset(ctx, p.count))

plic_current_context(p) == p.ctx >= 0 /\ plic_context_valid(p, p.ctx)

PlicWindow(length) ==
  IF length[1] > 0 THEN PLIC_MAX_MAP_LENGTH ELSE Min({length[2], PLIC_MAX_MAP_LENGTH})

NoPlic == [count |-> 0, length |-> 0, ctx |-> -1,
           enabled |-> {}, prio |-> {}, claimed |-> {}]

\* The context of CPU 0, the only one that runs, is the one that matters.
plic_assign_context(p, cpus, hartid, ctx) ==
  IF cpus # <<>> /\ pltcpu_find_hart(cpus, hartid) = 0 /\ plic_context_valid(p, ctx)
  THEN [p EXCEPT !.ctx = ctx] ELSE p

\* interrupts-extended: an entry with cause 9 names the hart of its context.
Contexts(p, dt, entries) ==
  FoldLeft(LAMBDA q, i :
             LET r == _get_reg(dt.cells, entries[i][1])
             IN  IF entries[i][2] # 9 \/ r = <<>> THEN q
                 ELSE plic_assign_context(q, ScanCpus(dt), r[1], i - 1),
           p, [i \in 1 .. Len(entries) |-> i])

\* A PLIC that is in use stays; a node without registers or sources is passed.
plic_init(p, dt, n) ==
  LET r == _get_reg(dt.soc, n.reg)
      length == IF r = <<>> THEN 0 ELSE PlicWindow(r[2])
      count == plic_source_count(n.ndev, length)
  IN  IF p.count > 0 \/ length = 0 \/ count = 0 THEN p
      ELSE Contexts([NoPlic EXCEPT !.count = count, !.length = length,
                                   !.enabled = dt.left, !.prio = dt.left],
                    dt, n.ext)

\* All words of the enable bits, which the context's validity implies.
plic_context_init(p) == [p EXCEPT !.enabled = {}]

plt_pcpu_enter(p) == IF plic_current_context(p) THEN plic_context_init(p) ELSE p

plt_init(dt) ==
  plt_pcpu_enter(FoldLeft(LAMBDA p, n : plic_init(p, dt, n), NoPlic, dt.plics))

\* A 32-bit register is there or the write goes nowhere.
plt_irq_enable(irq) ==
  /\ plic' = IF ~plic_valid_irq(plic, irq) \/ ~plic_current_context(plic) THEN plic
             ELSE [plic EXCEPT
                    !.prio = IF plic_mmio_valid(plic, plic_priority_offset(irq))
                             THEN @ \cup {irq} ELSE @,
                    !.enabled = IF plic_mmio_valid(plic,
                                     plic_enable_offset(plic.ctx, irq))
                                THEN @ \cup {irq} ELSE @]
  /\ asked' = IF plic_valid_irq(plic, irq) /\ plic_current_context(plic)
              THEN asked \cup {irq} ELSE asked

plt_irq_disable(irq) ==
  /\ plic' = IF ~plic_valid_irq(plic, irq) \/ ~plic_current_context(plic) THEN plic
             ELSE [plic EXCEPT !.enabled = @ \ {irq}]
  /\ asked' = asked \ {irq}

\* What the PLIC presents to the hart.
Presented == (line \cap plic.enabled \cap plic.prio) \ plic.claimed

\* The sources that a read of the claim register may return.
plic_claim_current == IF plic_current_context(plic) THEN Presented ELSE {}

plic_complete_context(p, irq) == [p EXCEPT !.claimed = @ \ {irq}]

----------------------------------------------------------------------------

Init ==
  /\ cur = Run("user", "user")
  /\ stack = <<>> /\ on = TRUE /\ idle = FALSE
  /\ ssip = FALSE /\ pending = {}
  /\ alarm = "none" /\ owed = FALSE
  /\ line = {} /\ asked = {}
  /\ plic \in {plt_init(dt) : dt \in Trees}
  /\ sum = FALSE /\ usrpgfault = FALSE
  /\ dead = "" /\ ops = 0

\* A trap saves what runs and turns interrupts off.
Take(cause) ==
  /\ stack' = Append(stack, cur)
  /\ cur' = [Run("entry", cur.sie) EXCEPT !.cause = cause]
  /\ on' = FALSE
  /\ UNCHANGED <<idle, swi, timer, ext, uacc, dead>>

InUser == cur.pc = "user"
Spend == ops < MaxOps /\ ops' = ops + 1

\* The hart's priority is external, software, timer.
Interrupt ==
  LET seip == Presented # {} /\ cur.sie = "user"
      stip == alarm = "due" /\ cur.sie = "user"
  IN  /\ dead = "" /\ (on \/ InUser)
      /\ \/ seip /\ Take("SEI")
         \/ ~seip /\ ssip /\ Take("SSI")
         \/ ~seip /\ ~ssip /\ stip /\ Take("STI")
      /\ UNCHANGED ops

\* System calls and exceptions of user code.
Syscall == dead = "" /\ InUser /\ (\E e \in {"SYSC", "XCPT"} : Take(e)) /\ Spend

\* Page faults: of user code, and of a kernel copy to or from user pages.
PageFault == dead = "" /\ cur.pc \in {"user", "access"} /\ Take("PF") /\ Spend

----------------------------------------------------------------------------
(* _hal_entry *)

f == Last(stack)
FromUser == f.pc = "user"

Go(pc) == cur' = [cur EXCEPT !.pc = pc]
Keep == UNCHANGED <<stack, on, idle>>

hal_entry ==
  /\ dead = "" /\ cur.pc = "entry"
  /\ ssip' = IF cur.cause = "SSI" THEN FALSE ELSE ssip
  /\ cur' = [cur EXCEPT !.pc = "dispatch", !.sie = "kernel"]
  /\ on' = TRUE
  /\ UNCHANGED <<stack, idle, pending, timer, ext, uacc, dead, ops>>

(* nmiemul.c: this CPU's pending flags. *)
nmiemul_ipi_pending == "ipi" \in pending
nmiemul_ipi_clear == pending' = pending \ {"ipi"}
nmiemul_nmi_clear == pending' = pending \ {"nmi"}
nmiemul_set(k) == pending' = pending \cup {k}

cpu_wasidle == idle
cpu_clridle == idle' = FALSE

\* A user frame, an idle one, whose flag is cleared, or neither.
uctxt_get ==
  IF FromUser THEN IF cpu_wasidle THEN "assert" ELSE "user"
  ELSE IF cpu_wasidle THEN "idle" ELSE "invalid"

uctxt_getuser ==
  /\ IF uctxt_get = "idle" THEN cpu_clridle ELSE UNCHANGED idle
  /\ dead' = CASE uctxt_get = "assert" -> "assert"
               [] uctxt_get = "invalid" -> "fatal"
               [] uctxt_get \in {"user", "idle"} -> ""

\* A handler for which only a user frame will do; any other is a panic.
UserOnly ==
  dead' = CASE uctxt_get = "assert" -> "assert"
            [] uctxt_get = "user" -> ""
            [] uctxt_get \in {"idle", "invalid"} -> "panic"

\* Exceptions go to their entry, interrupts 1, 5 and 9 to the platform.
Dispatch(cause) == dead = "" /\ cur.pc = "dispatch" /\ cur.cause = cause
plt_interrupt(cause) == Dispatch(cause)

\* The emulated NMI is hal_entry_nmi.
nmiemul_entry ==
  /\ plt_interrupt("SSI")
  /\ nmiemul_nmi_clear
  /\ Go("return") /\ Keep
  /\ UNCHANGED <<ssip, timer, ext, uacc, dead, ops>>

\* The alarm is cleared first, then handled.
hal_entry_timer ==
  /\ plt_interrupt("STI")
  /\ alarm' = "none" /\ owed' = FALSE
  /\ uctxt_getuser /\ Go("handler") /\ UNCHANGED <<stack, on>>
  /\ UNCHANGED <<swi, ext, uacc, ops>>

hal_entry_irq(i) ==
  /\ cur' = [cur EXCEPT !.pc = "handler", !.irq = i]
  /\ uctxt_getuser /\ UNCHANGED <<stack, on>>

\* Without a source to claim the interrupt is over.
ExternalInterrupt ==
  /\ plt_interrupt("SEI")
  /\ \/ /\ plic_claim_current = {}
        /\ Go("return") /\ Keep /\ UNCHANGED <<plic, dead>>
     \/ \E i \in plic_claim_current :
          /\ plic' = [plic EXCEPT !.claimed = @ \cup {i}]
          /\ hal_entry_irq(i)
  /\ UNCHANGED <<swi, timer, line, asked, uacc, ops>>

hal_entry_syscall ==
  /\ Dispatch("SYSC")
  /\ UserOnly /\ Go("handler") /\ Keep
  /\ UNCHANGED <<swi, timer, ext, uacc, ops>>

hal_entry_xcpt ==
  /\ Dispatch("XCPT")
  /\ UserOnly /\ Go("handler") /\ Keep
  /\ UNCHANGED <<swi, timer, ext, uacc, ops>>

\* Jump to the access that faulted, leaving the trap behind; without one the
\* caller panics.
cpu_useraccess_checkpf ==
  IF usrpgfault
  THEN /\ cur' = [f EXCEPT !.pc = "faulted", !.sie = cur.sie]
       /\ stack' = Front(stack) /\ UNCHANGED dead
  ELSE dead' = "panic" /\ UNCHANGED <<cur, stack>>

hal_entry_pf ==
  /\ Dispatch("PF")
  /\ IF FromUser
     THEN UserOnly /\ Go("handler") /\ UNCHANGED stack
     ELSE cpu_useraccess_checkpf
  /\ UNCHANGED <<on, idle, swi, timer, ext, uacc, ops>>

\* A mutant: IPIs are handled whatever was interrupted.
IpiInKernel(sie) == nmiemul_ipi_pending

\* "If we are returning to an user or idle frame, check if IPI is pending."
IpiNow(sie) == sie = "user" /\ nmiemul_ipi_pending

hal_entry_ipi ==
  /\ dead = "" /\ cur.pc = "return" /\ IpiNow(f.sie)
  /\ nmiemul_ipi_clear
  /\ cur' = [cur EXCEPT !.pc = "handler", !.cause = "IPI"]
  /\ uctxt_getuser /\ UNCHANGED <<stack, on>>
  /\ UNCHANGED <<ssip, timer, ext, uacc, ops>>

riscv_sstatus_cli ==
  /\ dead = "" /\ cur.pc = "return" /\ ~IpiNow(f.sie)
  /\ Go("sret") /\ on' = FALSE
  /\ UNCHANGED <<stack, idle, swi, timer, ext, uacc, dead, ops>>

\* entry.S: the frame's registers, its SIE and its interrupt state.
sret ==
  /\ dead = "" /\ cur.pc = "sret"
  /\ cur' = f /\ stack' = Front(stack) /\ on' = TRUE
  /\ UNCHANGED <<idle, swi, timer, ext, uacc, dead, ops>>

----------------------------------------------------------------------------
(* The kernel's handlers. *)

InHandler == dead = "" /\ cur.pc = "handler"

\* plt_pcpu_ipi, plt_pcpu_nmi and their broadcasts, to this hart itself.
plt_pcpu_ipi ==
  /\ InHandler /\ Spend
  /\ \E k \in {"nmi", "ipi"} : nmiemul_set(k)
  /\ ssip' = TRUE
  /\ UNCHANGED <<trap, timer, ext, uacc, dead>>

plt_tmr_setalm ==
  /\ InHandler /\ Spend
  /\ alarm' = "set" /\ owed' = TRUE
  /\ UNCHANGED <<trap, swi, ext, uacc, dead>>

plt_tmr_clralm ==
  /\ InHandler /\ Spend
  /\ alarm' = "none" /\ owed' = FALSE
  /\ UNCHANGED <<trap, swi, ext, uacc, dead>>

SetIrq ==
  /\ InHandler /\ Spend
  /\ \E i \in Irq \ {cur.irq} : plt_irq_enable(i) \/ plt_irq_disable(i)
  /\ UNCHANGED <<trap, swi, timer, line, uacc, dead>>

hal_useraccess_start == sum' = TRUE
hal_useraccess_end == sum' = FALSE

\* cpu_useraccess_copyfrom, _copyto, _memset: open the window, copy.
cpu_useraccess_start ==
  /\ InHandler /\ FromUser /\ Spend
  /\ hal_useraccess_start /\ usrpgfault' = TRUE
  /\ Go("access") /\ Keep
  /\ UNCHANGED <<swi, timer, ext, dead>>

\* A mutant: a fault that is not resolved returns without closing.
LeftOpen == UNCHANGED uacc
cpu_useraccess_end == hal_useraccess_end /\ usrpgfault' = FALSE

UserAccessDone ==
  /\ dead = "" /\ cur.pc \in {"access", "faulted"}
  /\ cpu_useraccess_end
  /\ Go("handler") /\ Keep
  /\ UNCHANGED <<swi, timer, ext, dead, ops>>

\* The page-fault handler resolved it: try again.
cpu_useraccess_reset ==
  /\ dead = "" /\ cur.pc = "faulted"
  /\ Go("access") /\ Keep
  /\ UNCHANGED <<swi, timer, ext, uacc, dead, ops>>

\* The handler of a device's interrupt has seen to the device; plt_eoi_irq.
Eoi ==
  /\ line' = IF cur.irq # 0 THEN line \ {cur.irq} ELSE line
  /\ plic' = IF plic_valid_irq(plic, cur.irq) THEN plic_complete_context(plic, cur.irq)
             ELSE plic
  /\ UNCHANGED asked

\* uctxt_frame: to the user context that was interrupted or another one.
ReturnToUser ==
  /\ InHandler /\ Eoi
  /\ stack' = <<Run("user", "user")>>
  /\ cur' = [cur EXCEPT !.pc = "return", !.irq = 0]
  /\ UNCHANGED <<on, idle, swi, timer, uacc, dead, ops>>

\* uctxt_frame (UCTXT_IDLE): cpu_idle jumps into cpu_enter.
ReturnToIdle ==
  /\ InHandler /\ Eoi
  /\ stack' = <<>>
  /\ cur' = Run("idlejmp", "kernel")
  /\ UNCHANGED <<on, idle, swi, timer, uacc, dead, ops>>

cpu_enter_idle ==
  /\ dead = "" /\ cur.pc = "idlejmp"
  /\ idle' = TRUE /\ Go("sie_user")
  /\ UNCHANGED <<stack, on, swi, timer, ext, uacc, dead, ops>>

riscv_sie_user ==
  /\ dead = "" /\ cur.pc = "sie_user"
  /\ cur' = Run("idlecheck", "user") /\ Keep
  /\ UNCHANGED <<swi, timer, ext, uacc, dead, ops>>

\* A mutant: the pending IPI is left to an interrupt that was already taken.
NoIpiCheck ==
  /\ dead = "" /\ cur.pc = "idlecheck"
  /\ Go("wfi") /\ Keep
  /\ UNCHANGED <<swi, timer, ext, uacc, dead, ops>>

\* "If IPI is pending, manually enable SI."
hal_cpu_idle ==
  /\ dead = "" /\ cur.pc = "idlecheck"
  /\ ssip' = (ssip \/ nmiemul_ipi_pending)
  /\ Go("wfi") /\ Keep
  /\ UNCHANGED <<pending, timer, ext, uacc, dead, ops>>

----------------------------------------------------------------------------
(* Time and devices. *)

Ring == alarm = "set" /\ alarm' = "due" /\
        UNCHANGED <<trap, swi, owed, ext, uacc, dead, ops>>
Device == Spend /\ (\E i \in Irq : line' = IF i \in line THEN line \ {i}
                                          ELSE line \cup {i}) /\
          UNCHANGED <<trap, swi, timer, plic, asked, uacc, dead>>

Hart ==
  \/ Interrupt \/ hal_entry \/ nmiemul_entry \/ hal_entry_timer
  \/ ExternalInterrupt \/ hal_entry_syscall \/ hal_entry_xcpt \/ hal_entry_pf
  \/ hal_entry_ipi \/ riscv_sstatus_cli \/ sret
  \/ UserAccessDone \/ ReturnToUser \/ ReturnToIdle
  \/ cpu_enter_idle \/ riscv_sie_user \/ hal_cpu_idle

Next ==
  \/ Hart \/ Syscall \/ PageFault \/ plt_pcpu_ipi \/ plt_tmr_setalm
  \/ plt_tmr_clralm \/ SetIrq \/ cpu_useraccess_start \/ cpu_useraccess_reset
  \/ Ring \/ Device

\* The hart executes, kernel handlers return, time passes.
Fairness == WF_vars(Hart) /\ WF_vars(Ring)

----------------------------------------------------------------------------

\* Only user and idle frames are interrupted by devices, timer and IPIs:
\* uctxt_getuser's fatal "Expected User Frame." and uctxt_get's assertion are
\* never reached, and no page fault of an access is a panic.
FramesRight == dead = ""

\* Outside an access the kernel cannot touch user pages, and a fault goes to
\* no access that is over.
WindowClosed ==
  sum \/ usrpgfault =>
    \E c \in {cur} \cup Range(stack) : c.pc \in {"access", "faulted"}

\* Nothing is lost between kernel, idle loop and user space: NMIs, IPIs and
\* alarms that were set are delivered, and an enabled source whose device asks
\* for attention gets it, wherever in _hal_entry or hal_cpu_idle they arrive.
Served ==
  /\ "nmi" \in pending ~> "nmi" \notin pending
  /\ "ipi" \in pending ~> "ipi" \notin pending
  /\ owed ~> ~owed
  /\ \A i \in Irq : i \in line \cap asked ~> i \notin line \cap asked
=============================================================================
