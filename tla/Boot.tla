-------------------------------- MODULE Boot --------------------------------
(***************************************************************************)
(* Starting the CPUs of an x86 machine and stopping them in a panic:       *)
(* _nux_sysinit and hal_main_ap (libnux/init.c), cpu_init, cpu_enter and   *)
(* cpu_startall (cpu.c), hal_pcpu_add and amd64_init_ap (amd64.c, crt0.S), *)
(* nux_panic (ec.c) and hal_entry_nmi (entry.c).                           *)
(*                                                                         *)
(* A CPU may panic at every point at which it runs NUX.  Timing assumed of *)
(* the platform: when plt_pcpu_start returns from its delays the CPU it    *)
(* started has announced itself in _nux_apbooting.                         *)
(***************************************************************************)
EXTENDS Integers, FiniteSets

CONSTANTS CPU, Bsp     \* Physical CPUs; the one that boots.

VARIABLES
  pc,           \* Where each CPU is.
  stflags,      \* _nux_stflags.
  apbooting,    \* _nux_apbooting.
  active,       \* cpus_active.
  info,         \* CPUs with a cpu_info.
  kstackno,     \* Kernel stacks allocated for APs, and taken by them.
  kstackcnt,
  kstack,       \* The stack of each CPU: 0 none, -1 the BSP's own, or the
                \* index of one of the others.
  ready,        \* CPUs whose TSS is set up.
  started,      \* CPUs that were sent INIT-SIPI-SIPI.
  nmi,          \* CPUs with an NMI pending.
  todo,         \* CPUs a panicking CPU has yet to send an NMI.
  told,         \* A panicking CPU went on to stop the others,
  cut           \* and was itself halted by an NMI before it had told all.

vars == <<pc, stflags, apbooting, active, info, kstackno, kstackcnt, kstack,
          ready, started, nmi, todo, told, cut>>
setup == <<info, kstackno, kstackcnt, kstack, ready>>
panic == <<todo, told, cut>>

Init ==
  /\ pc = [c \in CPU |-> IF c = Bsp THEN "plt" ELSE "off"]
  /\ stflags = {} /\ apbooting = 0 /\ active = {}
  /\ info = {} /\ kstackno = 0 /\ kstackcnt = 0
  /\ kstack = [c \in CPU |-> 0] /\ ready = {}
  /\ started = {Bsp} /\ nmi = {}
  /\ todo = [c \in CPU |-> {}] /\ told = FALSE /\ cut = FALSE

nux_status_okcpu == "OKCPU" \in stflags /\ apbooting = 0

Go(c, to) == pc' = [pc EXCEPT ![c] = to]
At(c, at) == pc[c] = at

----------------------------------------------------------------------------
(* _nux_sysinit *)

plt_init ==
  /\ At(Bsp, "plt") /\ Go(Bsp, "add")
  /\ stflags' = stflags \cup {"OKPLT"}
  /\ UNCHANGED <<apbooting, active, setup, started, nmi, panic>>

\* The BSP's stacks and TSS are static, an AP's stack is the next one allocated.
hal_pcpu_add(c) ==
  IF c = Bsp
  THEN /\ kstack' = [kstack EXCEPT ![c] = -1] /\ ready' = ready \cup {c}
       /\ UNCHANGED kstackno
  ELSE kstackno' = kstackno + 1 /\ UNCHANGED <<kstack, ready>>

cpu_add(c) ==
  /\ At(Bsp, "add") /\ c \notin info
  /\ info' = info \cup {c} /\ hal_pcpu_add(c)
  /\ UNCHANGED <<pc, stflags, apbooting, active, kstackcnt, started, nmi, panic>>

hal_pcpu_init ==
  /\ At(Bsp, "add") /\ info = CPU /\ Go(Bsp, "enter")
  /\ UNCHANGED <<stflags, apbooting, active, setup, started, nmi, panic>>

\* cpu_enter on any CPU: visible to NMIs first.
cpu_enter(c) ==
  /\ At(c, "enter") /\ c \in info
  /\ active' = active \cup {c} /\ Go(c, "check")
  /\ UNCHANGED <<stflags, apbooting, setup, started, nmi, panic>>

\* A mutant: what happened before the CPU was active is ignored.
NoPanicCheck(c) ==
  /\ At(c, "check")
  /\ IF c = Bsp
     THEN stflags' = stflags \cup {"OKCPU"} /\ Go(c, "start") /\ UNCHANGED apbooting
     ELSE apbooting' = apbooting - 1 /\ Go(c, "main") /\ UNCHANGED stflags
  /\ UNCHANGED <<active, setup, started, nmi, panic>>

\* "Check if the system hit a panic before we could receive the NMI."
cpu_enter_check(c) ==
  /\ At(c, "check")
  /\ IF "PANIC" \in stflags THEN Go(c, "halted") /\ UNCHANGED <<stflags, apbooting>>
     ELSE IF c = Bsp
     THEN stflags' = stflags \cup {"OKCPU"} /\ Go(c, "start") /\ UNCHANGED apbooting
     ELSE apbooting' = apbooting - 1 /\ Go(c, "main") /\ UNCHANGED stflags
  /\ UNCHANGED <<active, setup, started, nmi, panic>>

\* cpu_startall: INIT-SIPI-SIPI to one AP after the other.
plt_pcpu_start(c) ==
  /\ At(Bsp, "start") /\ c \notin started
  /\ started' = started \cup {c}
  /\ pc' = [pc EXCEPT ![Bsp] = "delay", ![c] = "tramp"]
  /\ UNCHANGED <<stflags, apbooting, active, setup, nmi, panic>>

hw_delay ==
  /\ At(Bsp, "delay") /\ (\A c \in CPU : ~At(c, "tramp"))
  /\ Go(Bsp, "start")
  /\ UNCHANGED <<stflags, apbooting, active, setup, started, nmi, panic>>

\* All APs out of the boot path: hal_init_done, NUXST_RUNNING.
WaitForAps ==
  /\ At(Bsp, "start") /\ started = CPU /\ apbooting = 0
  /\ stflags' = stflags \cup {"RUNNING"} /\ Go(Bsp, "main")
  /\ UNCHANGED <<apbooting, active, setup, started, nmi, panic>>

----------------------------------------------------------------------------
(* An AP: the trampoline and crt0.S, amd64_init_ap, hal_main_ap. *)

apsetup(c) ==
  /\ At(c, "tramp") /\ Go(c, "stack")
  /\ apbooting' = apbooting + 1
  /\ UNCHANGED <<stflags, active, setup, started, nmi, panic>>

\* A mutant: the counter is read but advanced later.
StackNotCounted(c) ==
  /\ At(c, "stack") /\ Go(c, "init")
  /\ kstack' = [kstack EXCEPT ![c] = kstackcnt + 1]
  /\ kstackcnt' = IF \E d \in CPU \ {c} : At(d, "stack") THEN kstackcnt ELSE kstackcnt + 1
  /\ UNCHANGED <<stflags, apbooting, active, info, kstackno, ready, started, nmi, panic>>

TakeStack(c) ==
  /\ At(c, "stack") /\ Go(c, "init")
  /\ kstack' = [kstack EXCEPT ![c] = kstackcnt + 1]
  /\ kstackcnt' = kstackcnt + 1
  /\ UNCHANGED <<stflags, apbooting, active, info, kstackno, ready, started, nmi, panic>>

amd64_init_ap(c) ==
  /\ At(c, "init") /\ Go(c, "enter")
  /\ ready' = ready \cup {c}
  /\ UNCHANGED <<stflags, apbooting, active, info, kstackno, kstackcnt, kstack,
                 started, nmi, panic>>

----------------------------------------------------------------------------
(* Panic, NMIs, exit. *)

Running(c) == pc[c] \notin {"off", "tramp", "halted", "panic", "tell"}

\* The first CPU to panic goes on; any other just halts.
nux_panic(c) ==
  /\ Running(c)
  /\ stflags' = stflags \cup {"PANIC"}
  /\ Go(c, IF "PANIC" \in stflags THEN "halted" ELSE "panic")
  /\ UNCHANGED <<apbooting, active, setup, started, nmi, panic>>

\* "STOP all CPUs except this one": only once CPU operations are safe.
cpu_nmi_allbutself(c) ==
  /\ At(c, "panic")
  /\ IF nux_status_okcpu
     THEN /\ todo' = [todo EXCEPT ![c] = active \ {c}]
          /\ told' = TRUE /\ Go(c, "tell") /\ UNCHANGED cut
     ELSE Go(c, "halted") /\ UNCHANGED panic
  /\ UNCHANGED <<stflags, apbooting, active, setup, started, nmi>>

\* One NMI after the other, then hal_panic.
cpu_nmi_mask(c) ==
  /\ At(c, "tell")
  /\ \/ \E d \in todo[c] :
          /\ todo' = [todo EXCEPT ![c] = @ \ {d}]
          /\ nmi' = nmi \cup {d} /\ UNCHANGED pc
     \/ todo[c] = {} /\ Go(c, "halted") /\ UNCHANGED <<todo, nmi>>
  /\ UNCHANGED <<stflags, apbooting, active, setup, started, told, cut>>

\* An NMI for other reasons, a TLB shootdown, at any time.
cpu_nmi(c, d) ==
  /\ At(c, "main") /\ nux_status_okcpu /\ d \in active \ {c}
  /\ nmi' = nmi \cup {d}
  /\ UNCHANGED <<pc, stflags, apbooting, active, setup, started, panic>>

hal_entry_nmi(c) ==
  /\ c \in nmi /\ pc[c] \notin {"off", "tramp", "halted"}
  /\ nmi' = nmi \ {c}
  /\ IF "PANIC" \in stflags THEN Go(c, "halted") ELSE UNCHANGED pc
  /\ cut' = (cut \/ (At(c, "tell") /\ todo[c] # {}))
  /\ UNCHANGED <<stflags, apbooting, active, setup, started, todo, told>>

\* main or main_ap returned EXIT_HALT.
exit(c) ==
  /\ At(c, "main") /\ Go(c, "halted")
  /\ UNCHANGED <<stflags, apbooting, active, setup, started, nmi, panic>>

----------------------------------------------------------------------------

Step(c) ==
  \/ cpu_add(c) \/ cpu_enter(c) \/ cpu_enter_check(c) \/ plt_pcpu_start(c)
  \/ apsetup(c) \/ TakeStack(c) \/ amd64_init_ap(c)
  \/ cpu_nmi_allbutself(c) \/ cpu_nmi_mask(c)

Next ==
  \/ plt_init \/ hal_pcpu_init \/ hw_delay \/ WaitForAps
  \/ \E c \in CPU : Step(c) \/ nux_panic(c) \/ hal_entry_nmi(c) \/ exit(c)
  \/ \E c, d \in CPU : cpu_nmi(c, d)

\* CPUs execute and NMIs arrive.
Fairness ==
  /\ WF_vars(plt_init \/ hal_pcpu_init \/ hw_delay \/ WaitForAps)
  /\ \A c \in CPU : WF_vars(Step(c)) /\ WF_vars(hal_entry_nmi(c))

----------------------------------------------------------------------------

\* A CPU that entered NUX runs on a kernel stack of its own and has its TSS,
\* whatever order the APs come out of the trampoline in.
OwnStack ==
  \A c \in active :
    /\ c \in ready /\ kstack[c] # 0 /\ kstack[c] <= kstackno
    /\ \A d \in active : kstack[c] = kstack[d] => c = d

Stopped == \A c \in CPU : pc[c] \in {"halted", "off"}

\* Once a panicking CPU set out to stop the others (nux_panic found CPU
\* operations safe to use), every CPU that was ever started ends up halted:
\* by its NMI, or by cpu_enter's check when it became active too late; unless
\* an NMI meant for something else halted the panicking CPU first.
PanicStops == told ~> (Stopped \/ cut)

\* docs/debugging.md: nux_panic "sends NMIs to stop other CPUs".
PanicTellsAll == told ~> Stopped
=============================================================================
