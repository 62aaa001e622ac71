------------------------------- MODULE MCApxh -------------------------------
(* APXH with pages of eight words, and images, memory maps and machines      *)
(* small enough to load them all.                                            *)
EXTENDS Apxh

ASSUME BootPtConstants

D(kind, page, n) == [kind |-> kind, base |-> page * Fan, len |-> n * Fan,
                     slots |-> 1]
Wide(d) == [d EXCEPT !.slots = 2]

H(type, fl, va, msize, fsize, off) ==
  [type |-> type, fl |-> fl, va |-> va, msize |-> msize, fsize |-> fsize,
   off |-> off]
A(type, page, n) == H(type, {}, page * Fan, n * Fan, 0, 0)

\* Text and data share a page, as do the data and its zeros; the initial
\* thread-local data is part of the data.
Image(k) ==
  <<H("LOAD", {"X"}, k * Fan + 2, 9, 9, 0),
    H("LOAD", {"W"}, k * Fan + 12, 9, 3, 10),
    H("TLS",  {"W"}, k * Fan + 13, 3, 2, 11)>>

Full(k, phys, n, top, lin, span) ==
  Image(k) \o
  <<A("INFO", k + 4, 1), A("PFNMAP", k + 8, 16), A("STREE", k + 24, 4),
    A("LINEAR", lin, span), A("PHYSMAP", phys, n), A("FRAMEBUF", k + 30, 2),
    A("REGIONS", k + 5, 2), A("PTALLOC", k + 32, 10), A("TOPPTALLOC", top, 8),
    A("EMPTY", k + 50, 2)>>

\* No pages of file data at all, an INFO area too small for the structure, and
\* the S-tree before the segments.
Odd(k) ==
  <<H("LOAD", {"W", "X"}, k * Fan, 20, 0, 0), A("STREE", k + 24, 4),
    H("INFO", {}, (k + 4) * Fan, 2, 0, 0), H("LOAD", {}, k * Fan + 21, 6, 5, 3),
    H("REGIONS", {}, (k + 5) * Fan, 4, 0, 0)>>

MCKernels ==
  [a \in {"386", "amd64", "riscv64"} |->
     IF a = "386" THEN {Full(64, 136, 16, 128, 192, 32), Odd(64)}
     ELSE {Full(2048, 2560, 64, 3072, 3584, 512), Odd(2048)}]

MCUsers ==
  [a \in {"386", "amd64", "riscv64"} |->
     {<<>>, <<H("LOAD", {"X"}, 16 * Fan, 10, 10, 0),
              H("LOAD", {"W"}, 17 * Fan + 3, 7, 2, 11)>>}]

\* An Intel CPU of family 6, model 0x1e; hidden tells that NX is disabled.
Cpu(has, hidden) ==
  [intel |-> TRUE, family |-> 6, model |-> 14, xmodel |-> 1, stepping |-> 5,
   has |-> {"PAE", "LM"} \cup has, xdoff |-> hidden]
Old == [intel |-> FALSE, family |-> 5, model |-> 8, xmodel |-> 0, stepping |-> 0,
        has |-> {"PAE"}, xdoff |-> FALSE]
Machine(f, a, cpu, end) == [fw |-> f, arch |-> a, cpu |-> cpu, end |-> end]
MCMachines ==
  {Machine("mb", "386", cpu, 7 * Fan - 9) : cpu \in {Old, Cpu({"NX"}, TRUE)}} \cup
  {Machine("mb", "amd64", Cpu({"NX"} \cup gb, FALSE), 7 * Fan - 9) : gb \in {{}, {"1GB"}}} \cup
  {Machine("efi", "amd64", Cpu({"1GB"}, FALSE), 0),
   Machine("efi", "riscv64", Old, 0),
   Machine("sbi", "riscv64", Old, 18 * Fan)}

\* RAM from page 16 on, reserved pages inside it, device addresses above it,
\* EFI kinds; entries in any order, multiboot entries of two sizes.
MCMaps ==
  {<<D("ram", 16, 64)>>,
   <<D("rsv", 70, 4), Wide(D("ram", 0, 72)), D("rsv", 80, 2)>>,
   <<Wide(D("ram", 0, 3)), Wide(D("ram", 8, 64)), D("rsv", 4, 2), D("rt", 72, 2)>>,
   <<D("skip", 90, 1), D("ram", 8, 68), D("rsv", 69, 2)>>}

\* A map whose lowest RAM is not at a multiple of eight pages.
OddMaps == {<<D("rsv", 0, 1), D("ram", 1, 72)>>}

MCDtb == [base |-> 76 * Fan, len |-> 2 * Fan - 3]
MCFrameBuffer == [base |-> 100 * Fan, len |-> 2 * Fan]
MCTrampCode == [base |-> 17 * Fan + 2, len |-> 2]
=============================================================================
