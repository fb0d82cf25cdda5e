---------------------------- MODULE MCResources ----------------------------
(* Machines with the fixed resources of the board (LPC, IOAPIC, MMCONF), a  *)
(* device on bus 0, a bridge to bus 1 with a device and a bridge to bus 3,  *)
(* and super I/O behind the LPC (bus 2).                                    *)
EXTENDS Resources

Res(bus, type, limit) ==
    [bus |-> bus, type |-> type, domain |-> FALSE, win |-> FALSE,
     fixed |-> FALSE, sub |-> FALSE, enabled |-> TRUE, link |-> 0,
     base |-> 0, size |-> 0, align |-> 1, gran |-> 1, limit |-> limit,
     assigned |-> FALSE]
Domain(type) == [Res(-1, type, 65535) EXCEPT !.domain = TRUE]
\* A register that does not exist (size 0) is like a device that is off.
Bar(bus, type, size, limit) ==
    IF size = 0 THEN [Res(bus, type, limit) EXCEPT !.enabled = FALSE]
    ELSE [Res(bus, type, limit) EXCEPT !.size = size, !.align = size,
                                       !.gran = size]
Window(bus, type, gran, link) ==
    [Res(bus, type, 65535) EXCEPT !.win = TRUE, !.link = link,
                                  !.align = gran, !.gran = gran]
FixedAt(bus, type, at, size) ==
    [Res(bus, type, 0) EXCEPT !.fixed = TRUE, !.base = at, !.size = size,
                              !.assigned = TRUE]
Subtractive(type, at, size) ==
    [FixedAt(0, type, at, size) EXCEPT !.sub = TRUE, !.link = 2]

Ports ==
    {[dram |-> 0, hole |-> 0, res |->
        <<Domain("io"), Subtractive("io", 0, 4096), Bar(2, "io", p, 65535),
          FixedAt(0, "io", f, 256),
          Bar(0, "io", a, 65535), Bar(0, "io", b, 65535),
          Window(0, "io", 4096, 1), Bar(1, "io", c, 65535),
          Bar(1, "io", d, 65535), Window(1, "io", 4096, 3),
          Bar(3, "io", e, 65535)>>] :
     p \in {0, 8}, f \in {0, 8192, 53248}, a \in {0, 32, 256},
     b \in {32, 256}, c \in {0, 16, 256}, d \in {8, 256}, e \in {0, 32}}

Memories ==
    {[dram |-> m[1], hole |-> m[2], res |->
        <<Domain("mem"), FixedAt(0, "mem", 63488, 256),
          FixedAt(0, "mem", 65216, 1), Subtractive("mem", 65408, 128),
          Bar(0, "mem", a, 65535), Bar(0, "pref", b, WIDTH - 1),
          Window(0, "mem", 16, 1), Window(0, "pref", 16, 1),
          Bar(1, "mem", c, 65535), Bar(1, "pref", d, WIDTH - 1),
          Window(1, "mem", 16, 3), Window(1, "pref", 16, 3),
          Bar(3, "mem", e, 65535)>>] :
     m \in {<<8, 0>>, <<61440, 0>>, <<73728, 57344>>},
     a \in {0, 1, 4096}, b \in {0, 16, 32768}, c \in {1, 64, 32768},
     d \in {0, 32, 4096}, e \in {0, 2}}

MCMachines == Ports \cup Memories
==============================================================================
