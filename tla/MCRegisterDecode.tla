-------------------------- MODULE MCRegisterDecode --------------------------
(***************************************************************************)
(* The tables of src/bin/data: csi_pcs_modbus.json from register 3300 on,  *)
(* in its order, and the requests of csi_pcs_series_reg.json.  The bytes   *)
(* of a register tell it from its neighbours.                              *)
(***************************************************************************)
EXTENDS RegisterDecode

Addresses ==
    LET range(a, b) == [i \in 1 .. b - a + 1 |-> a + i - 1]
    IN range(3300, 3301) \o range(3600, 3614) \o range(3618, 3667) \o range(3680, 3694)
       \o range(3900, 3904) \o range(3906, 3923) \o range(3929, 3955)
       \o range(3800, 3817) \o <<3821>> \o range(3823, 3845)
       \o range(5000, 5017) \o range(5024, 5037)

SignedAddresses == (3618 .. 3620) \cup (3632 .. 3639)
                   \cup {3682, 3693, 3694, 3903, 3904, 3911, 3914, 3915}

LongAddresses == (3628 .. 3631) \cup (3643 .. 3656) \cup (3663 .. 3666)

PcsPoints ==
    [i \in DOMAIN Addresses |->
        [addr |-> Addresses[i],
         dataType |-> CASE Addresses[i] \in SignedAddresses -> "S16"
                        [] Addresses[i] \in LongAddresses -> "U32"
                        [] OTHER -> "U16"]]

Answers(t, f, n) == {[title |-> t, first |-> f, regs |-> n, refused |-> r] : r \in BOOLEAN}

Replies == UNION {Answers("device", 3300, 30), Answers("running", 3600, 80),
                  Answers("battery", 3680, 20), Answers("parameters", 3900, 80),
                  Answers("protection", 3800, 80), Answers("calibration", 5000, 38),
                  Answers("gridMode", 8000, 21), Answers("reactive", 8030, 11),
                  Answers("lowRide", 8100, 11), Answers("highRide", 8150, 10),
                  Answers("softStart", 8200, 5)}

\* A whole cycle of the polling thread, in the order of the file.
Cycle == LET accepted == {reply \in Replies : ~reply.refused}
             titles == <<"device", "running", "battery", "parameters", "protection", "calibration",
                         "gridMode", "reactive", "lowRide", "highRide", "softStart">>
         IN [i \in DOMAIN titles |-> CHOOSE reply \in accepted : reply.title = titles[i]]

\* Each reply by itself, two next to each other, and a whole cycle.
SmallBatches ==
    {<<reply>> : reply \in Replies}
        \cup {Cycle}
        \cup {<<a, b>> : a \in Answers("device", 3300, 30), b \in Answers("battery", 3680, 20)}

AllRegisters == UNION {reply.first .. reply.first + reply.regs - 1 : reply \in Replies}

Contents == [a \in AllRegisters |-> (((37 * a) % 256) * 256) + ((11 * a) % 256)]

\* The tables of the repository are such that no window reads behind a reply.
ASSUME TablesOfTheRepository == TablesAgree
=============================================================================
