---------------------------- MODULE MCSerialPoll ----------------------------
(* Two devices and two points each are enough for every reply to have a    *)
(* predecessor of the same and of another device.  The devices have a tty  *)
(* each, or share one of which both, one or neither has bus address 1.     *)
EXTENDS SerialPoll

MCWirings ==
    {[tty |-> <<1, 2>>, units |-> {1, 2}]}
    \cup {[tty |-> <<1, 1>>, units |-> u] : u \in {{}, {2}, {1, 2}}}
=============================================================================
