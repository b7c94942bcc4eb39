--------------------------- MODULE MCDeviceArray ---------------------------
(* DeviceArray for TLC: a relay alone, and two devices of which the answer *)
(* has all or only one complete.                                           *)
EXTENDS DeviceArray

MCLists == {[size |-> 1, entries |-> <<"relay">>],
            [size |-> 2, entries |-> <<"ir", "relay">>],
            [size |-> 2, entries |-> <<"relay">>]}
=============================================================================
