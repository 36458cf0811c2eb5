--------------------------- MODULE MCRadioConfig ---------------------------
(***************************************************************************)
(* Values for RadioConfig: two addresses that differ in every byte.  A     *)
(* behaviour uses the setters of one group, which share registers; the     *)
(* groups, each with mode changes and resets, are checked side by side.     *)
(***************************************************************************)
EXTENDS RadioConfig

VARIABLE group

MCPowers == Powers
MCAddresses == {E7s, <<1, 239, 205, 171, 0>>}

\* Pipe 1 is given an address of the width in use, which enables it.
AddressPipe1 ==
    AskRxAddress /\ asked'.aw = asked.aw /\ \A p \in {0, 2} : asked'.rxa[p] = asked.rxa[p]

MCInit == Init /\ group \in {"settings", "addresses", "pipes"}

MCNext ==
    /\ UNCHANGED group
    /\ \/ group = "settings" /\ Settings
       \/ group = "addresses" /\ (Addressing \/ AskNoPipe)
       \/ group = "pipes" /\ (AddressPipe1 \/ Switches \/ Link)
       \/ ModeCalls
       \/ Construct

MCSpec == MCInit /\ [][MCNext]_<<vars, group>>
=============================================================================
