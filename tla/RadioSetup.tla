----------------------------- MODULE RadioSetup -----------------------------
(***************************************************************************)
(* How a board becomes a node or the gateway (src/node.cpp: setupNodeRadio, *)
(* setupGatewayRadio, after the constructor of src/nRF24L01P).  Each board  *)
(* executes its setters one by one.  It can be reset between any two of     *)
(* them, or flashed with the other program: the microcontroller starts over *)
(* and the chip, which was not powered off, keeps its registers.            *)
(***************************************************************************)
EXTENDS RadioRegisters

CONSTANTS
    Boards,         \* the boards within reach of one another
    NodeAddress,    \* the address a board is a node with, from main
    FirstRole       \* the program it is flashed with at first

Roles == {"node", "gateway"}

\* The gateway's addresses: 0xABCDEF00 to 0xABCDEF02, the fifth byte 0.
GatewayPipes == 0..2
GatewayAddress(p) == <<p, 239, 205, 171, 0>>

ASSUME RadioSetupAssumption ==
    /\ NodeAddress \in [Boards -> Addresses]
    /\ FirstRole \in [Boards -> Roles]

VARIABLES
    role,           \* the program a board is flashed with
    reg,            \* its chip's registers
    ce,             \* its CE pin
    step            \* setters executed since the constructor; -1 before it
vars == <<role, reg, ce, step>>

CommonSteps == 6
NodeSteps == CommonSteps + 4
GatewaySteps == CommonSteps + 7

StepsOf(b) == IF role[b] = "node" THEN NodeSteps ELSE GatewaySteps

-----------------------------------------------------------------------------

\* Powered on, every board before its constructor.
Init ==
    /\ role = FirstRole
    /\ reg = [b \in Boards |-> PowerOnReset]
    /\ ce = [b \in Boards |-> FALSE]
    /\ step = [b \in Boards |-> -1]

\* Faulty variant: CE is left as it is found.
ConstructEnabled(b) ==
    /\ step[b] = -1
    /\ reg' = [reg EXCEPT ![b] = Constructed(@)]
    /\ step' = [step EXCEPT ![b] = 0]
    /\ UNCHANGED <<role, ce>>

\* The constructor, disable() first, in one step: a reset in the middle of it
\* leaves nothing that its next execution does not write again.
Construct(b) ==
    /\ step[b] = -1
    /\ reg' = [reg EXCEPT ![b] = Constructed(@)]
    /\ ce' = [ce EXCEPT ![b] = FALSE]
    /\ step' = [step EXCEPT ![b] = 0]
    /\ UNCHANGED role

\* The setter that follows the first n leaves the registers r.
Set(b, n, r) ==
    /\ step[b] = n
    /\ reg' = [reg EXCEPT ![b] = r]

\* The settings both programs have in common, powerDown and powerUp first.
CommonStep(b) ==
    \/ Set(b, 0, SetPower(reg[b], FALSE))
    \/ Set(b, 1, SetPower(reg[b], TRUE))
    \/ Set(b, 2, SetAirDataRate(reg[b], 250))
    \/ Set(b, 3, SetRfOutputPower(reg[b], 0))
    \/ Set(b, 4, SetRfFrequency(reg[b], 2408))
    \/ Set(b, 5, SetCrcWidth(reg[b], 8))

\* Its addresses, its size, then setReceiveMode.
NodeStep(b) ==
    /\ role[b] = "node"
    /\ \/ Set(b, CommonSteps, SetTxAddress(reg[b], NodeAddress[b], 5))
       \/ Set(b, CommonSteps + 1, SetRxAddress(reg[b], NodeAddress[b], 5, 0))
       \/ Set(b, CommonSteps + 2, SetTransferSize(reg[b], 32, 0))
       \/ Set(b, CommonSteps + 3, SetPrimRx(reg[b], TRUE))

\* Three addresses, three sizes, then setReceiveMode.
GatewayStep(b) ==
    /\ role[b] = "gateway"
    /\ \/ \E p \in GatewayPipes :
             \/ Set(b, CommonSteps + p, SetRxAddress(reg[b], GatewayAddress(p), 5, p))
             \/ Set(b, CommonSteps + 3 + p, SetTransferSize(reg[b], 32, p))
       \/ Set(b, CommonSteps + 6, SetPrimRx(reg[b], TRUE))

SetUp(b) ==
    /\ CommonStep(b) \/ NodeStep(b) \/ GatewayStep(b)
    /\ step' = [step EXCEPT ![b] = @ + 1]
    /\ UNCHANGED <<role, ce>>

\* enable(), the last call of both programs.
Enable(b) ==
    /\ step[b] = StepsOf(b)
    /\ ce' = [ce EXCEPT ![b] = TRUE]
    /\ step' = [step EXCEPT ![b] = @ + 1]
    /\ UNCHANGED <<role, reg>>

\* A reset, or a reset into the other program.
Reset(b) ==
    /\ step[b] >= 0
    /\ \E r \in Roles : role' = [role EXCEPT ![b] = r]
    /\ step' = [step EXCEPT ![b] = -1]
    /\ UNCHANGED <<reg, ce>>

Next == \E b \in Boards : Construct(b) \/ SetUp(b) \/ Enable(b) \/ Reset(b)

Spec == Init /\ [][Next]_vars

-----------------------------------------------------------------------------
(* The radios, as the programs rely on them. *)

Listening(b) == ce[b] /\ IsUp(reg[b]) /\ IsRx(reg[b])

\* Same channel, rate, checksum, address width and framing.
SameAir(r, s) ==
    /\ GetRfFrequency(r) = GetRfFrequency(s)
    /\ GetAirDataRate(r) = GetAirDataRate(s)
    /\ GetCrcWidth(r) = GetCrcWidth(s)
    /\ r.aw = s.aw
    /\ (r.enAA = {}) = (s.enAA = {})

\* The pipes on which board b receives a frame of n bytes that board a sends.
Accepting(b, a, n) ==
    {p \in reg[b].enRxAddr :
       /\ Listening(b)
       /\ SameAir(reg[a], reg[b])
       /\ GetRxAddress(reg[b], p) = GetTxAddress(reg[a])
       /\ IsDynamic(reg[b], p) \/ GetTransferSize(reg[b], p) = n}

Ready(b) == step[b] > StepsOf(b)

FrameSize == 32

\* Where a board that is set up expects frames sent to address a: the gateway on
\* the pipe with that address, a node on pipe 0 if it is its own.
Expected(b, a) ==
    IF role[b] = "gateway" THEN {p \in GatewayPipes : GatewayAddress(p) = a}
    ELSE IF a = NodeAddress[b] THEN {0} ELSE {}

-----------------------------------------------------------------------------
(* Properties. *)

\* Once node and receiver are set up, a frame of the node's arrives on the pipe
\* the gateway has for that node's address, on no other and nowhere else,
\* whatever the boards were before (setupNodeRadio, setupGatewayRadio).
FramesReachTheirPipe ==
    \A a, b \in Boards :
       a # b /\ role[a] = "node" /\ Ready(a) /\ Ready(b)
         => Accepting(b, a, FrameSize) = Expected(b, NodeAddress[a])

\* From the constructor on, a board that listens is set up: the receiver is never
\* on with settings half replaced, of another program or the constructor's, although
\* powerUp finds CE and PRIM_RX as the last program left them.
ReceivesOnlyWhenReady ==
    \A b \in Boards : step[b] >= 0 /\ Listening(b) => Ready(b)

=============================================================================
