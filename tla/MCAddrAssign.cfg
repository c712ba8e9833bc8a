SPECIFICATION Spec
CONSTANTS
    Router = {1, 2, 3}
    Root = {1, 3}
    Interface = {11, 21, 22, 32}
    Owner <- MCOwner
    Peer <- MCPeer
    Start <- MCStart
    MaxChain = 2
    Fault <- MCFault
    MaxDisturb = 1
INVARIANTS TypeOK UniqueAddress OnlyLeadersServe ContestedYield SameSubnet ChainsLevel NoneStranded
