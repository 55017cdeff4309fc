SPECIFICATION Spec
CONSTANTS
    Addrs = {a1, a2}
    head = head
    NULL = NULL
    IntNums = {16, 21}
    Regs = {r1, r2}
INVARIANT QueueInv
PROPERTY ImplementsRpc
