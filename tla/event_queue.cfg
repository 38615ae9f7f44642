CONSTANTS
    Thread = {main, ui}
    Main = main
    Node = {n1, n2, n3}
    Event = {e1, e2}
    NULL = NULL
    NO_EVENT = NO_EVENT
SPECIFICATION Spec
SYMMETRY NodeSymmetry
INVARIANTS ListInOrder PopFindsEvent
PROPERTIES ImplementsFifo
