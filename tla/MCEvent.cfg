\* Safety and liveness of the event queue, without symmetry (unsound with
\* temporal properties): two messages, two threads, two modal-draw
\* contexts, so that a push races a poll or a clear and one context
\* replaces another.
CONSTANTS
    m1 = m1
    m2 = m2
    m3 = m3
    tMain = tMain
    tWorker = tWorker
    c1 = c1
    c2 = c2
    c3 = c3
    Msgs = {m1, m2}
    Threads = {tMain, tWorker}
    Ctxs = {c1, c2}
    None = None
SPECIFICATION Spec
\* After the module is destroyed and the last events are released, nothing
\* is left to happen.
CHECK_DEADLOCK FALSE
INVARIANT TypeOK
INVARIANT MsgRefCountIsHolders
INVARIANT DequeShape
INVARIANT ModalContextOwnership
PROPERTY MessageEventuallyFreed
