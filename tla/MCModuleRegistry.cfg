\* Two module types, four lua_States (the main one and three love.thread
\* threads), three objects per module so that a module destroyed when the
\* last state holding it closes is created again, twice.  The run stops
\* when every state has closed, so deadlock is not checked.
CONSTANTS
    mFilesystem = mFilesystem
    mMath = mMath
    sMain = sMain
    sThread1 = sThread1
    sThread2 = sThread2
    sThread3 = sThread3
    Mods = {mFilesystem, mMath}
    States = {sMain, sThread1, sThread2, sThread3}
    MaxGen = 3
SYMMETRY Symm
SPECIFICATION Spec
CHECK_DEADLOCK FALSE
INVARIANT ModuleRefCountIsRegistrations
