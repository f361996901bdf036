\* Two module types, three lua_States (the main one and two love.thread
\* threads), two objects per module so that a module destroyed when the
\* last state holding it closes can be created again.  The run stops when
\* every state has closed, so deadlock is not checked.
CONSTANTS
    mFilesystem = mFilesystem
    mMath = mMath
    sMain = sMain
    sThread1 = sThread1
    sThread2 = sThread2
    sThread3 = sThread3
    Mods = {mFilesystem, mMath}
    States = {sMain, sThread1, sThread2}
    MaxGen = 2

SPECIFICATION Spec
CHECK_DEADLOCK FALSE



INVARIANT RegisteredModuleAlive
