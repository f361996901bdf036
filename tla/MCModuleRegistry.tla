-------------------------- MODULE MCModuleRegistry --------------------------
EXTENDS ModuleRegistry, TLC

CONSTANTS mFilesystem, mMath, sMain, sThread1, sThread2, sThread3

\* The lua_States are interchangeable threads.
Symm == Permutations({sMain, sThread1, sThread2, sThread3})

=============================================================================
