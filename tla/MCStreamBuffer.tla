--------------------------- MODULE MCStreamBuffer ---------------------------
EXTENDS StreamBuffer

\* The three modes the Vulkan buffer supports and one it does not.
MCModes == {"vertex", "index", "uniform", "shaderstorage"}

=============================================================================
