\* Path strings with one or two elements, a trailing ';' and the empty
\* string; module names with a '.', with a '?' and plain; one extension.
\* The files make loader succeed through the first and the second element
\* and fail, and make extloader find a library that opens and exports, one
\* that does not open, and none.
CONSTANTS
    PathStrings <- MCPathStrings
    Modules <- MCModules
    Exts <- MCExts
    Files <- MCFiles
    Loadable <- MCLoadable
    Exporting <- MCExporting
    InitPath <- MCInitPath
    InitCPath <- MCInitCPath
SPECIFICATION Spec


INVARIANT ExtLoaderTriesTemplate
