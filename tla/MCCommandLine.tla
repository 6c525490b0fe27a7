--------------------------- MODULE MCCommandLine ----------------------------
EXTENDS CommandLine
MCLetters == <<"a","b","c","d","e","f","g","h","i","j","k">>
=============================================================================
