------------------------------ MODULE MCStubs -------------------------------
(***************************************************************************)
(* A few bytes of memory and the functions, for checking Stubs.            *)
(***************************************************************************)
EXTENDS Stubs

\* Strings the program works on, the last without a NUL.
MCTexts == {<<1, 2, 0, 1, 1, 0, 2>>}
MCData == 1..7

MCPtrs == {0, 1, 4}
MCFunctions == {"malloc", "calloc", "realloc", "free", "memcpy", "memmove", "memset", "memcmp",
                "strlen", "strcpy", "strncpy", "strcat", "strncat", "strcmp", "strncmp", "strchr",
                "strrchr", "strstr", "strdup", "puts", "putchar", "exit", "abort"}
MCBinds == {<<"putchar", "other">>}
=============================================================================
