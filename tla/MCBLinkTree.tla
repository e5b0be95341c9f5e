---------------------------- MODULE MCBLinkTree ----------------------------
EXTENDS BLinkTree

\* 14 keys: the first thread splits the root with its last key, the second
\* has four keys for one child of the right half.
WindowKeyVectors ==
    {<<10, 30, 50, 70, 80, 90, 100, 20, 40, 60, 51, 52, 53, 54>>}

\* Two threads that interleave their keys, one that fills the right half of
\* the root while the other splits it, descending keys with a remainder, and
\* two that meet; and the window above.
MCKeyVectors == WindowKeyVectors \cup
    {<<1, 3, 5, 7, 9, 11, 2, 4, 6, 8, 10, 12>>,
     <<1, 2, 3, 4, 7, 12, 13, 5, 6, 8, 9, 10, 11>>,
     <<12, 11, 10, 9, 8, 7, 6, 5, 4, 3, 2, 1, 13>>,
     <<2, 4, 6, 8, 10, 12, 11, 9, 7, 5, 3, 1>>}
=============================================================================
