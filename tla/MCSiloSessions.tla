--------------------------- MODULE MCSiloSessions ---------------------------
EXTENDS SiloSessions

\* One operation, as in "r:100,", and the same without the delimiter.
MCQueries == {<<"op", ",">>, <<"op">>}
=============================================================================
