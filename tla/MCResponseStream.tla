--------------------------- MODULE MCResponseStream ---------------------------
EXTENDS ResponseStream

CONSTANTS search, fetch, shell

NoTools == {}
WebTools == {search, fetch}
Search == {search}
Shell == {shell}

=============================================================================
