--------------------------- MODULE MCCredentials ---------------------------
EXTENDS Credentials, TLC

Symmetric == Permutations(Owners) \cup Permutations(Rows)
                 \cup Permutations(Processes) \cup Permutations(Handlers)
=============================================================================
