------------------------------- MODULE MCLogin -------------------------------
\* Model-checking instance of Login; the values are in the .cfg file.
EXTENDS Login

=============================================================================
