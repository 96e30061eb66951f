---------------------------- MODULE MCTaskDispatch ----------------------------
\* Model-checking instance of TaskDispatch; the values are in the .cfg file.
EXTENDS TaskDispatch
=============================================================================
