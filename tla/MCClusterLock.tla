---------------------------- MODULE MCClusterLock ----------------------------
\* Model-checking instance of ClusterLock; the values are in the .cfg file.
EXTENDS ClusterLock
=============================================================================
