---------------------------- MODULE MCClusterState ----------------------------
\* Model-checking instance of ClusterState; the values are in the .cfg files.
EXTENDS ClusterState
=============================================================================
