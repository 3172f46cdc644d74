---------------------------- MODULE MCRemoteJob ----------------------------
\* One job, local or on a Worker Node.
EXTENDS RemoteJob

CONSTANT j1

MCJobs == {j1}
=============================================================================
