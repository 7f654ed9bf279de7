---------------------------- MODULE MCSslServer ----------------------------
(* Module SslServer; descriptors are used again after a reset.              *)
EXTENDS SslServer
=============================================================================
