---- MODULE MCNetworkInterface ----
EXTENDS NetworkInterface
====
