-------------------------- MODULE MCHiredisWrapper --------------------------
(* The demo clients of main.cpp, one wrapper at a time.                    *)
EXTENDS HiredisWrapper

DemoClients == {"ping", "getThenPing", "sub"}
=============================================================================
