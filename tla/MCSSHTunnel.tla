----------------------------- MODULE MCSSHTunnel -----------------------------
(* SSHTunnel for TLC: the MySQL handle, alone or with a guest.               *)
EXTENDS SSHTunnel

CONSTANTS handle, guest

(* The handle goes on after the greeting; the guest gets one of two packets,  *)
(* so that one is queued while another is sent.                              *)
GuestGetsTwo == [c \in Clients |-> IF c = Handle THEN 1 ELSE 2]
HandleAsks   == [c \in Clients |-> IF c = Handle THEN 1 ELSE 0]
=============================================================================
