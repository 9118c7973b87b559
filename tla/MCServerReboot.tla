-------------------------- MODULE MCServerReboot ---------------------------
(***************************************************************************)
(* A small domain: three servers to restart, the BBL and a system server   *)
(* that reboot leaves alone, two entries to a page.                        *)
(***************************************************************************)
EXTENDS ServerReboot

CONSTANTS s1, s2, s3, bbl, dmadm
=============================================================================
