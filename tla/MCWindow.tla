------------------------------ MODULE MCWindow ------------------------------
(* Window on two small volumes: FAT32 with two FATs and FSINFO, FAT12/16   *)
(* with one FAT and a root directory area.                                 *)
EXTENDS Window
=============================================================================
