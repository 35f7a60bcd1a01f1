------------------------------ MODULE MCBlocks ------------------------------
(***************************************************************************)
(* Two processes with three open files, two of them of one inode, on a     *)
(* disk with a root directory and one file of one byte from mkfs.          *)
(***************************************************************************)
EXTENDS Blocks

CONSTANTS p1, p2

MCIpOf == <<2, 3, 2, 1>>
MCSources == << <<2, 1>> >>
MCByte == p1 :> 1 @@ p2 :> 2
=============================================================================
