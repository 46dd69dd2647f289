------------------------------ MODULE MCInode ------------------------------
(* Small instances of Inode: blocks of two bytes, two entries per map, a   *)
(* file of one byte and the extra block that inode_create gives it.        *)
EXTENDS Inode

\* A write that grows the file within a block it has, one that starts at the
\* new end or leaves a gap, and one that adds two blocks.
MCWrites == {<<1, 1>>, <<2, 2>>, <<1, 4>>}

MCReads == {<<0, 5>>}
=============================================================================
