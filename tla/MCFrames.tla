------------------------------ MODULE MCFrames ------------------------------
(* Two processes with two pages each: process a has a stack page and a page of  *)
(* its executable, process b a stack page and a mapped file.                    *)
EXTENDS Frames
CONSTANTS a, b, stackA, codeA, stackB, mapB

MCOwnerOf == (stackA :> a) @@ (codeA :> a) @@ (stackB :> b) @@ (mapB :> b)
=============================================================================
