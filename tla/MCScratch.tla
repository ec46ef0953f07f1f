------------------------------ MODULE MCScratch ------------------------------
(***************************************************************************)
(* Instances of Scratch for TLC: a file beside a directory with a file in  *)
(* it.  In one the directory may be a file for a time and the file a link, *)
(* in the other the directory may be a link.                               *)
(***************************************************************************)
EXTENDS Scratch, TLC

CONSTANTS top, lib, dir, mod, v1, v2

Small  == {lib, dir, mod}
Within == (lib :> top) @@ (dir :> top) @@ (mod :> dir)

\* A whole tree, and one whose directory is not there yet.
Start1 == (lib :> File(v1)) @@ (dir :> Dir) @@ (mod :> File(v1))
Start2 == (lib :> Link) @@ (dir :> File(v1)) @@ (mod :> Absent)
Usual  == {Start1, Start2}
Start3 == (lib :> File(v1)) @@ (dir :> Link) @@ (mod :> Absent)
Led    == {Start3}

Plain  == (lib :> {"file", "link"}) @@ (dir :> {"none", "dir", "file"}) @@ (mod :> {"none", "file"})
Linked == (lib :> {"file"}) @@ (dir :> {"dir", "link"}) @@ (mod :> {"file"})
=============================================================================
