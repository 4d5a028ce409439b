-------------------------- MODULE MCDeviceSession --------------------------
(* A folder at the root with a file in it; a second handle the phone may    *)
(* give to a new file.                                                      *)
EXTENDS DeviceSession, TLC

CONSTANTS f, a, b, n1, n2

At(k, n) == [parent |-> k, name |-> n]

FolderAndFile == {(f :> At(RootKey, n1)) @@ (a :> At(f, n1)) @@ (b :> Absent)}
Interchangeable == Permutations(Task)
RootFiles     == {(a :> At(RootKey, n1)) @@ (b :> At(RootKey, n1))}
=============================================================================
