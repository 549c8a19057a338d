------------------------ MODULE MC_FakeKmsLauncher ------------------------
(* A four-byte address, written in any split, and getline buffers of up to two bytes more than the line and its NUL. *)
EXTENDS FakeKmsLauncher

MCAddrLen == 4
MCMaxCap == 8
====
