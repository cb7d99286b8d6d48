------------------------- MODULE MCContainerSession -------------------------
(* Small instances of ContainerSession; the bounds are in the .cfg files. *)
EXTENDS ContainerSession
=============================================================================
