---------------------------- MODULE MCGenerators ----------------------------
(* Both generators on the releases of MCSplice and the archives and files   *)
(* of MCArchives.                                                           *)
EXTENDS MCSplice, Generators

Archives == INSTANCE MCArchives

MCDars       == Archives!SmallDars
MCEmitted(p) == Archives!Emitted(p)
=============================================================================
