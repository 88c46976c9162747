------------------------ MODULE MCRegistryRefinement ------------------------
(* RegistryRefinement on the instances of MCPersistentRegistry.              *)
EXTENDS MCPersistentRegistry, RegistryRefinement
=============================================================================
