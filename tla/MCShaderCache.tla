--------------------------- MODULE MCShaderCache ---------------------------
(***************************************************************************)
(* Instances of ShaderCache: two materials that share a vertex shader.     *)
(***************************************************************************)
EXTENDS ShaderCache

CONSTANTS vert, frag, flat

TwoMaterials == << <<vert, frag>>, <<vert, flat>> >>
=============================================================================
