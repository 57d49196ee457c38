--------------------------- MODULE MCProductPipeline ---------------------------
(* Instance of ProductPipeline for TLC: two products.                           *)
EXTENDS ProductPipeline

CONSTANTS a, b
=============================================================================
