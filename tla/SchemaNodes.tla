----------------------------- MODULE SchemaNodes -----------------------------
(***************************************************************************)
(* The constraint IR (Node in src/src/schema/mod.rs): a node is a function *)
(* from the keywords it has to what they say, with node numbers for        *)
(* subschemas.  A `true` or `false` schema has the keyword "boolean" only. *)
(***************************************************************************)
EXTENDS Integers

Has(n, keyword)      == keyword \in DOMAIN n
Get(n, keyword, def) == IF Has(n, keyword) THEN n[keyword] ELSE def

Permitted == 0       \* additionalProperties, when not a node
Forbidden == -1
NoNode    == 0       \* Option::None

Bounds == {"minimum", "maximum", "exclusiveMinimum", "exclusiveMaximum"}

(* TypeSet::from_name; `number` admits every integer. *)
TypeName == {"null", "boolean", "object", "array", "number", "integer", "string"}

FromName(name) == IF name = "number" THEN {"number", "integer"} ELSE {name}
=============================================================================
