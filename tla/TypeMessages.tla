------------------------------ MODULE TypeMessages ------------------------------
(***************************************************************************)
(* The messages of goconduct.v1 about the types of a component             *)
(* (lib-api-gen/src/gen/v1/graph_pb.ts).  The identifier of a type is its  *)
(* package and its name.  The text of a field's type is the set of names   *)
(* that occur in it; what is only shown (positions, signatures, underlying *)
(* types) is left out.                                                     *)
(***************************************************************************)
EXTENDS Sequences

CONSTANTS
  Paths,      \* identifiers of components
  Packages,
  TypeNames,  \* names of types
  Members     \* names of fields and methods

TypeIds == Packages \X TypeNames

RelationKinds == {"implements", "embeds", "references"}

TypeKinds == {"struct", "interface", "alias", "basic"}

TypeReference == [id : TypeIds, component : Paths]

TypeField ==
  [name : Members, type : SUBSET TypeNames, embedded : BOOLEAN, exported : BOOLEAN]

TypeMethod == [name : Members, exported : BOOLEAN]

IsTypeDeclaration(d) ==
  /\ DOMAIN d =
       {"id", "component", "kind", "exported", "fields", "methods", "embeds", "implements",
        "references"}
  /\ d.id \in TypeIds
  /\ d.component \in Paths
  /\ d.kind \in TypeKinds
  /\ d.exported \in BOOLEAN
  /\ d.fields \in Seq(TypeField)
  /\ d.methods \in Seq(TypeMethod)
  /\ d.embeds \cup d.implements \cup d.references \subseteq TypeReference

IncomingTypeRelation ==
  [kind : RelationKinds, sourceId : TypeIds, sourceComponent : Paths, targetId : TypeIds]

GetComponentTypesRequest == [componentId : Paths]

IsGetComponentTypesResponse(response) ==
  /\ DOMAIN response = {"types", "incoming"}
  /\ \A d \in response.types : IsTypeDeclaration(d)
  /\ response.incoming \subseteq IncomingTypeRelation

=============================================================================
