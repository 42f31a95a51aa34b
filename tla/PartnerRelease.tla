--------------------------- MODULE PartnerRelease ---------------------------
(***************************************************************************)
(* What of an intrusion may be given to a partner: the bundle of STIX      *)
(* objects made of a diamond or a campaign (core/stix_export.py), the part *)
(* of it that the tier of the partner may have (core/releasability.py),    *)
(* and the envelope that several bundles travel in.                        *)
(*                                                                         *)
(* An identifier is derived from the kind and the value of an object and   *)
(* is kept as that pair; of the other fields of an object only their names *)
(* are kept.  The identifier of a bundle and times are left out, and so is *)
(* the form of a pattern.                                                  *)
(***************************************************************************)
EXTENDS Integers, Sequences, FiniteSets, SequencesExt

CONSTANTS
  Producer,      \* name of the platform
  Public,        \* techniques whose number has the form MITRE gives
  Patterned,     \* indicators that are an address, a hash or a domain
  PartnerTiers,  \* releasability.yaml: tier -> the types it may have
  NoAdversary    \* an adversary that is blank

-----------------------------------------------------------------------------
(* Objects. *)

Common == {"type", "id", "spec_version", "created", "modified", "created_by_ref",
           "object_marking_refs"}

Sid(type, value) == <<type, value>>

(* "refs" are the external references of an object, "ends" what a          *)
(* relationship relates and how.                                           *)
StixObject(type, value, fields, refs, ends) ==
  [type |-> type, id |-> Sid(type, value), fields |-> fields, refs |-> refs, ends |-> ends]

Identity ==
  StixObject("identity", Producer, (Common \ {"created_by_ref"}) \cup {"name", "identity_class"},
             {}, <<>>)

Rel(source, kind, target) ==
  StixObject("relationship", <<source, kind, target>>,
             Common \cup {"relationship_type", "source_ref", "target_ref"},
             {}, <<source, kind, target>>)

ThreatActor(name) == StixObject("threat-actor", name, Common \cup {"name"}, {}, <<>>)

AttackPattern(t) ==
  StixObject("attack-pattern", t, Common \cup {"name", "external_references"},
             {[source |-> "mitre-attack", id |-> t]}, <<>>)

Indicator(i) ==
  StixObject("indicator", i, Common \cup {"name", "pattern", "pattern_type", "valid_from"}, {}, <<>>)

(* The victim is left out.  No bundle is the empty one: nothing is told     *)
(* when there is nothing but the producer.                                 *)
FromDiamond(d) ==
  LET actors  == {d.adversary} \ {NoAdversary}
      iocs    == d.infrastructure \cap Patterned
      threats == {ThreatActor(a) : a \in actors}
                   \cup {AttackPattern(t) : t \in d.capabilities}
                   \cup {Rel(Sid("threat-actor", x[1]), "uses", Sid("attack-pattern", x[2])) :
                           x \in actors \X d.capabilities}
                   \cup {Indicator(i) : i \in iocs}
                   \cup {Rel(Sid("indicator", x[2]), "indicates", Sid("threat-actor", x[1])) :
                           x \in actors \X iocs}
  IN  IF threats = {} THEN {} ELSE {Identity} \cup threats

(* How far the campaign is and what it expects next are left out.          *)
FromCampaign(chain) ==
  {Identity, StixObject("campaign", chain, Common \cup {"name", "objective"}, {}, <<>>)}

(* Objects of the same identifier travel once, the first of them. *)
Envelope(bundles) ==
  LET objects == FlattenSeq(bundles)
  IN  {objects[i] : i \in {i \in DOMAIN objects :
                             \A j \in 1..(i - 1) : objects[j].id # objects[i].id}}

-----------------------------------------------------------------------------
(* What a partner may have. *)

Base == {"type", "id", "spec_version", "created"}

SafeFields ==
  [type \in {"attack-pattern", "indicator", "relationship", "marking-definition"} |->
     CASE type = "attack-pattern"     -> Base \cup {"modified", "external_references"}
       [] type = "indicator"          -> Base \cup {"modified", "pattern", "pattern_type", "valid_from"}
       [] type = "relationship"       -> Base \cup {"modified", "relationship_type", "source_ref", "target_ref"}
       [] type = "marking-definition" -> Base \cup {"definition_type", "definition", "name"}]

SafeRefs(refs) == {r \in refs : r.source \in {"mitre-attack", "mitre-atlas"} /\ r.id \in Public}

Vocabulary == {"uses", "indicates", "mitigates", "targets", "attributed-to", "related-to"}

Statement(tier) ==
  StixObject("marking-definition", <<"statement", tier>>,
             Base \cup {"definition_type", "definition", "name"}, {}, <<>>)

(* The markings are set anew, whether or not there were any. *)
Scrub(o) ==
  [type |-> o.type, id |-> o.id, ends |-> o.ends,
   fields |-> (o.fields \cap SafeFields[o.type]) \cup {"object_marking_refs"},
   refs   |-> IF o.type = "attack-pattern" THEN SafeRefs(o.refs) ELSE {}]

(* An attack pattern without a public reference has nothing to say. *)
Releasable(o, tier) ==
  /\ o.type # "relationship"
  /\ o.type \in PartnerTiers[tier] \cap DOMAIN SafeFields
  /\ o.type = "attack-pattern" => SafeRefs(o.refs) # {}

(* A relationship stays when both of its ends do. *)
Related(o, surviving) ==
  /\ o.type = "relationship"
  /\ o.ends[2] \in Vocabulary
  /\ o.ends[1] \in surviving /\ o.ends[3] \in surviving

ForPartner(bundle, tier) ==
  LET kept      == {o \in bundle : Releasable(o, tier)}
      surviving == {Statement(tier).id} \cup {o.id : o \in kept}
      related   == {o \in bundle : Related(o, surviving)}
  IN  IF tier \notin DOMAIN PartnerTiers \/ kept = {} THEN {}
      ELSE {Statement(tier)} \cup {Scrub(o) : o \in kept \cup related}
=============================================================================
