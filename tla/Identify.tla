------------------------------ MODULE Identify ------------------------------
(***************************************************************************)
(* Which control module answered: identify.rs of mqb-flash-uds.            *)
(*                                                                         *)
(* The bytes of an identification record are a sequence of tokens: Pad is  *)
(* NUL or space, Dot the full stop, Revision an ODX revision suffix such   *)
(* as "_001", and any other token a word.                                  *)
(***************************************************************************)
EXTENDS Naturals, Sequences, FiniteSets, SequencesExt

CONSTANTS None, Pad, Dot, Revision

\* The registry: project names are not unique, and the coupler has none.
MODULES == {"simos18", "simos1810", "simos184", "simos12", "simos122", "simos16", "simos10",
            "simos8", "dq250", "dq381", "haldex"}
Registry ==
  [name \in MODULES |->
     CASE name = "simos18" -> "SC8" [] name = "simos1810" -> "SCG" [] name = "simos184" -> "SCB"
       [] name = "simos12" -> "SC1" [] name = "simos122" -> "SC2" [] name = "simos16" -> "SG1"
       [] name = "simos10" -> "SA" [] name = "simos8" -> "S85"
       [] name \in {"dq250", "dq381"} -> "F" [] name = "haldex" -> ""]

\* The channels in scan order, with the modules that live on each.
IDENT_CHANNELS ==
  << [kind |-> "SimosEngine", modules |-> <<"simos18", "simos1810", "simos184">>],
     [kind |-> "Transmission", modules |-> <<"dq250", "dq381">>],
     [kind |-> "HaldexAwd", modules |-> <<"haldex">>] >>
Supported == {"simos18", "simos1810", "simos184", "dq250", "dq381", "haldex"}
channel_for(kind) == CHOOSE c \in Range(IDENT_CHANNELS) : c.kind = kind

\* A word is a project prefix when it is two to four letters and digits.
ProjectShaped == (Range(Registry) \ {"", "F"}) \cup {"XYZ"}

\* The box codes of the three variants.
SIMOS_VARIANT_BOX_CODES ==
  [name \in {"simos18", "simos1810", "simos184"} |->
     CASE name = "simos18" -> "8V0906259H" [] name = "simos1810" -> "5G0906259Q"
       [] name = "simos184" -> "80A906259F"]
PartShaped == Range(SIMOS_VARIANT_BOX_CODES) \cup {"8V0906259K", "0D9300012L"}

IDENT_DIDS == {"odx_file_identifier", "spare_part_number", "boot_loader_identification"}

Token == {Pad, Dot, Revision} \cup STRING
Dids == [IDENT_DIDS -> {None} \cup Seq(Token)]
Candidates == [module_name : Supported,
               confidence : {"Ambiguous", "Possible", "Likely", "Confirmed"}]

\* None is no list of candidates.
ASSUME NoneAssumption == None \notin Seq(Candidates)

-----------------------------------------------------------------------------
(***************************************************************************)
(* The evidence in the answers.                                            *)
(***************************************************************************)
\* decode: padding at both ends is dropped; nothing else is no record.
decode(bytes) ==
  LET words == {i \in DOMAIN bytes : bytes[i] # Pad} IN
  IF bytes = None \/ bytes = <<>> THEN None
  ELSE IF words = {} THEN None
  ELSE SubSeq(bytes, CHOOSE i \in words : \A j \in words : i <= j,
                     CHOOSE i \in words : \A j \in words : i >= j)

\* The part number at the tail of an ODX file identifier, its revision dropped.
spare_part_from_odx_identifier(ident) ==
  LET core == IF Last(ident) = Revision THEN Front(ident) ELSE ident IN
  IF core # <<>> /\ Last(core) \in PartShaped THEN Last(core) ELSE None

effective_spare_part_number(strings) ==
  CASE strings.spare_part_number # None -> strings.spare_part_number[1]
    [] strings.spare_part_number = None /\ strings.odx_file_identifier # None ->
         spare_part_from_odx_identifier(strings.odx_file_identifier)
    [] OTHER -> None

\* What the record starts with, up to the first full stop or space.
boot_loader_project(strings) ==
  LET ident == strings.boot_loader_identification IN
  IF ident # None /\ ident[1] \in ProjectShaped THEN ident[1] ELSE None

-----------------------------------------------------------------------------
(***************************************************************************)
(* The candidates, best first.                                             *)
(***************************************************************************)
Candidate(module_name, confidence) == [module_name |-> module_name, confidence |-> confidence]
Each(modules, confidence) == [i \in DOMAIN modules |-> Candidate(modules[i], confidence)]

\* None: the prefix decides nothing here.
boot_loader_candidates(strings, channel) ==
  LET project == boot_loader_project(strings)
      matches == {name \in Range(channel.modules) : Registry[name] = project}
  IN CASE project = None \/ Cardinality(matches) > 1 -> None
       [] project # None /\ Cardinality(matches) = 1 ->
            Each(<<CHOOSE name \in matches : TRUE>>, "Confirmed")
       [] project # None /\ matches = {} -> Each(channel.modules, "Possible")

\* The places of the variants with that part number; no two variants share one.
hits(strings, channel) ==
  {i \in DOMAIN channel.modules :
     SIMOS_VARIANT_BOX_CODES[channel.modules[i]] = effective_spare_part_number(strings)}
\* The stable sort when one candidate is likely and all others are possible.
Promoted(modules, hit) ==
  [i \in DOMAIN modules |->
     Candidate(modules[CASE i = 1 -> hit [] 1 < i /\ i <= hit -> i - 1 [] OTHER -> i],
               IF i = 1 THEN "Likely" ELSE "Possible")]

\* Defect: a known part number settles the variant.
simos_by_part_only(strings, channel) ==
  LET by_boot_loader == boot_loader_candidates(strings, channel) IN
  IF by_boot_loader # None THEN by_boot_loader
  ELSE IF hits(strings, channel) # {}
       THEN Each(<<channel.modules[CHOOSE hit \in hits(strings, channel) : TRUE]>>, "Likely")
       ELSE Each(channel.modules, "Ambiguous")
\* A known part number puts its variant first and drops no other.
simos_candidates(strings, channel) ==
  LET looks_like_ecm ==
        strings.odx_file_identifier = None \/ Head(strings.odx_file_identifier) = "EV_ECM"
      by_boot_loader == boot_loader_candidates(strings, channel)
  IN CASE by_boot_loader # None -> by_boot_loader
       [] by_boot_loader = None /\ hits(strings, channel) # {} ->
            Promoted(channel.modules, CHOOSE hit \in hits(strings, channel) : TRUE)
       [] OTHER -> Each(channel.modules, IF looks_like_ecm THEN "Ambiguous" ELSE "Possible")

transmission_candidates(channel) == Each(channel.modules, "Ambiguous")
haldex_candidates(channel) == Each(channel.modules, "Confirmed")

from_dids(dids) == [did \in IDENT_DIDS |-> decode(dids[did])]

candidates_from_dids(dids, channel) ==
  LET strings == from_dids(dids) IN
  IF \A did \in IDENT_DIDS : dids[did] = None THEN <<>>
  ELSE CASE channel.kind = "SimosEngine" -> simos_candidates(strings, channel)
         [] channel.kind = "Transmission" -> transmission_candidates(channel)
         [] channel.kind = "HaldexAwd" -> haldex_candidates(channel)

is_ambiguous(candidates) ==
  Len(candidates) > 1 /\ \A i \in DOMAIN candidates : candidates[i].confidence = "Ambiguous"
resolved(candidates) == IF Len(candidates) = 1 THEN candidates[1] ELSE None
=============================================================================
