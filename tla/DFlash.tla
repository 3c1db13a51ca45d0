------------------------------- MODULE DFlash -------------------------------
(***************************************************************************)
(* The NVRAM records of a Simos18 DFlash image, and the immobilizer record *)
(* in them: dflash.rs, record.rs and lib.rs of mqb-nvcrypt.                *)
(*                                                                         *)
(* An image is what the two scans find in it: the channel records, in the  *)
(* order of their offsets, and the page headers.  A CRC is known by the    *)
(* generation counter under which it checks (CRC-16 collisions are left    *)
(* out), a ciphertext by the Device ID it was encrypted for, and a framing *)
(* by where the payload lies in its slots: "splitHead" and "splitTail" are *)
(* records across a block boundary, with the foreign byte inside or behind *)
(* the identity.                                                           *)
(***************************************************************************)
EXTENDS Integers, Sequences, FiniteSets, FiniteSetsExt

CONSTANTS
  None,
  Garbled,       \* content that does not decode
  Low            \* values of the 16 bits that a record's CRC covers, 65536

\* Where the payload of a record lies, and why a rewrite is refused.
Framings == {"left", "right", "splitHead", "splitTail"}
Errors ==
  {"NoSuchChannel", "UnknownGeneration", "UnknownAlignment", "SplitRecord", "WrongLength",
   "VerifyFailed", "BadVin", "NothingToSave"}

ASSUME DFlashAssumption == Low \in Nat \ {0} /\ None \notin {Garbled} \cup Framings \cup Errors

ImmoChannels == {6, 7, 8}

\* An NVRAM record; `torn` when its CRC checks under no counter at all.
Torn == -1
Record(channel, generation, framing, device, inner, content) ==
  [channel |-> channel, generation |-> generation, framing |-> framing,
   device |-> device, inner |-> inner, content |-> content]
Image(records, headers) == [records |-> records, headers |-> headers]

-----------------------------------------------------------------------------
(***************************************************************************)
(* The image.                                                              *)
(***************************************************************************)
channels(image) == {image.records[i].channel : i \in DOMAIN image.records}
write_count(image, c) == Cardinality({i \in DOMAIN image.records : image.records[i].channel = c})

\* Index of the record at the highest offset.
latest(image, c) == Max({i \in DOMAIN image.records : image.records[i].channel = c})
\* Dump::parse: the live records by channel, a BTreeMap.
live(image) == [c \in channels(image) |-> image.records[latest(image, c)]]

aligned_outer_crc(r, generation) ==
  IF r.generation = generation /\ r.framing \in {"left", "right"} THEN r.framing ELSE None
validate_outer_crc(r, generation) ==
  IF r.generation = generation THEN r.framing ELSE None

\* The first of eight probes, in the order of the channels, whose counter also
\* fits a second record.
brute_force_generation(records) ==
  LET hits(g) == Cardinality({c \in DOMAIN records : aligned_outer_crc(records[c], g) # None})
      fits(c) == /\ records[c].generation \in 0..(Low - 1)
                 /\ aligned_outer_crc(records[c], records[c].generation) # None
                 /\ hits(records[c].generation) >= 2
      taken(c) == Cardinality({d \in DOMAIN records : d < c}) < 8
      probes == {c \in DOMAIN records : taken(c) /\ fits(c)}
  IN IF probes = {} THEN None ELSE records[Min(probes)].generation

\* The counters on the page headers, those of the valid ones first.
from_headers(headers) == SelectSeq(headers, LAMBDA h : h.valid) \o headers

find_generation(image) ==
  LET found(value, source) == [value |-> value, source |-> source]
      best(headers, brute) ==
        CASE headers = <<>> /\ brute = None -> None
          [] headers = <<>> /\ brute # None -> found(brute, "BruteForced")
          [] headers # <<>> /\ brute = None -> found(headers[1].seq, "PageHeader")
          [] OTHER -> found(headers[1].seq,
                            IF headers[1].seq % Low = brute % Low
                            THEN "PageHeaderConfirmed" ELSE "PageHeaderDisputed")
  IN best(from_headers(image.headers), brute_force_generation(live(image)))

\* Without the framing a payload at the end of its slots is read from the wrong
\* place, and a keystream other than the device's own gives noise.  Without
\* keys a ciphertext is returned as it is.
analyze(image, r, keys) ==
  LET aligned(g) == IF g = None THEN None ELSE validate_outer_crc(r, g.value)
      analysis(alignment, legible) ==
        [alignment |-> alignment,
         encrypted |-> legible /\ r.device # None,
         inner_crc |-> legible /\ r.inner,
         content |-> IF legible THEN r.content ELSE Garbled]
      read(alignment) ==
        analysis(alignment, /\ alignment # None \/ r.framing # "right"
                            /\ r.framing # "splitHead"
                            /\ r.device \in {None, keys})
  IN read(aligned(find_generation(image)))

analyze_channel(image, c, keys) ==
  IF c \in channels(image) THEN analyze(image, image.records[latest(image, c)], keys) ELSE None

\* Defect: the first record of the channel is overwritten as well.
staged_first(image, i, content, before, generation, keys) ==
  LET first == Min({n \in DOMAIN image.records : image.records[n].channel = image.records[i].channel})
  IN [image EXCEPT !.records[i].content = content, !.records[first].content = content]
\* The payload in the shape it was read in, and both CRC fields made anew.
staged(image, i, content, before, generation, keys) ==
  [image EXCEPT !.records[i].content = content, !.records[i].generation = generation,
                !.records[i].device = IF before.encrypted THEN keys ELSE None,
                !.records[i].inner = before.inner_crc]

\* The edit is staged, read back, and kept only if it is what was asked for.
Refused(image, error) == [image |-> image, error |-> error]
rewrite_channel(image, c, content, keys) ==
  LET verified(candidate, readback) ==
        IF readback.alignment = None \/ readback.content # content
        THEN Refused(image, "VerifyFailed") ELSE [image |-> candidate, error |-> None]
      verify(candidate) == verified(candidate, analyze_channel(candidate, c, keys))
      rewritten(g, before) ==
        CASE before = None -> Refused(image, "NoSuchChannel")
          [] before # None /\ g = None -> Refused(image, "UnknownGeneration")
          [] before # None /\ g # None /\ before.alignment = None ->
               Refused(image, "UnknownAlignment")
          [] before # None /\ g # None /\ before.alignment \in {"splitHead", "splitTail"} ->
               Refused(image, "SplitRecord")
          [] before # None /\ g # None /\ before.alignment \in {"left", "right"} ->
               IF content.size # image.records[latest(image, c)].content.size
               THEN Refused(image, "WrongLength")
               ELSE verify(staged(image, latest(image, c), content, before, g.value, keys))
  IN rewritten(find_generation(image), analyze_channel(image, c, keys))

-----------------------------------------------------------------------------
(***************************************************************************)
(* The immobilizer record: the identity that is edited, the bytes carried  *)
(* through, the copy of the VIN behind it (None when the record is too     *)
(* short for one), and whether its two CRCs hold.                          *)
(***************************************************************************)
ImmoRecord(size, vin, fields, st_stat_fct, rest, vin_copy) ==
  [size |-> size, vin |-> vin, fields |-> fields, st_stat_fct |-> st_stat_fct, rest |-> rest,
   vin_copy |-> vin_copy, dat_stat_crc_ok |-> TRUE, dat_dat_crc_ok |-> TRUE]
Identity(r) == [vin |-> r.vin, fields |-> r.fields, st_stat_fct |-> r.st_stat_fct]

\* StStatFct: the firmware's four values, and anything else.
StStatFct == {"NotAdapted", "Adapted", "AdaptedHwSample", "Adaptation"}

\* A VIN that was never written, or holds other than printable characters.
Unprintable == "unprintable"

\* Defect: the copy that the boot loader reads is forgotten.
set_identity_stale(r, e) ==
  [r EXCEPT !.vin = e.vin, !.fields = e.fields, !.st_stat_fct = e.st_stat_fct]
set_identity(r, e) ==
  [r EXCEPT !.vin = e.vin, !.fields = e.fields, !.st_stat_fct = e.st_stat_fct,
            !.vin_copy = IF @ = None THEN None ELSE e.vin]

encode(r) == [r EXCEPT !.dat_stat_crc_ok = TRUE, !.dat_dat_crc_ok = TRUE]

\* Defect: a record counts without its datDat CRC.
readable_unchecked(image, c, keys) ==
  LET decoded(a) == IF a # None /\ a.content # Garbled THEN a.content ELSE None
  IN decoded(analyze_channel(image, c, keys))
\* ImmoRecord::decode of what analyze returned, if its datDat CRC holds.
readable(image, c, keys) ==
  LET valid(a) == a # None /\ a.content # Garbled /\ a.content.dat_dat_crc_ok
      decoded(a) == IF valid(a) THEN a.content ELSE None
  IN decoded(analyze_channel(image, c, keys))

ImmoChannelSurvey(image, keys) ==
  [c \in ImmoChannels |-> IF image = None THEN None ELSE readable(image, c, keys)]
valid_channels(survey) == {c \in ImmoChannels : survey[c] # None}
first_valid(survey) ==
  IF valid_channels(survey) = {} THEN None ELSE survey[Min(valid_channels(survey))]
dat_dat_bytes(r) == <<Identity(r), r.rest, r.dat_dat_crc_ok>>
disagreeing_channels(survey) ==
  {c \in valid_channels(survey) :
     dat_dat_bytes(survey[c]) # dat_dat_bytes(first_valid(survey))}
copies_agree(survey) == disagreeing_channels(survey) = {}
=============================================================================
