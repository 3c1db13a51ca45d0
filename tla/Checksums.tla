------------------------------ MODULE Checksums ------------------------------
(***************************************************************************)
(* The checksums inside the blocks: how each family computes and corrects  *)
(* them, the CBOOT patch, and the pass that does all of it before a flash. *)
(* A block is a short sequence of bytes: one cell for each field the code  *)
(* reads (version, stored checksum, area table, length, needle) and a few  *)
(* for the rest; the addresses an area table holds are the value of its    *)
(* cell looked up in AreaTable.                                            *)
(***************************************************************************)
EXTENDS Bytes, ModuleTables, Integers, FiniteSets, FiniteSetsExt, SequencesExt

CONSTANTS
    AreaTable,      \* what an area cell says: a sequence of <<start, end>>
    BoxCodes        \* the ECM3 range of a CAL version, where the table has one

ASSUME TablesAssumption ==
    /\ \A v \in Byte : AreaTable[v] \in Seq(Int \X Int) /\ AreaTable[v] # <<>>
    /\ \A v \in DOMAIN BoxCodes : BoxCodes[v] \in Nat \X Nat /\ BoxCodes[v] # None

(***************************************************************************)
(* Cells.                                                                  *)
(***************************************************************************)
VersionCell == 1
DynamicLengthCell == 2
NEEDLE == 218
PATCH == 0
\* Versions whose prefix is the module's project.
OwnVersions == {83, 84}

\* The checksum header of a block; CBOOT carries a second one, numbered 6.
Header(n) == IF n = 6 THEN [stored |-> 5, areas |-> 6] ELSE [stored |-> 2, areas |-> 3]

Ecm3Seed == 4
ECM3_CAL_MONITOR_CHECKSUM == 5
AlternateChecksum == 7

(***************************************************************************)
(* The sums.  A CRC is any hash that depends on every byte and its place.  *)
(***************************************************************************)
Crc(start, bytes) ==
    LET crc[i \in 0..Len(bytes)] ==
            IF i = 0 THEN start ELSE (3 * crc[i - 1] + bytes[i]) % 256
    IN  crc[Len(bytes)]

Failed(data) == [state |-> "Failed", data |-> data]

\* The stored value compared with the calculated one and, where it differs,
\* corrected: every caller asks for the correction.
Settle(data, cell, value) ==
    IF data[cell] = value
    THEN [state |-> "Valid", data |-> data]
    ELSE [state |-> "Fixed", data |-> [data EXCEPT ![cell] = value]]

\* Areas are inclusive; the CRC runs on from one area into the next.
validate_simos(fi, data, n) ==
    LET h == Header(n)
        areas == AreaTable[data[h.areas]]
        sound == \A a \in Range(areas) : a[1] >= 1 /\ a[2] <= Len(data)
        covered == FlattenSeq([i \in 1..Len(areas) |->
                                 SubSeq(data, areas[i][1], areas[i][2])])
    IN  IF n \notin fi.checksum_block_location \/ h.areas > Len(data) THEN Failed(data)
        ELSE IF ~sound THEN Failed(data)
        ELSE Settle(data, h.stored, Crc(0, covered))

Both(s1, s2) ==
    CASE "Failed" \in {s1, s2} -> "Failed"
      [] s1 = "Valid" /\ s2 = "Valid" -> "Valid"
      [] OTHER -> "Fixed"

validate_simos_block(fi, data, n) ==
    LET first == validate_simos(fi, data, n)
        second == validate_simos(fi, first.data, 6)
    IN  IF block_to_number(fi, "CBOOT") = n /\ 6 \in fi.checksum_block_location
        THEN [state |-> Both(first.state, second.state), data |-> second.data]
        ELSE first

\* The JAMCRC over everything but the last field, which holds it.
validate_dsg(data) ==
    IF Len(data) < 1 THEN Failed(data)
    ELSE Settle(data, Len(data), 255 - Crc(255, SubSeq(data, 1, Len(data) - 1)))

validate_dq381(data) ==
    LET range == AreaTable[data[Header(1).areas]][1]
    IN  IF Len(data) < Header(1).areas THEN Failed(data)
        ELSE IF range[1] < 1 \/ range[2] < range[1] \/ range[2] > Len(data) THEN Failed(data)
        ELSE Settle(data, Header(1).stored, Crc(255, SubSeq(data, range[1], range[2])))

\* The header, the length in it included, is left out of the sum.
validate_haldex(fi, data, n) ==
    IF n = 1 THEN [state |-> "Valid", data |-> data]
    ELSE IF n \notin fi.checksum_block_location \/ Len(data) < 2 THEN Failed(data)
    ELSE Settle(data, 1, 255 - (SumOf(SubSeq(data, 3, Len(data))) % 256))

validate_block(fi, data, n) ==
    CASE fi.checksum_kind = "Simos"  -> validate_simos_block(fi, data, n)
      [] fi.checksum_kind = "Dq381"  -> validate_dq381(data)
      [] fi.checksum_kind = "Dsg"    -> validate_dsg(data)
      [] fi.checksum_kind = "Haldex" -> validate_haldex(fi, data, n)

(***************************************************************************)
(* ECM3: a double word, high cell first, added up from a seed.  It is      *)
(* stored in the alternate place where that place already holds something. *)
(***************************************************************************)
load_ecm3_location(fi, cal) ==
    IF block_to_number(fi, "CAL") \in fi.version
    THEN lookup(BoxCodes, cal[VersionCell]) ELSE None

validate_ecm3(range, cal) ==
    LET total == cal[Ecm3Seed] * 256 + SumOf(SubSeq(cal, range[1], range[2]))
        cell == IF cal[AlternateChecksum] > 0
                THEN AlternateChecksum ELSE ECM3_CAL_MONITOR_CHECKSUM
        sum == <<(total \div 256) % 256, total % 256>>
    IN  IF Len(cal) < AlternateChecksum + 1 \/ range[2] > Len(cal) THEN Failed(cal)
        ELSE IF <<cal[cell], cal[cell + 1]>> = sum
             THEN [state |-> "Valid", data |-> cal]
             ELSE [state |-> "Fixed",
                   data |-> [cal EXCEPT ![cell] = sum[1], ![cell + 1] = sum[2]]]

fix_ecm3(fi, blocks) ==
    LET n == block_to_number(fi, "CAL")
    IN  IF n \notin DOMAIN blocks THEN blocks
        ELSE LET range == load_ecm3_location(fi, blocks[n])
             IN  IF range = None THEN blocks
                 ELSE [blocks EXCEPT ![n] = validate_ecm3(range, blocks[n]).data]

(***************************************************************************)
(* The patch, and the pass.                                                *)
(***************************************************************************)
Patchable(data) == Cardinality({i \in DOMAIN data : data[i] = NEEDLE}) = 2

patch_cboot(data) == [i \in DOMAIN data |-> IF data[i] = NEEDLE THEN PATCH ELSE data[i]]

\* The blocks, the patch applied, each with its own checksum corrected; a
\* block without one is left as it is.
PerBlock(fi, blocks) ==
    [n \in DOMAIN blocks |->
        IF n <= 5 /\ has_internal_checksum(fi, n)
        THEN validate_block(fi, blocks[n], n) ELSE [state |-> "Valid", data |-> blocks[n]]]

\* Defect: the per-block checksums before ECM3 and before the patch.
checksum_blocks_first(fi, blocks, patch) ==
    LET settled == PerBlock(fi, blocks)
        data == [n \in DOMAIN settled |-> settled[n].data]
        seen == IF fi.checksum_kind = "Simos" THEN fix_ecm3(fi, data) ELSE data
        cboot == block_to_number(fi, "CBOOT")
        patchable == cboot \in DOMAIN seen /\ Patchable(seen[cboot])
    IN  [ok |-> (patch => patchable)
                /\ \A n \in DOMAIN settled : settled[n].state # "Failed",
         blocks |-> IF patch /\ patchable
                    THEN [seen EXCEPT ![cboot] = patch_cboot(seen[cboot])] ELSE seen]

checksum_and_patch_blocks(fi, blocks, patch) ==
    LET cboot == block_to_number(fi, "CBOOT")
        patchable(seen) == cboot \in DOMAIN seen /\ Patchable(seen[cboot])
        patched(seen) == IF patch /\ patchable(seen)
                         THEN [seen EXCEPT ![cboot] = patch_cboot(seen[cboot])] ELSE seen
        outcome(seen, settled) ==
            [ok |-> (patch => patchable(seen))
                    /\ \A n \in DOMAIN settled : settled[n].state # "Failed",
             blocks |-> [n \in DOMAIN settled |-> settled[n].data]]
        pass(seen) == outcome(seen, PerBlock(fi, patched(seen)))
    IN  pass(IF fi.checksum_kind = "Simos" THEN fix_ecm3(fi, blocks) ELSE blocks)

(***************************************************************************)
(* What the control module checks of a block it has unpacked (external):   *)
(* the same sums, nothing left to correct.  A range that does not lie in   *)
(* the CAL is not where the module looks for the ECM3 sum.                 *)
(***************************************************************************)
Ecm3Holds(fi, data, n) ==
    LET range == load_ecm3_location(fi, data)
    IN  (fi.checksum_kind = "Simos" /\ n = block_to_number(fi, "CAL") /\ range # None)
        => validate_ecm3(range, data).state # "Fixed"

ModuleAccepts(fi, data, n) ==
    has_internal_checksum(fi, n) =>
        validate_block(fi, data, n).state = "Valid" /\ Ecm3Holds(fi, data, n)
=============================================================================
