------------------------------ MODULE FlashFile ------------------------------
(***************************************************************************)
(* The file commands of mqb-flash-cli and what they leave on the disk: an  *)
(* assembled image, the block files split from it or extracted from a      *)
(* vendor's container, and the prepared blocks a flash puts on the wire.   *)
(* A user edits files between the commands.  An image is the sequence of   *)
(* its blocks' cells, in the order of their real offsets; where the real   *)
(* regions of two blocks overlap, they share cells here too, and what lies *)
(* between two regions is left out.                                        *)
(***************************************************************************)
EXTENDS BlockCodec

CONSTANTS
    Modules,        \* the modules of this instance, names of MODULES
    Vendor,         \* the vendor's blocks of each of them
    TuneValues,     \* what an edit may write
    MaxMishaps,     \* how many edits and failed writes there are
    Slack,          \* by how much a region exceeds a block of stated length,
                    \* and an image that has room behind its blocks the last one
    Shared          \* how many cells two overlapping regions share

ASSUME BoundsAssumption ==
    MaxMishaps \in Nat /\ {Slack, Shared} \subseteq Nat /\ TuneValues \subseteq Byte

\* What a vendor builds: blocks of bytes whose length fits in the cell that may
\* state it, of the module's own version, with all of their checksums right.
\* The old compression has no escape for its signifier.
ASSUME VendorAssumption ==
    \A m \in Modules :
        /\ m \in DOMAIN MODULES
        /\ DOMAIN Vendor[m] = Blocks(MODULES[m])
        /\ \A n \in Blocks(MODULES[m]) :
              LET data == Vendor[m][n]
                  info == MODULES[m]
              IN  /\ data \in Seq(Byte) /\ Len(data) \in 3..255 /\ Shared <= Len(data)
                  /\ info.project_name # "" /\ n \in info.version => data[VersionCell] \in OwnVersions
                  /\ n \in info.dynamic_block_length_offsets =>
                        data[DynamicLengthCell] \in {0, Len(data)}
                  /\ info.crypto = "Xor" => \A i \in DOMAIN data : data[i] # 254
                  /\ ModuleAccepts(info, data, n)

\* No checksum is computed over itself or over another one that is corrected
\* after it: an area table that fits in a block covers none of the block's
\* stored CRCs, and the ECM3 range lies behind both places of its sum.  Not
\* every range of box_codes.csv ends inside the CAL.
ASSUME LayoutAssumption ==
    \A m \in Modules :
        LET info == MODULES[m]
            cboot == block_to_number(info, "CBOOT")
            cal == block_to_number(info, "CAL")
            length(n) == Len(Vendor[m][n])
            Fits(a, n) == a[1] >= 1 /\ a[2] <= length(n)
            stored(n) == IF n = cboot THEN {Header(1).stored, Header(6).stored}
                         ELSE {Header(1).stored}
            Clear(a, n) == stored(n) \intersect (a[1]..a[2]) = {}
        IN  /\ info.checksum_kind = "Simos" =>
                  /\ \A n \in Blocks(info), v \in Byte :
                        (\A a \in Range(AreaTable[v]) : Fits(a, n)) =>
                            \A a \in Range(AreaTable[v]) : Clear(a, n)
                  /\ cal \in info.version => \A v \in DOMAIN BoxCodes :
                        BoxCodes[v][1] \in AlternateChecksum + 2..BoxCodes[v][2]
            /\ info.checksum_kind = "Dq381" =>
                  \A n \in Blocks(info), v \in Byte :
                      Fits(AreaTable[v][1], n) => Clear(AreaTable[v][1], n)

VARIABLES
    mod,        \* --module
    fi,         \* its flash info
    container,  \* the vendor's file: what is wrong with it
    bin,        \* the assembled image
    files,      \* the block files, by the command that wrote them
    mishaps,    \* how often one of them was edited or not written
    wire        \* the flash under way: what it was given and what it sends

vars == <<mod, fi, container, bin, files, mishaps, wire>>

Tools == {"split", "odx"}
NoImage == <<>>
Idle == [cmd |-> "none", patch |-> FALSE, given |-> <<>>, sent |-> <<>>]

(***************************************************************************)
(* Splitting and combining.                                                *)
(***************************************************************************)
static_length(n) ==
    Len(Vendor[mod][n]) + (IF n \in fi.dynamic_block_length_offsets THEN Slack ELSE 0)

End(n) == fi.offsets[n] + fi.lengths[n]

Before(m, n) == fi.offsets[m] < fi.offsets[n]

\* The region of m reaches over the start of the next one.
Overlaps(m) == \E n \in Blocks(fi) : Before(m, n) /\ fi.offsets[n] < End(m)

\* The cells of a region that it does not share with the next one.
OwnCells(m) == static_length(m) - (IF Overlaps(m) THEN Shared ELSE 0)

binfile_offset(n) ==
    SumOf([m \in 1..5 |-> IF m \in Blocks(fi) /\ Before(m, n) THEN OwnCells(m) ELSE 0])

\* So much of a file as begins where the block n does.
From(image, n, length) == SubSeq(image, binfile_offset(n) + 1, binfile_offset(n) + length)

Region(image, n) == From(image, n, static_length(n))

Inside(image, n, length) == binfile_offset(n) + length <= Len(image)

\* A module with dynamic lengths states the length of a block in the block.
\* What is stated counts where the file is as long as that, over the end of
\* the block's own region or not; zero means that nothing is stated.
resolve_block_length(image, n) ==
    LET stated == IF n \in fi.dynamic_block_length_offsets /\ Inside(image, n, DynamicLengthCell)
                  THEN image[binfile_offset(n) + DynamicLengthCell] ELSE 0
    IN  IF stated > 0 /\ Inside(image, n, stated) THEN stated ELSE static_length(n)

Cut(image, n) == From(image, n, resolve_block_length(image, n))

\* Defect: a block without a version is discarded too.
kept_with_version(n, data) == fi.project_name # "" => data[VersionCell] \in OwnVersions

\* A block of another project's version is discarded, with a warning.
Kept(n, data) ==
    (fi.project_name # "" /\ n \in fi.version) => data[VersionCell] \in OwnVersions

blocks_from_bytes(image) ==
    LET there(n) == Inside(image, n, resolve_block_length(image, n)) /\ Kept(n, Cut(image, n))
    IN  [n \in {m \in Blocks(fi) : there(m)} |-> Cut(image, n)]

\* Defect: inserted, where it should overwrite.
over_inserts(data, bytes, at) ==
    SubSeq(bytes, 1, at) \o data \o SubSeq(bytes, at + 1, Len(bytes))

Over(data, bytes, at) ==
    [i \in DOMAIN bytes |-> IF i - at \in DOMAIN data THEN data[i - at] ELSE bytes[i]]

\* Blocks are written in the order of a hash map; where two share cells, the
\* last one stays.  Up and down are all the orders one overlap can tell apart.
Orders == {<<1, 2, 3, 4, 5>>, <<5, 4, 3, 2, 1>>}

Written(bytes, blocks, order) ==
    LET after[i \in 0..Len(order)] ==
            IF i = 0 THEN bytes
            ELSE IF order[i] \in DOMAIN blocks
            THEN Over(blocks[order[i]], after[i - 1], binfile_offset(order[i]))
            ELSE after[i - 1]
    IN  after[Len(order)]

Room == IF \E n \in Blocks(fi) : End(n) = fi.binfile_size THEN 0 ELSE Slack

ImageLength == Max({binfile_offset(n) + static_length(n) : n \in Blocks(fi)}) + Room

bin_from_blocks(blocks, order) == Written(Zeros(ImageLength), blocks, order)

\* Defect: blocks without a checksum of their own are corrected as well.
checksum_all(image, patch, order) ==
    LET blocks == blocks_from_bytes(image)
        fixed == [n \in DOMAIN blocks |-> validate_block(fi, blocks[n], n)]
    IN  [ok |-> ~patch /\ \A n \in DOMAIN fixed : fixed[n].state # "Failed",
         image |-> Written(image, [n \in DOMAIN fixed |-> fixed[n].data], order)]

\* The image after `checksum`: the patch first, then every kept block by
\* itself, and nothing written where one of them fails.
cmd_checksum(image, patch, order) ==
    LET cboot == block_to_number(fi, "CBOOT")
        patchable == /\ cboot \in Blocks(fi)
                     /\ Inside(image, cboot, static_length(cboot))
                     /\ Patchable(Region(image, cboot))
        patched == IF patch /\ patchable
                   THEN Over(patch_cboot(Region(image, cboot)), image, binfile_offset(cboot))
                   ELSE image
        fixed(checked) ==
            [n \in {m \in DOMAIN checked : checked[m].state = "Fixed"} |-> checked[n].data]
        outcome(checked) ==
            [ok |-> (patch => patchable) /\ \A n \in DOMAIN checked : checked[n].state # "Failed",
             image |-> Written(patched, fixed(checked), order)]
    IN  outcome(PerBlock(fi, blocks_from_bytes(patched)))

(***************************************************************************)
(* The containers: an ODX, alone or in an FRF.                             *)
(***************************************************************************)
Containers == {"sound", "sizeless", "empty", "sgo"}

Odx ==
    {IF container = "empty" THEN EraseElement(n)
     ELSE [VendorElement(fi, n, Vendor[mod][n]) EXCEPT
             !.size = IF container = "sizeless" THEN None ELSE @] : n \in Blocks(fi)}

\* The FRF of an old module holds no ODX at all.
load_raw_blocks(source) ==
    CASE source = "bin" -> [ok |-> bin # NoImage, blocks |-> blocks_from_bytes(bin)]
      [] source \in {"odx", "frf"} -> IF container = "sgo" THEN [ok |-> FALSE, blocks |-> <<>>]
                           ELSE extract_odx(fi, Odx)

(***************************************************************************)
(* The commands.                                                           *)
(***************************************************************************)
Init ==
    /\ mod \in Modules /\ fi = get_flash_info(mod)
    /\ container \in Containers
    /\ bin = NoImage
    /\ files = [t \in Tools |-> <<>>]
    /\ mishaps = 0
    /\ wire = Idle

\* Files written over those of the same name that were there.
Replacing(new, there) ==
    [n \in DOMAIN new \union DOMAIN there |-> IF n \in DOMAIN new THEN new[n] ELSE there[n]]

Only(n, data) == [m \in {n} |-> data]

\* One command at a time; only the flashing ones take a while.
Ready == wire = Idle

ExtractFrf ==
    /\ Ready
    /\ \E raw \in {load_raw_blocks("frf")}, order \in Orders :
          /\ raw.ok /\ raw.blocks # <<>>
          /\ bin' = bin_from_blocks(raw.blocks, order)
    /\ UNCHANGED <<mod, fi, container, files, mishaps, wire>>

ExtractOdx ==
    /\ Ready
    /\ container # "sgo"
    /\ \E raw \in {extract_odx(fi, Odx)} :
          raw.ok /\ files' = [files EXCEPT !["odx"] = Replacing(raw.blocks, @)]
    /\ UNCHANGED <<mod, fi, container, bin, mishaps, wire>>

Without(blocks, n) == [m \in DOMAIN blocks \ {n} |-> blocks[m]]

\* One file after the other, in the order of a hash map: an error leaves the later ones as they were.
SplitBin ==
    /\ Ready
    /\ bin # NoImage
    /\ \E blocks \in {blocks_from_bytes(bin)} :
          \/ /\ files' = [files EXCEPT !["split"] = Replacing(blocks, @)]
             /\ UNCHANGED mishaps
          \/ /\ mishaps < MaxMishaps
             /\ mishaps' = mishaps + 1
             /\ \E n \in DOMAIN blocks :
                   files' = [files EXCEPT !["split"] = Replacing(Without(blocks, n), @)]
    /\ UNCHANGED <<mod, fi, container, bin, wire>>

\* What the block arguments of a flash come to: all files of a command,
\* the calibration alone, or all with one overridden by another name of its
\* block.
Arguments ==
    LET cal == block_to_number(fi, "CAL")
    IN  {files[t] : t \in Tools}
            \union {Only(cal, files["split"][n]) : n \in DOMAIN files["split"] \intersect {cal}}
            \union {Replacing(Only(n, files["odx"][n]), files["split"]) : n \in DOMAIN files["odx"]}

CombineBin ==
    /\ Ready
    /\ \E t \in Tools, order \in Orders :
          /\ files[t] # <<>>
          /\ bin' = bin_from_blocks(files[t], order)
    /\ UNCHANGED <<mod, fi, container, files, mishaps, wire>>

Checksum ==
    /\ Ready
    /\ bin # NoImage
    /\ \E patch \in BOOLEAN, order \in Orders :
          \E c \in {cmd_checksum(bin, patch, order)} : c.ok /\ bin' = c.image
    /\ UNCHANGED <<mod, fi, container, files, mishaps, wire>>

InOrder(blocks) ==
    FlattenSeq([n \in 1..5 |->
        IF n \in DOMAIN blocks
        THEN <<prepare_block(fi, n, static_length(n), blocks[n])>> ELSE <<>>])

\* Everything is corrected before anything is prepared; a block that cannot
\* be corrected keeps the flash from starting.
Flash ==
    /\ Ready
    /\ \E raw \in Arguments \ {<<>>}, patch \in BOOLEAN :
          \E fixed \in {checksum_and_patch_blocks(fi, raw, patch)} :
              /\ fixed.ok
              /\ wire' = [cmd |-> "flash", patch |-> patch, given |-> raw,
                          sent |-> InOrder(fixed.blocks)]
    /\ UNCHANGED <<mod, fi, container, bin, files, mishaps>>

BoxCodeCell == 9
RequiredBoxCode == 72

\* The blocks as they are in the file, the patch between ASW3 and CAL.
Unlock ==
    /\ Ready
    /\ fi.patch_block_index # None
    /\ \E source \in {"bin", "odx", "frf"} :
          \E raw \in {load_raw_blocks(source)} :
              LET target == fi.patch_block_index
                  patch == prepare_patch_block(fi, target + 5, static_length(target))
              IN  /\ raw.ok
                  /\ 1..5 \subseteq DOMAIN raw.blocks
                  /\ raw.blocks[5][BoxCodeCell] = RequiredBoxCode
                  /\ wire' = [cmd |-> "unlock", patch |-> FALSE, given |-> raw.blocks,
                              sent |-> InOrder([n \in 1..4 |-> raw.blocks[n]])
                                       \o <<patch>> \o InOrder(Only(5, raw.blocks[5]))]
    /\ UNCHANGED <<mod, fi, container, bin, files, mishaps>>

FlashEnds ==
    /\ ~Ready
    /\ wire' = Idle
    /\ UNCHANGED <<mod, fi, container, bin, files, mishaps>>

(***************************************************************************)
(* The user (external): a byte of the image or of a block file edited, the *)
(* stated length of a block among them, or the image cut short.            *)
(***************************************************************************)
Editable(n, length) ==
    (IF n = block_to_number(fi, "CAL") THEN {VersionCell, length - 1}
     ELSE IF n = block_to_number(fi, "CBOOT") \/ ~has_internal_checksum(fi, n) THEN {length}
     ELSE {})
        \union (IF n \in fi.dynamic_block_length_offsets THEN {DynamicLengthCell} ELSE {})

Edit ==
    /\ Ready
    /\ mishaps < MaxMishaps
    /\ mishaps' = mishaps + 1
    /\ UNCHANGED <<mod, fi, container, wire>>

TuneFile ==
    /\ Edit
    /\ \E n \in DOMAIN files["split"] :
          \E cell \in Editable(n, Len(files["split"][n])), v \in TuneValues :
              /\ cell \in DOMAIN files["split"][n]
              /\ files' = [files EXCEPT !["split"][n][cell] = v]
    /\ UNCHANGED bin

TuneImage ==
    /\ Edit
    /\ bin # NoImage
    /\ \E n \in Blocks(fi) :
          \E cell \in Editable(n, static_length(n)) \union {Header(1).areas}, v \in TuneValues :
              /\ binfile_offset(n) + cell \in DOMAIN bin
              /\ bin' = [bin EXCEPT ![binfile_offset(n) + cell] = v]
    /\ UNCHANGED files

CutImage ==
    /\ Edit
    /\ bin # NoImage
    /\ \E k \in {Len(bin) \div 2, Len(bin) - 1} \ {0} : bin' = SubSeq(bin, 1, k)
    /\ UNCHANGED files

Next ==
    \/ ExtractFrf \/ ExtractOdx \/ SplitBin \/ CombineBin
    \/ Checksum \/ Flash \/ Unlock \/ FlashEnds
    \/ TuneFile \/ TuneImage \/ CutImage

Spec == Init /\ [][Next]_vars

-----------------------------------------------------------------------------

\* Type invariant: an image that nobody cut is as long as its layout through
\* every combining and correcting; a block file is exactly as long as its
\* region, or, where the block states its length, ends inside of an image, if
\* not always inside of its region (resolve_block_length); a flash sends its
\* blocks in ascending order.
TypeOK ==
    /\ mod \in Modules
    /\ container \in Containers
    /\ mishaps \in 0..MaxMishaps
    /\ bin \in Seq(Byte) /\ Len(bin) <= ImageLength
    /\ bin = NoImage \/ Len(bin) = ImageLength \/ mishaps > 0
    /\ \A t \in Tools :
          /\ DOMAIN files[t] \subseteq Blocks(fi)
          /\ \A n \in DOMAIN files[t] :
                /\ files[t][n] \in Seq(Byte) \ {<<>>}
                /\ Len(files[t][n]) = static_length(n)
                   \/ /\ n \in fi.dynamic_block_length_offsets
                      /\ binfile_offset(n) + Len(files[t][n]) <= ImageLength
    /\ \A i, j \in DOMAIN wire.sent :
          /\ wire.cmd = "flash" /\ i < j
          => wire.sent[i].block_number < wire.sent[j].block_number

\* The block that a prepared block was made of.
Received(prepared) == Unpacking(fi, prepared)

\* The correction of an alternate ECM3 sum may write a zero where the flag of
\* the alternate place is; the sum is then looked for in the other place.
FlagLost(data) ==
    LET range == load_ecm3_location(fi, data)
    IN  /\ fi.checksum_kind = "Simos" /\ range # None
        /\ wire.given[block_to_number(fi, "CAL")][AlternateChecksum] > 0
        /\ data[AlternateChecksum] = 0

\* What a flash sends is what the control module will accept: each block
\* unpacks to the length that was announced, the checksums inside it hold, the
\* ECM3 sum under the block's CRC included, and the CRC that is sent with it is
\* that of the corrected bytes.  The order of checksum_and_patch_blocks, and
\* preparing strictly after it, are there for nothing else.  Of the ECM3 sum
\* this says nothing where box_codes.csv has no range inside the CAL: fix_ecm3
\* goes on without it then.
SentPassesChecks ==
    wire.cmd = "flash" =>
        \A i \in DOMAIN wire.sent :
            LET p == wire.sent[i]
                data == Received(p)
                n == p.block_number
            IN  /\ Len(data) = p.announced_length
                /\ has_internal_checksum(fi, n) => validate_block(fi, data, n).state = "Valid"
                /\ Ecm3Holds(fi, data, n) \/ (n = block_to_number(fi, "CAL") /\ FlagLost(data))
                /\ fi.uds_checksum_kind = "Crc32Be" => p.uds_checksum = Crc(255, data)

\* The places of a block that correcting its checksums may write.
ChecksumCells(n, data) ==
    IF n \in fi.no_internal_checksum_blocks THEN {}
    ELSE CASE fi.checksum_kind = "Simos" ->
                  {Header(1).stored}
                      \union (IF n = block_to_number(fi, "CBOOT") THEN {Header(6).stored} ELSE {})
                      \union (IF n = block_to_number(fi, "CAL")
                              THEN {ECM3_CAL_MONITOR_CHECKSUM, ECM3_CAL_MONITOR_CHECKSUM + 1,
                                    AlternateChecksum, AlternateChecksum + 1} ELSE {})
           [] fi.checksum_kind = "Dq381"  -> {Header(1).stored}
           [] fi.checksum_kind = "Haldex" -> {1}
           [] fi.checksum_kind = "Dsg"    -> {Len(data)}

\* Nothing but checksums and, where asked for, the patch differs between a
\* block file and what the control module unpacks: a block that carries no
\* checksum of its own (the DRIVER of the DQ250 and the Haldex) arrives byte
\* for byte, and `unlock` sends every block as it was in the firmware file.
OnlyChecksumsChange ==
    \A i \in DOMAIN wire.sent :
        LET n == wire.sent[i].block_number
            data == Received(wire.sent[i])
            given == wire.given[n]
        IN  n <= 5 =>
              \A c \in DOMAIN given :
                  \/ data[c] = given[c]
                  \/ wire.cmd = "flash" /\ c \in ChecksumCells(n, given)
                  \/ wire.patch /\ n = block_to_number(fi, "CBOOT") /\ given[c] = NEEDLE

\* Correcting and encoding a block does what the control module needs, and no
\* more (checksum_and_patch_blocks, compress_and_encrypt).
PreparedExactly == SentPassesChecks /\ OnlyChecksumsChange

\* No block of the image states a length that reaches over its region.
Apart(image) ==
    \A n \in Blocks(fi) : resolve_block_length(image, n) <= static_length(n)

\* The documented way, `checksum`, `split-bin`, `flash`, comes to the same as
\* splitting and flashing at once: `checksum` has an own pass over the blocks,
\* without ECM3, and may neither damage a block nor keep one from being
\* corrected later.  That is so as long as no block reaches into another one;
\* else correcting the one changes the other.
WorkflowAgrees ==
    Ready /\ bin # NoImage /\ Apart(bin) =>
        \A patch \in BOOLEAN, order \in Orders :
            \A c \in {cmd_checksum(bin, patch, order)} :
                c.ok => checksum_and_patch_blocks(fi, blocks_from_bytes(c.image), FALSE)
                          = checksum_and_patch_blocks(fi, blocks_from_bytes(bin), patch)

\* An image assembled from a sound FRF holds every block of it, with all of
\* the checksums right: extracting decrypts, decompresses and places them.
ExtractedIsSound ==
    [][\A blocks \in {blocks_from_bytes(bin')} :
          ExtractFrf /\ container = "sound" =>
              /\ DOMAIN blocks = Blocks(fi)
              /\ \A n \in DOMAIN blocks : ModuleAccepts(fi, blocks[n], n)]_vars
=============================================================================
