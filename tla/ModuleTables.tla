---------------------------- MODULE ModuleTables ----------------------------
(***************************************************************************)
(* The per-module configuration of mqb-modules: which blocks a control     *)
(* module has, where they lie in an assembled image, which of them carry   *)
(* a version, a box code or a checksum header, and the six policies of     *)
(* prepare.rs.  Offsets and lengths are the source's own numbers; keys,    *)
(* scripts and addresses are left out.                                     *)
(***************************************************************************)
EXTENDS Naturals, Sequences

CONSTANTS None

ASSUME NoneAssumption == None \notin Nat

\* A table keeps an entry for some block numbers; a lookup of another fails.
lookup(table, n) == IF n \in DOMAIN table THEN table[n] ELSE None

BLOCK_NAMES_SIMOS5 ==
    <<"CBOOT", "ASW1", "ASW2", "ASW3", "CAL">>

\* Simos8 and Simos10 have one ASW, so their CAL is block 3.
BLOCK_NAMES_SIMOS3 == <<"CBOOT", "ASW1", "CAL">>

\* What every Simos module shares: AES, compressed and padded to the cipher's
\* block, every block erased, checksums inside the blocks.
SimosFamily ==
    [names               |-> BLOCK_NAMES_SIMOS5,
     offsets             |-> <<114688, 262144, 1310720, 2621440, 2097152>>,
     lengths             |-> <<146944, 1047552, 785408, 523264, 523264>>,
     binfile_size        |-> 4194304,
     project_name        |-> "SC8",
     version             |-> 1..5,
     box_code            |-> {5},
     checksum_block_location |-> 1..6,
     crypto              |-> "Aes",
     patch_block_index   |-> None,
     checksum_kind       |-> "Simos",
     lzss10_odx          |-> FALSE,
     dynamic_block_length_offsets |-> {},
     compression_type    |-> 10,
     encryption_type     |-> 10,
     block_prep          |-> "LzssAesBlock",
     no_erase_max_block  |-> 0,
     uds_checksum_kind   |-> "Static",
     no_internal_checksum_blocks |-> {}]

S18_FLASH_INFO == [SimosFamily EXCEPT !.patch_block_index = 4]

\* Simos12 and Simos12.2 differ in their keys and their project alone.
S12_FLASH_INFO ==
    [SimosFamily EXCEPT
        !.offsets = <<131072, 786432, 1572864, 2359296, 262144>>,
        !.lengths = <<130560, 785408, 785408, 785408, 457728>>,
        !.project_name = "SC1"]

S122_FLASH_INFO == [S12_FLASH_INFO EXCEPT !.project_name = "SC2"]

S16_FLASH_INFO ==
    [SimosFamily EXCEPT !.offsets[1] = 131072, !.project_name = "SG1"]

S1810_FLASH_INFO ==
    [SimosFamily EXCEPT
        !.offsets = <<2097152, 131072, 1048576, 2883584, 2228224>>,
        !.lengths = <<130560, 916480, 1047552, 1309696, 654336>>,
        !.project_name = "SCG",
        !.patch_block_index = 2]

S184_FLASH_INFO == [S1810_FLASH_INFO EXCEPT !.project_name = "SCB"]

S10_FLASH_INFO ==
    [SimosFamily EXCEPT
        !.names = BLOCK_NAMES_SIMOS3,
        !.offsets = <<49152, 131072, 1835008>>,
        !.lengths = <<81408, 1702400, 245760>>,
        !.binfile_size = 2097152,
        !.project_name = "SA",
        !.version = 1..3,
        !.box_code = {3},
        !.checksum_block_location = {1, 2, 3, 6},
        !.crypto = "Xor"]

S8_FLASH_INFO ==
    [S10_FLASH_INFO EXCEPT
        !.offsets = <<131072, 524288, 262144>>,
        !.lengths = <<81408, 1572352, 245760>>,
        !.project_name = "S85"]

DQ250_FLASH_INFO ==
    [names               |-> [n \in 2..4 |-> <<"DRIVER", "ASW", "CAL">>[n - 1]],
     offsets             |-> [n \in 2..4 |-> <<0, 327680, 196608>>[n - 1]],
     lengths             |-> [n \in 2..4 |-> <<2062, 1245184, 131072>>[n - 1]],
     binfile_size        |-> 1572864,
     project_name        |-> "F",
     version             |-> {3, 4},
     box_code            |-> {4},
     checksum_block_location |-> {},
     crypto              |-> "Dsg",
     patch_block_index   |-> None,
     checksum_kind       |-> "Dsg",
     lzss10_odx          |-> TRUE,
     dynamic_block_length_offsets |-> {},
     compression_type    |-> 1,
     encryption_type     |-> 1,
     block_prep          |-> "LzssNone",
     no_erase_max_block  |-> 2,
     uds_checksum_kind   |-> "Static",
     no_internal_checksum_blocks |-> {2}]

DQ381_FLASH_INFO ==
    [names               |-> <<"BOOT", "ASW", "CAL">>,
     offsets             |-> <<66048, 197120, 1311232>>,
     lengths             |-> <<130560, 1113600, 261632>>,
     binfile_size        |-> 1572864,
     project_name        |-> "F",
     version             |-> {},
     box_code            |-> {},
     checksum_block_location |-> {},
     crypto              |-> "Aes",
     patch_block_index   |-> None,
     checksum_kind       |-> "Dq381",
     lzss10_odx          |-> FALSE,
     dynamic_block_length_offsets |-> {},
     compression_type    |-> 10,
     encryption_type     |-> 10,
     block_prep          |-> "LzssExact",
     no_erase_max_block  |-> 0,
     uds_checksum_kind   |-> "Crc32Be",
     no_internal_checksum_blocks |-> {}]

HALDEX_FLASH_INFO ==
    [names               |-> <<"DRIVER", "CAL", "ASW", "VERSION">>,
     offsets             |-> <<0, 46080, 65536, 318464>>,
     lengths             |-> <<1076, 13118, 252800, 14>>,
     binfile_size        |-> 327680,
     project_name        |-> "",
     version             |-> {2, 3, 4},
     box_code            |-> {2},
     checksum_block_location |-> 1..4,
     crypto              |-> "NoCrypto",
     patch_block_index   |-> None,
     checksum_kind       |-> "Haldex",
     lzss10_odx          |-> FALSE,
     dynamic_block_length_offsets |-> {2, 3, 4},
     compression_type    |-> 0,
     encryption_type     |-> 0,
     block_prep          |-> "Raw",
     no_erase_max_block  |-> 1,
     uds_checksum_kind   |-> "Crc32Be",
     no_internal_checksum_blocks |-> {1}]

\* The registry; an alias names the same table.
MODULES ==
    [simos18 |-> S18_FLASH_INFO, simos122 |-> S122_FLASH_INFO,
     simos1810 |-> S1810_FLASH_INFO, simos184 |-> S184_FLASH_INFO,
     simos16 |-> S16_FLASH_INFO, simos10 |-> S10_FLASH_INFO,
     simos8 |-> S8_FLASH_INFO, simos12 |-> S12_FLASH_INFO,
     dq250 |-> DQ250_FLASH_INFO, dq250mqb |-> DQ250_FLASH_INFO,
     dsg |-> DQ250_FLASH_INFO, dq381 |-> DQ381_FLASH_INFO,
     haldex |-> HALDEX_FLASH_INFO, haldex4motion |-> HALDEX_FLASH_INFO]

get_flash_info(name) == lookup(MODULES, name)

Blocks(fi) == DOMAIN fi.names

block_to_number(fi, name) ==
    IF \E n \in Blocks(fi) : fi.names[n] = name
    THEN CHOOSE n \in Blocks(fi) : fi.names[n] = name
    ELSE None

should_erase(fi, n) == n > fi.no_erase_max_block

has_internal_checksum(fi, n) == n \notin fi.no_internal_checksum_blocks
=============================================================================
