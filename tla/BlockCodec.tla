------------------------------ MODULE BlockCodec ------------------------------
(***************************************************************************)
(* From the bytes of a block to what goes on the wire and back: the        *)
(* ciphers, the preparation of prepare.rs, the unpacking by the control    *)
(* module (external), and the vendor's containers.                         *)
(***************************************************************************)
EXTENDS Checksums, Lzss

CONSTANTS PATCH_BYTES       \* the payload of the unlock patch

ASSUME PatchAssumption == PATCH_BYTES \in Seq(Byte)

(***************************************************************************)
(* The ciphers.  AES (external) fills up the last block with zeros; any    *)
(* bijection of the bytes stands for it.                                   *)
(***************************************************************************)
AesEncrypt(data) ==
    LET padded == data \o Zeros((16 - (Len(data) % 16)) % 16)
    IN  [i \in DOMAIN padded |-> (padded[i] + 85) % 256]

AesDecrypt(data) == [i \in DOMAIN data |-> (data[i] + 171) % 256]

Xor(a, b) ==
    SumOf([k \in 1..8 |->
              PlaceValue[k] * ((a \div PlaceValue[k] + b \div PlaceValue[k]) % 2)])

\* Each byte with its own position, so that it undoes itself.
SimosXor(data) == [i \in DOMAIN data |-> Xor(data[i], (i - 1) % 256)]

\* A permutation of the bytes stands for the key; the place looked up in it
\* rolls on with the plaintext of the last two bytes and a counter.
DSG_KEY == [i \in 0..255 |-> (5 * i + 3) % 256]
DSG_INV == [p \in 0..255 |-> CHOOSE i \in 0..255 : DSG_KEY[i] = p]

DsgRoll(s, i, plain) ==
    [offset |-> (s.offset + plain + s.last + DSG_KEY[((i * 359) \div 256) % 256]) % 256,
     last |-> plain]

DsgStart == [offset |-> 0, last |-> 0]

DsgEncrypt(data) ==
    LET roll[i \in 0..Len(data)] ==
            IF i = 0 THEN DsgStart ELSE DsgRoll(roll[i - 1], i, data[i])
    IN  [i \in DOMAIN data |-> (DSG_INV[data[i]] - roll[i - 1].offset) % 256]

DsgDecrypt(data) ==
    LET plain(s, i) == DSG_KEY[(data[i] + s.offset) % 256]
        roll[i \in 0..Len(data)] ==
            IF i = 0 THEN DsgStart
            ELSE LET s == roll[i - 1] IN DsgRoll(s, i, plain(s, i))
    IN  [i \in DOMAIN data |-> plain(roll[i - 1], i)]

\* The same sequence; TLC computes its elements once and not at every use.
Evaluated(s) == SubSeq(s, 1, Len(s))

encrypt(crypto, data) ==
    Evaluated(CASE crypto = "Aes"      -> AesEncrypt(data)
                [] crypto = "Xor"      -> SimosXor(data)
                [] crypto = "Dsg"      -> DsgEncrypt(data)
                [] crypto = "NoCrypto" -> data)

decrypt(crypto, data) ==
    Evaluated(CASE crypto = "Aes"      -> AesDecrypt(data)
                [] crypto = "Xor"      -> SimosXor(data)
                [] crypto = "Dsg"      -> DsgDecrypt(data)
                [] crypto = "NoCrypto" -> data)

(***************************************************************************)
(* Preparing a block.  static_length is the length of the module's table,  *)
(* which counts unless the module's blocks state their own.                *)
(***************************************************************************)
compress_and_encrypt(fi, data) ==
    encrypt(fi.crypto,
            CASE fi.block_prep = "LzssAesBlock" -> encode(data, "AesBlock")
              [] fi.block_prep = "LzssNone"     -> encode(data, "None")
              [] fi.block_prep = "LzssExact"    -> encode(data, "Exact")
              [] fi.block_prep = "Raw"          -> data)

announced_length(fi, static_length, data) ==
    IF fi.dynamic_block_length_offsets = {} THEN static_length ELSE Len(data)

prepare_block(fi, n, static_length, data) ==
    [block_number     |-> n,
     bytes            |-> compress_and_encrypt(fi, data),
     compression_type |-> fi.compression_type,
     should_erase     |-> should_erase(fi, n),
     uds_checksum     |-> IF fi.uds_checksum_kind = "Crc32Be" THEN Crc(255, data) ELSE 0,
     announced_length |-> announced_length(fi, static_length, data)]

\* A patch is encrypted and nothing else; what is announced is the length of
\* the block it goes over.
prepare_patch_block(fi, n, static_length) ==
    [block_number     |-> n,
     bytes            |-> encrypt(fi.crypto, PATCH_BYTES),
     compression_type |-> 0,
     should_erase     |-> FALSE,
     uds_checksum     |-> 0,
     announced_length |-> static_length]

\* The control module unpacks by what it was told (external): as much as was
\* announced of the decrypted and decompressed bytes, from the window that the
\* encoder starts with.
Unpacking(fi, prepared) ==
    LET plain == decrypt(fi.crypto, prepared.bytes)
        data == IF prepared.compression_type = 0 THEN plain ELSE decode_from(EncoderFill, plain)
    IN  SubSeq(data, 1, LeastOf(prepared.announced_length, Len(data)))

(***************************************************************************)
(* The vendor's container: FLASHDATA elements, each with the method its    *)
(* bytes are compressed by, and the size the DATABLOCK states.  The vendor *)
(* (external) writes literals, and marks an erase block with one byte.     *)
(***************************************************************************)
VendorLzss(data) ==
    [p \in 1..(Len(data) + (Len(data) + 7) \div 8) |->
        IF p % 9 = 1 THEN 0 ELSE data[p - ((p + 8) \div 9)]]

\* The first bytes as literals, with a reference where three of them recur.
VendorLegacy(data) ==
    LET again == Len(data) >= 7 /\ SubSeq(data, 4, 6) = SubSeq(data, 1, 3)
        tokens == IF again
                  THEN SubSeq(data, 1, 3) \o <<254, 0, 3 * 16 + 3>> \o SubSeq(data, 7, Len(data))
                  ELSE data
    IN  <<254, 12, 4, 0, 0, 0, Len(data), 0, 0, 0, 0>> \o tokens

VendorMethod(fi) ==
    CASE fi.crypto = "Aes" -> "A" [] fi.crypto = "Xor" -> "1"
      [] fi.crypto = "Dsg" -> "1" [] fi.crypto = "NoCrypto" -> "0"

VendorElement(fi, n, data) ==
    LET method == VendorMethod(fi)
        packed == CASE method = "A" \/ fi.lzss10_odx -> VendorLzss(data)
                    [] method = "1" /\ ~fi.lzss10_odx -> VendorLegacy(data)
                    [] method = "0" -> data
    IN  [number |-> n, compression |-> method, encrypted |-> method # "0",
         bytes |-> IF method = "0" THEN packed ELSE encrypt(fi.crypto, packed),
         size |-> Len(data)]

EraseElement(n) ==
    [number |-> n, compression |-> "0", encrypted |-> FALSE, bytes |-> <<0>>, size |-> None]

Decompressed(fi, e) ==
    LET plain == IF e.encrypted THEN decrypt(fi.crypto, e.bytes) ELSE e.bytes
    IN  CASE e.compression = "A" \/ fi.lzss10_odx -> decompress_lzss10(plain, e.size)
          [] e.compression = "1" /\ ~fi.lzss10_odx -> decompress_legacy(plain)
          [] e.compression = "0" /\ ~fi.lzss10_odx -> plain

\* An erase block is passed over; an element whose size is nowhere stated
\* ends the whole extraction.
extract_odx(fi, odx) ==
    LET data == {e \in odx : Len(e.bytes) > 1}
    IN  IF \E e \in data : e.size = None THEN [ok |-> FALSE, blocks |-> <<>>]
        ELSE [ok |-> TRUE,
              blocks |-> [n \in {e.number : e \in data} |->
                             Decompressed(fi, CHOOSE e \in data : e.number = n)]]
=============================================================================
