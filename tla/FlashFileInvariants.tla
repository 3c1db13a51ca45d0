------------------------ MODULE FlashFileInvariants ------------------------
(***************************************************************************)
(* What FlashFileProofs says of FlashFile, in the order of its proofs:     *)
(* what a cipher and a compression do to a block, what a module's table    *)
(* says, what a file and an image hold, what a correction may change and   *)
(* what a flash sends.  Inv, SentInv and BootInv are the inductive ones.   *)
(***************************************************************************)
EXTENDS FlashFile

\* f is computed up to m by one step after the other.
Solves(f, m, n, D, init, step) ==
  /\ f \in [0..n -> D]
  /\ f[0] = init
  /\ \A i \in 1..m : f[i] = step[i][f[i - 1]]

-----------------------------------------------------------------------------
(***************************************************************************)
(* Sums, CRCs, flattening.                                                 *)
(***************************************************************************)
\* The sums of the first i numbers.
Summing(f, s) ==
  /\ f \in [0..Len(s) -> Nat]
  /\ f[0] = 0
  /\ \A i \in 1..Len(s) : f[i] = f[i - 1] + s[i]

-----------------------------------------------------------------------------
(***************************************************************************)
(* The ciphers undo themselves, up to the zeros that AES fills up with.    *)
(***************************************************************************)
\* What AES adds to a plaintext.
AesPad(data) == Zeros((16 - (Len(data) % 16)) % 16)

BitsOf(a, b) ==
  /\ b \in [1..8 -> 0..1]
  /\ a = b[1] + 2 * b[2] + 4 * b[3] + 8 * b[4] + 16 * b[5] + 32 * b[6] + 64 * b[7] + 128 * b[8]

\* The state of the rolling cipher.
RollState == [offset : Byte, last : Byte]

\* f is how the cipher rolls over data.
Rolling(f, data) ==
  /\ f \in [0..Len(data) -> RollState]
  /\ f[0] = DsgStart
  /\ \A i \in 1..Len(data) : f[i] = DsgRoll(f[i - 1], i, data[i])

EncryptedBy(f, data) ==
  DsgEncrypt(data) = [i \in 1..Len(data) |-> (DSG_INV[data[i]] - f[i - 1].offset) % 256]

\* What decrypting an encrypted plaintext returns.
Padded(crypto, data) == IF crypto = "Aes" THEN data \o AesPad(data) ELSE data

\* f runs through the sets of S, by one step after the other.
Runs(f, n, S, init, step) ==
  /\ f = [i \in 0..n |-> f[i]]
  /\ f[0] = init
  /\ \A i \in 0..n : f[i] \in S[i]
  /\ \A i \in 1..n : f[i - 1] \in S[i - 1] /\ f[i] = step[i][f[i - 1]]

Steps(n, S, step) == \A i \in 1..n : \A x \in S[i - 1] : step[i][x] \in S[i]

-----------------------------------------------------------------------------
(***************************************************************************)
(* What the vendor compressed, the extractor unpacks.                      *)
(***************************************************************************)
\* The packed stream, and the zeros of the cipher behind it.
Literals(data, stream) ==
  /\ stream \in Seq(Byte)
  /\ Len(stream) >= Len(data) + ((Len(data) + 7) \div 8)
  /\ \A p \in 1..Len(stream) :
        stream[p] = IF p % 9 = 1 \/ p > Len(data) + ((Len(data) + 7) \div 8) THEN 0
                    ELSE data[p - ((p + 8) \div 9)]

\* Unpacking literals, k of them: what was consumed and what came out.
LiteralStates(data, k) ==
  {s \in [done : BOOLEAN, pos : Nat, flags : {0}, out : Seq(Byte)] :
     IF k <= Len(data)
     THEN ~s.done /\ s.pos = k + ((k + 7) \div 8) /\ s.out = SubSeq(data, 1, k)
     ELSE /\ s.pos >= Len(data) + ((Len(data) + 7) \div 8)
          /\ Len(s.out) >= Len(data) /\ SubSeq(s.out, 1, Len(data)) = data}

UnpackStart(start) == [done |-> FALSE, pos |-> 0, flags |-> 0, out |-> start]

OutOf(T, out) == \E s \in T : out = s.out

Again(data) == Len(data) >= 7 /\ SubSeq(data, 4, 6) = SubSeq(data, 1, 3)

\* Having unpacked j bytes of the old container, and all the j it may be at
\* after k steps: the reference yields its three bytes and a literal at once.
LegacyState(data, j) == [pos |-> 11 + j, out |-> SubSeq(data, 1, j)]

LegacyReach(data, k) ==
  {j \in 0..Len(data) : (j >= k \/ j = Len(data)) /\ (Again(data) => j \notin 4..6)}

-----------------------------------------------------------------------------
(***************************************************************************)
(* What holds of every module's table.                                     *)
(***************************************************************************)
FlashInfos ==
  {S18_FLASH_INFO,
   S122_FLASH_INFO,
   S1810_FLASH_INFO,
   S184_FLASH_INFO,
   S16_FLASH_INFO,
   S10_FLASH_INFO,
   S8_FLASH_INFO,
   S12_FLASH_INFO,
   DQ250_FLASH_INFO,
   DQ381_FLASH_INFO,
   HALDEX_FLASH_INFO}

\* All but the table of Simos16, in which the regions of two blocks overlap.
ApartInfos ==
  {S18_FLASH_INFO,
   S122_FLASH_INFO,
   S1810_FLASH_INFO,
   S184_FLASH_INFO,
   S10_FLASH_INFO,
   S8_FLASH_INFO,
   S12_FLASH_INFO,
   DQ250_FLASH_INFO,
   DQ381_FLASH_INFO,
   HALDEX_FLASH_INFO}

\* What the tables of all Simos modules say, and the two lists of names.
SimosTable(info, names, count, located) ==
  /\ info.checksum_kind = "Simos" /\ info.crypto \in {"Aes", "Xor"} /\ ~info.lzss10_odx
  /\ info.block_prep = "LzssAesBlock" /\ info.compression_type = 10 /\ info.uds_checksum_kind = "Static"
  /\ info.dynamic_block_length_offsets = {} /\ info.no_internal_checksum_blocks = {}
  /\ info.project_name # "" /\ info.names = names
  /\ info.version = 1..count /\ info.checksum_block_location = located

SimosNames(names, count, located) ==
  \/ names = BLOCK_NAMES_SIMOS5 /\ count = 5 /\ located = 1..6
  \/ names = BLOCK_NAMES_SIMOS3 /\ count = 3 /\ located = {1, 2, 3, 6}

\* The four families of tables, by what the properties tell apart.
SimosInfo(info) ==
  /\ info.checksum_kind = "Simos" /\ info.crypto \in {"Aes", "Xor"} /\ ~info.lzss10_odx
  /\ info.block_prep = "LzssAesBlock" /\ info.compression_type = 10 /\ info.uds_checksum_kind = "Static"
  /\ info.dynamic_block_length_offsets = {} /\ info.no_internal_checksum_blocks = {}
  /\ Blocks(info) \in {1..5, 1..3} /\ info.version = Blocks(info) /\ info.project_name # ""
  /\ info.checksum_block_location = Blocks(info) \union {6}
  /\ block_to_number(info, "CBOOT") = 1
  /\ block_to_number(info, "CAL") \in Blocks(info) \ {1}

DsgInfo(info) ==
  /\ info.checksum_kind = "Dsg" /\ info.crypto = "Dsg" /\ info.lzss10_odx
  /\ info.block_prep = "LzssNone" /\ info.compression_type = 1 /\ info.uds_checksum_kind = "Static"
  /\ info.dynamic_block_length_offsets = {} /\ info.no_internal_checksum_blocks = {2}
  /\ Blocks(info) = 2..4 /\ info.version = {3, 4} /\ info.project_name # ""
  /\ block_to_number(info, "CBOOT") = None
  /\ block_to_number(info, "CAL") = 4

Dq381Info(info) ==
  /\ info.checksum_kind = "Dq381" /\ info.crypto = "Aes" /\ ~info.lzss10_odx
  /\ info.block_prep = "LzssExact" /\ info.compression_type = 10 /\ info.uds_checksum_kind = "Crc32Be"
  /\ info.dynamic_block_length_offsets = {} /\ info.no_internal_checksum_blocks = {}
  /\ Blocks(info) = 1..3 /\ info.version = {} /\ info.project_name # ""
  /\ block_to_number(info, "CBOOT") = None
  /\ block_to_number(info, "CAL") = 3

HaldexInfo(info) ==
  /\ info.checksum_kind = "Haldex" /\ info.crypto = "NoCrypto" /\ ~info.lzss10_odx
  /\ info.block_prep = "Raw" /\ info.compression_type = 0 /\ info.uds_checksum_kind = "Crc32Be"
  /\ info.dynamic_block_length_offsets = {2, 3, 4} /\ info.no_internal_checksum_blocks = {1}
  /\ Blocks(info) = 1..4 /\ info.version = {2, 3, 4} /\ info.project_name = ""
  /\ info.checksum_block_location = 1..4
  /\ block_to_number(info, "CBOOT") = None
  /\ block_to_number(info, "CAL") = 2

\* Where the blocks lie: in different places, all of them within the image.
PlacedInfo(info) ==
  /\ info.binfile_size \in Nat
  /\ \A n \in Blocks(info) : /\ info.offsets[n] \in Nat /\ info.lengths[n] \in Nat
                           /\ info.offsets[n] + info.lengths[n] <= info.binfile_size
  /\ \A m, n \in Blocks(info) : m # n => info.offsets[m] # info.offsets[n]

ApartInfo(info) ==
  \A m, n \in Blocks(info) :
     info.offsets[m] < info.offsets[n] => info.offsets[m] + info.lengths[m] <= info.offsets[n]

KnownInfo(info) ==
  /\ SimosInfo(info) \/ DsgInfo(info) \/ Dq381Info(info) \/ HaldexInfo(info)
  /\ PlacedInfo(info)

-----------------------------------------------------------------------------
(***************************************************************************)
(* What the vendor put into the container, the extractor takes out.        *)
(***************************************************************************)
Element(n, method, encrypted, bytes, size) ==
  [number |-> n, compression |-> method, encrypted |-> encrypted, bytes |-> bytes, size |-> size]

\* What an extraction needs of a vendor's element.
ElementOf(info, e, n, data) ==
  Decompressed(info, e) = data /\ Len(e.bytes) > 1 /\ e.number = n /\ e.size = Len(data)

\* The module chosen at the start, and the vendor's file for it.
Chosen ==
  /\ mod \in Modules /\ fi = MODULES[mod]
  /\ container \in Containers

VendorBlock(n, data) ==
  /\ data \in Seq(Byte) /\ Len(data) \in 3..255 /\ Shared <= Len(data)
  /\ fi.project_name # "" /\ n \in fi.version => data[VersionCell] \in OwnVersions
  /\ n \in fi.dynamic_block_length_offsets => data[DynamicLengthCell] \in {0, Len(data)}
  /\ fi.crypto = "Xor" => \A i \in DOMAIN data : data[i] # 254
  /\ ModuleAccepts(fi, data, n)

-----------------------------------------------------------------------------
(***************************************************************************)
(* The layout of an image.                                                 *)
(***************************************************************************)
\* What the block m adds to the offset of the block n.
Ahead(m, n) == IF m \in Blocks(fi) /\ Before(m, n) THEN OwnCells(m) ELSE 0

-----------------------------------------------------------------------------
(***************************************************************************)
(* Splitting and combining keep the layout.                                *)
(***************************************************************************)
Sized(L) == [1..L -> Byte]

\* Block files as the commands write them: exactly as long as the region, or,
\* where the length is stated, within an image, if not within the region.
BlockFile(n, data) ==
  /\ data \in Seq(Byte) /\ Len(data) >= 1
  /\ n \notin fi.dynamic_block_length_offsets => Len(data) = static_length(n)
  /\ Len(data) = static_length(n) \/ binfile_offset(n) + Len(data) <= ImageLength

BlockFiles(blocks) ==
  /\ blocks = [n \in DOMAIN blocks |-> blocks[n]]
  /\ DOMAIN blocks \subseteq Blocks(fi)
  /\ \A n \in DOMAIN blocks : BlockFile(n, blocks[n])

\* w is the image after each of the blocks.
Writing(w, bytes, blocks, order) ==
  /\ w[0] = bytes
  /\ \A i \in 0..5 : w[i] \in Sized(Len(bytes))
  /\ \A i \in 1..5 : w[i] = IF order[i] \in DOMAIN blocks
                            THEN Over(blocks[order[i]], w[i - 1], binfile_offset(order[i])) ELSE w[i - 1]

WritesBy(w, bytes, blocks, order) ==
  Writing(w, bytes, blocks, order) /\ Written(bytes, blocks, order) = w[5]

-----------------------------------------------------------------------------
(***************************************************************************)
(* Correcting a checksum keeps the length of a block.                      *)
(***************************************************************************)
\* g is the concatenation of the first ones of some sequences.
Flattening(g, s, S) ==
  /\ FlattenSeq(s) = g[Len(s)]
  /\ \A i \in 1..Len(s) : g[i] \in Seq(S) /\ g[i] = IF i = 1 THEN s[i] ELSE g[i - 1] \o s[i]

\* What a correction leaves of a block.
Corrected(r, data) ==
  /\ r = [state |-> r.state, data |-> r.data]
  /\ r.state \in {"Failed", "Valid", "Fixed"}
  /\ r.data \in Seq(Byte) /\ Len(r.data) = Len(data)
  /\ r.state # "Fixed" => r.data = data

\* The areas that the header h of a block names, and the bytes they cover.
Areas(data, h) == AreaTable[data[h.areas]]

Covered(data, h) ==
  FlattenSeq([i \in 1..Len(Areas(data, h)) |->
                SubSeq(data, Areas(data, h)[i][1], Areas(data, h)[i][2])])

Sound(data, h) == \A a \in Range(Areas(data, h)) : a[1] >= 1 /\ a[2] <= Len(data)

\* Where the area table leaves the one range of a DQ381 block.
Ranged(data) ==
  LET range == AreaTable[data[3]][1]
  IN  Len(data) >= 3 /\ range[1] >= 1 /\ range[1] <= range[2] /\ range[2] <= Len(data)

RangeSum(data) == Crc(255, SubSeq(data, AreaTable[data[3]][1][1], AreaTable[data[3]][1][2]))

HaldexSum(data) == 255 - (SumOf(SubSeq(data, 3, Len(data))) % 256)

\* A validated block: its length and its type are kept, and whatever is not
\* corrected is left as it was, but for a CBOOT one of whose sums failed.
Checked(r, data) ==
  /\ r = [state |-> r.state, data |-> r.data]
  /\ r.state \in {"Failed", "Valid", "Fixed"}
  /\ r.data \in Seq(Byte) /\ Len(r.data) = Len(data)
  /\ r.state = "Valid" => r.data = data

-----------------------------------------------------------------------------
(***************************************************************************)
(* The type invariant.                                                     *)
(***************************************************************************)
\* An image is whole, or it was cut short by an edit.
Images == {image \in Seq(Byte) : Len(image) <= ImageLength}

Ascending(sent) ==
  \A i, j \in DOMAIN sent : i < j => sent[i].block_number < sent[j].block_number

\* Inductive: what the commands leave on the disk is laid out as the module's
\* table says.
Inv ==
  /\ Chosen
  /\ mishaps \in 0..MaxMishaps
  /\ bin \in Images /\ (bin = NoImage \/ Len(bin) = ImageLength \/ mishaps > 0)
  /\ files = [t \in Tools |-> files[t]]
  /\ \A t \in Tools : BlockFiles(files[t])
  /\ wire.cmd = "flash" => Ascending(wire.sent)

\* The whole of what the vendor's container holds.
Given == [n \in Blocks(fi) |-> Vendor[mod][n]]

\* What is sent of the blocks: each prepared once, in ascending order.
Prepared(blocks, n) == prepare_block(fi, n, static_length(n), blocks[n])

PreparedOf(blocks) == {Prepared(blocks, n) : n \in DOMAIN blocks \intersect 1..5}

\* The blocks up to the i-th, lined up.
Lined(s, blocks, i) ==
  /\ s \in Seq(PreparedOf(blocks))
  /\ \A j \in DOMAIN s : s[j].block_number <= i
  /\ Ascending(s)

-----------------------------------------------------------------------------
(***************************************************************************)
(* An extracted image is sound.                                            *)
(***************************************************************************)
\* Blocks that fit their regions, whichever of them are there.
Fitting(blocks) ==
  /\ DOMAIN blocks \subseteq Blocks(fi)
  /\ \A n \in DOMAIN blocks : blocks[n] \in Seq(Byte) /\ Len(blocks[n]) <= static_length(n)

\* What the cell c of the region of n holds once some blocks are written.
Holds(b, bytes, blocks, there, n, c) ==
  b[binfile_offset(n) + c] =
     IF n \in DOMAIN blocks /\ n \in there /\ c <= Len(blocks[n])
     THEN blocks[n][c] ELSE bytes[binfile_offset(n) + c]

\* A block as it comes out of an image that it was written into: behind a
\* block whose length is stated nowhere, the rest of its region.
Restored(r, data) ==
  /\ r \in Seq(Byte) /\ Len(r) >= Len(data)
  /\ \A c \in 1..Len(r) : r[c] = IF c <= Len(data) THEN data[c] ELSE 0

\* The step of ExtractedIsSound.
FrfSound ==
  \A blocks \in {blocks_from_bytes(bin')} :
     ExtractFrf /\ container = "sound" =>
        /\ DOMAIN blocks = Blocks(fi)
        /\ \A n \in DOMAIN blocks : ModuleAccepts(fi, blocks[n], n)

-----------------------------------------------------------------------------
(***************************************************************************)
(* The encoder's items spell its input.                                    *)
(***************************************************************************)
\* k bytes of the window from offset i on are the next ones.
Matching(window, i, ahead, k) == \A j \in 1..k : window[i + j] = ahead[j]

\* What the encoder's window has seen before it comes to the byte behind pos.
Earlier(input, pos) == Fill(EncoderFill) \o SubSeq(input, 1, pos)

Literal(byte) == [ref |-> FALSE, size |-> 1, bytes |-> <<byte>>]

Reference(dist, length) ==
  [ref |-> TRUE, size |-> length, bytes |-> <<(dist \div 256) + length * 4, dist % 256>>]

Item == [ref : BOOLEAN, size : Nat, bytes : Seq(Byte)]

\* A reference back by dist, in which the next length bytes are found.
Refers(it, input, pos, dist, length) ==
  /\ it = Reference(dist, length)
  /\ length <= 63 /\ pos + length <= Len(input)
  /\ \A j \in 1..length : Earlier(input, pos)[WINDOW_SIZE + pos - dist + j] = input[pos + j]

IsReference(it, input, pos) ==
  \E dist \in 1..WINDOW_SIZE : \E length \in 1..dist : Refers(it, input, pos, dist, length)

IsLiteral(it, input, pos) == it = Literal(input[pos + 1]) /\ pos + 1 <= Len(input)

\* The item stands for the bytes of input behind pos.
SpellsAt(it, input, pos) == IsLiteral(it, input, pos) \/ IsReference(it, input, pos)

\* One pass of the encoder's loop.
NextItem(input, pos) ==
  LET ahead == SubSeq(input, pos + 1, LeastOf(pos + MAX_CODED, Len(input)))
      m == find_match(Window(Earlier(input, pos)), ahead)
  IN  IF m.length <= MAX_UNCODED THEN Literal(input[pos + 1])
      ELSE Reference(WINDOW_SIZE - m.offset, LeastOf(m.length, MAX_CODED - 1))

\* The items stand for the input one after the other; the k-th ends at
\* starts[k].
Spells(items, input, starts) ==
  /\ starts = [k \in 0..Len(items) |-> starts[k]]
  /\ \A k \in 0..Len(items) : starts[k] \in 0..Len(input)
  /\ starts[0] = 0
  /\ \A k \in 1..Len(items) : /\ SpellsAt(items[k], input, starts[k - 1])
                              /\ starts[k] = starts[k - 1] + items[k].size

Spelled(items, input, pos) ==
  \E starts : Spells(items, input, starts) /\ starts[Len(items)] = pos

\* There is an i-th item behind the k-th, and it is a reference.
RefAt(items, k, i) == k + i <= Len(items) /\ items[k + i].ref

\* The flag byte in front of the k-th item, where one is due.
FlagByte(items, k) == IF k % 8 = 1 THEN <<Flags(items, k)>> ELSE <<>>

\* f[k] is the stream of the first k items.
StreamBy(f, items) ==
  /\ f = [k \in 0..Len(items) |-> f[k]]
  /\ f[0] = <<>>
  /\ \A k \in 0..Len(items) : f[k] \in Seq(Byte)
  /\ \A k \in 1..Len(items) : f[k] = f[k - 1] \o FlagByte(items, k) \o items[k].bytes

\* s is where t begins.
Heads(s, t) == Len(s) <= Len(t) /\ \A i \in 1..Len(s) : t[i] = s[i]

\* The decoder after the first k items.
After(items, f, k, out) ==
  [done |-> FALSE, pos |-> Len(f[k]),
   flags |-> IF k = 0 THEN 0 ELSE Flags(items, k - ((k - 1) % 8)), out |-> out]

\* A sequence, of whatever, that begins with s.
Extends(t, s) ==
  /\ Len(t) \in Nat /\ t = [i \in 1..Len(t) |-> t[i]]
  /\ Heads(s, t)

Copies(c, history, dist, n) ==
  /\ c = [k \in 0..n |-> c[k]] /\ c[0] = history
  /\ \A k \in 1..n : c[k] = Append(c[k - 1], c[k - 1][Len(c[k - 1]) + 1 - dist])

\* c[k] is the decoder after k flag bits.
Decodes(c, input, start, zero, n) ==
  /\ c = [k \in 0..n |-> c[k]] /\ c[0] = UnpackStart(start)
  /\ \A k \in 1..n : c[k] = Unpack(input, c[k - 1], k, zero)

\* The decoder somewhere behind the items that stand for x: what it writes
\* then, if it writes anything, comes after x.
Beyond(s, x) ==
  /\ s = [done |-> s.done, pos |-> s.pos, flags |-> s.flags, out |-> s.out]
  /\ s.pos \in Nat
  /\ Extends(s.out, x)

\* The first m items stand for the whole input.
SpellFirst(items, input, starts, m) ==
  /\ \A k \in 0..m : starts[k] \in 0..Len(input)
  /\ starts[0] = 0 /\ starts[m] = Len(input)
  /\ \A k \in 1..m : /\ SpellsAt(items[k], input, starts[k - 1])
                     /\ starts[k] = starts[k - 1] + items[k].size

\* The stream holds items that stand for the data, and maybe more.
EncodesBy(stream, data, items) ==
  /\ items \in Seq(Item)
  /\ Heads(Stream(items), stream)
  /\ \E m \in 0..Len(items) : \E starts : SpellFirst(items, data, starts, m)

Encodes(stream, data) == \E items : EncodesBy(stream, data, items)

\* What the control module has once it has decrypted and decompressed.
Plain(info, prepared) ==
  LET plain == decrypt(info.crypto, prepared.bytes)
  IN  IF prepared.compression_type = 0 THEN plain ELSE decode_from(EncoderFill, plain)

-----------------------------------------------------------------------------
(***************************************************************************)
(* A corrected block is right: correcting one place leaves everything that *)
(* is summed up as it was.                                                 *)
(***************************************************************************)
AgreeBut(e, data, cells) ==
  /\ e \in Seq(Byte) /\ Len(e) = Len(data)
  /\ \A i \in 1..Len(data) : i \notin cells => e[i] = data[i]

\* Area tables that fit in a block of that length cover none of the cells.
ClearTable(length, cells) ==
  \A v \in Byte :
     (\A a \in Range(AreaTable[v]) : a[1] >= 1 /\ a[2] <= length) =>
         \A a \in Range(AreaTable[v]) : cells \intersect (a[1]..a[2]) = {}

\* What the correction of the checksums leaves.
RightAgain(r, again, data, cells) == again.state = "Valid" /\ AgreeBut(r.data, data, cells)

\* The sum over the areas of a header stays right wherever nothing but the
\* given cells changes, and its own is as it was left.
StaysRight(info, n, data, cells, r) ==
  /\ AgreeBut(r.data, data, {Header(n).stored})
  /\ \A e : AgreeBut(e, data, cells) /\ e[Header(n).stored] = r.data[Header(n).stored]
              => validate_simos(info, e, n) = [state |-> "Valid", data |-> e]

StoredCells(info, n) ==
  {2} \union (IF block_to_number(info, "CBOOT") = n THEN {5} ELSE {})

\* The range of an area cell leaves out the stored sum.
ClearRange(length) ==
  \A v \in Byte :
     AreaTable[v][1][1] >= 1 /\ AreaTable[v][1][2] <= length =>
        {2} \intersect (AreaTable[v][1][1]..AreaTable[v][1][2]) = {}

\* Where the ECM3 ranges begin: behind both places of the sum.
Ecm3Ranges == \A v \in DOMAIN BoxCodes : BoxCodes[v][1] \in AlternateChecksum + 2..BoxCodes[v][2]

\* The places that correcting the checksum of one block may write.
OwnChecksum(n, data) ==
  IF fi.checksum_kind = "Simos" THEN StoredCells(fi, n)
  ELSE IF fi.checksum_kind = "Dq381" THEN {2}
  ELSE IF fi.checksum_kind = "Dsg" THEN {Len(data)} ELSE {1}

-----------------------------------------------------------------------------
(***************************************************************************)
(* ECM3.                                                                   *)
(***************************************************************************)
Ecm3Range(range) ==
  range[1] \in Nat /\ range[2] \in Nat /\ range[1] >= 9 /\ range[1] <= range[2]

\* The range lies within the calibration: only then is there a sum to correct.
Reached(range, cal) == Ecm3Range(range) /\ range[2] <= Len(cal)

Ecm3Total(range, cal) == cal[Ecm3Seed] * 256 + SumOf(SubSeq(cal, range[1], range[2]))

Ecm3Sum(range, cal) == <<(Ecm3Total(range, cal) \div 256) % 256, Ecm3Total(range, cal) % 256>>

Ecm3Cell(cal) == IF cal[7] > 0 THEN 7 ELSE 5

\* There is nothing to correct, or the sum was written over the flag that
\* tells its place.
Ecm3Right(range, given, data) ==
  validate_ecm3(range, data).state # "Fixed" \/ (given[7] > 0 /\ data[7] = 0)

Ecm3Written(range, cal, e) ==
  AgreeBut(e, cal, {5, 6, 7, 8}) /\ Ecm3Right(range, cal, e)

CAL == block_to_number(fi, "CAL")

CBOOT == block_to_number(fi, "CBOOT")

\* The ECM3 sum of a calibration, for a version that has one.
Ecm3Kept(given, data) ==
  load_ecm3_location(fi, data) # None => Ecm3Right(load_ecm3_location(fi, data), given, data)

\* What the pass over the blocks starts with.
SeenOf(blocks) == IF fi.checksum_kind = "Simos" THEN fix_ecm3(fi, blocks) ELSE blocks

PatchedOf(seen, patch) ==
  IF patch /\ CBOOT \in DOMAIN seen /\ Patchable(seen[CBOOT])
  THEN [seen EXCEPT ![CBOOT] = patch_cboot(seen[CBOOT])] ELSE seen

\* A block as its own checksum is corrected: nothing but the ECM3 sum or the
\* patch differs from what was given.
Fixing(n, given, x, patch) ==
  /\ BlockFile(n, x) /\ Len(x) = Len(given)
  /\ SimosInfo(fi) /\ n = CAL => AgreeBut(x, given, {5, 6, 7, 8}) /\ Ecm3Kept(given, x)
  /\ ~(SimosInfo(fi) /\ n = CAL) =>
        \A c \in 1..Len(given) : x[c] = given[c] \/ (patch /\ n = CBOOT /\ given[c] = NEEDLE)

FlagGone(given, data) ==
  /\ fi.checksum_kind = "Simos" /\ load_ecm3_location(fi, data) # None
  /\ given[AlternateChecksum] > 0 /\ data[AlternateChecksum] = 0

\* A block as it is prepared for sending.
SentRight(n, given, data, patch) ==
  /\ BlockFile(n, data)
  /\ has_internal_checksum(fi, n) => validate_block(fi, data, n).state = "Valid"
  /\ Ecm3Holds(fi, data, n) \/ (n = CAL /\ FlagGone(given, data))
  /\ \A c \in 1..Len(given) : \/ data[c] = given[c]
                              \/ c \in ChecksumCells(n, given)
                              \/ patch /\ n = CBOOT /\ given[c] = NEEDLE

-----------------------------------------------------------------------------
(***************************************************************************)
(* What is on the wire.                                                    *)
(***************************************************************************)
UnlockPatch ==
  prepare_patch_block(fi, fi.patch_block_index + 5, static_length(fi.patch_block_index))

FlashMade(w) ==
  /\ BlockFiles(w.given) /\ w.patch \in BOOLEAN
  /\ checksum_and_patch_blocks(fi, w.given, w.patch).ok
  /\ w.sent = InOrder(checksum_and_patch_blocks(fi, w.given, w.patch).blocks)

UnlockMade(w) ==
  /\ BlockFiles(w.given) /\ 1..5 \subseteq DOMAIN w.given
  /\ fi.patch_block_index # None /\ w.patch = FALSE
  /\ w.sent = InOrder([n \in 1..4 |-> w.given[n]]) \o <<UnlockPatch>> \o InOrder(Only(5, w.given[5]))

WireMade(w) ==
  /\ w.cmd \in {"none", "flash", "unlock"}
  /\ w.cmd = "none" => w.sent = <<>>
  /\ w.cmd = "flash" => FlashMade(w)
  /\ w.cmd = "unlock" => UnlockMade(w)

SentInv == Inv /\ WireMade(wire)

\* A block of a flash, as the control module receives it.
SentFlash(i) ==
  LET p == wire.sent[i]
      n == p.block_number
  IN  /\ n \in DOMAIN wire.given
      /\ Len(Received(p)) = p.announced_length
      /\ fi.uds_checksum_kind = "Crc32Be" => p.uds_checksum = Crc(255, Received(p))
      /\ DOMAIN wire.given[n] = 1..Len(wire.given[n])
      /\ SentRight(n, wire.given[n], Received(p), wire.patch)

-----------------------------------------------------------------------------
(***************************************************************************)
(* Correcting twice: the checksums of the blocks and ECM3, in either order. *)
(***************************************************************************)
\* A CAL with its ECM3 sum corrected.
WithEcm3(d) ==
  IF load_ecm3_location(fi, d) = None THEN d
  ELSE validate_ecm3(load_ecm3_location(fi, d), d).data

PatchIn(blocks, patch) ==
  patch => CBOOT \in DOMAIN SeenOf(blocks) /\ Patchable(SeenOf(blocks)[CBOOT])

\* Two passes, over c and over b, that leave the same blocks.
SamePass(b, p, s, c, q, t) ==
  /\ PatchIn(b, p) /\ s = PerBlock(fi, PatchedOf(SeenOf(b), p))
  /\ PatchIn(c, q) /\ t = PerBlock(fi, PatchedOf(SeenOf(c), q))
  /\ DOMAIN t = DOMAIN s
  /\ \A n \in DOMAIN s : s[n].state # "Failed" /\ t[n].state # "Failed" /\ t[n].data = s[n].data

\* The patch, and everything that has a checksum of its own corrected.
OwnPass(blocks, patch) == PerBlock(fi, PatchedOf(blocks, patch))

\* A pass of `checksum`, with the patch or without, and what it leaves.
Passed(blocks, patch, own, after) ==
  /\ patch => SimosInfo(fi) /\ CBOOT \in DOMAIN blocks /\ Patchable(blocks[CBOOT])
  /\ own = OwnPass(blocks, patch)
  /\ \A n \in DOMAIN own : own[n].state # "Failed"
  /\ after = [n \in DOMAIN own |-> own[n].data]

-----------------------------------------------------------------------------
(***************************************************************************)
(* What `checksum` leaves of an image, and what is split from it then.     *)
(***************************************************************************)
\* An image with d written over the beginning of the region of n, so far as
\* the image reaches.
Overlaid(image, out, n, d) ==
  /\ out \in Images /\ Len(out) = Len(image)
  /\ \A c \in 1..static_length(n) :
        binfile_offset(n) + c \in 1..Len(image) =>
           out[binfile_offset(n) + c] = IF c <= Len(d) THEN d[c] ELSE image[binfile_offset(n) + c]

\* A block of an image is written over itself, but for some of its cells:
\* neither the version nor the stated length is one of them.
Rewritten(image, out, n, d, C) ==
  /\ Overlaid(image, out, n, d)
  /\ AgreeBut(d, blocks_from_bytes(image)[n], C)
  /\ n \in fi.dynamic_block_length_offsets => 2 \notin C
  /\ fi.project_name # "" /\ n \in fi.version => 1 \notin C

\* What some blocks say of the block n: nothing where it is not one of them.
Said(blocks, n) == IF n \in DOMAIN blocks THEN blocks[n] ELSE <<>>

CanPatch(image) ==
  CBOOT \in Blocks(fi) /\ Inside(image, CBOOT, static_length(CBOOT)) /\ Patchable(Region(image, CBOOT))

PatchedImage(image, patch) ==
  IF patch /\ CanPatch(image)
  THEN Over(patch_cboot(Region(image, CBOOT)), image, binfile_offset(CBOOT)) ELSE image

FixedOf(own) == [n \in {m \in DOMAIN own : own[m].state = "Fixed"} |-> own[n].data]

-----------------------------------------------------------------------------
(***************************************************************************)
(* What can be patched is of the module's own version.                     *)
(***************************************************************************)
\* The version of a CBOOT comes first; its needles are what the patch replaces.
BootSafe(r) == r[1] \in OwnVersions \/ \A i \in DOMAIN r : r[i] # NEEDLE

BootFile(blocks) == CBOOT \in DOMAIN blocks => blocks[CBOOT][1] \in OwnVersions

BootImage(image) ==
  CBOOT \in Blocks(fi) /\ Inside(image, CBOOT, static_length(CBOOT)) => BootSafe(Region(image, CBOOT))

BootIn(image, fs) == BootImage(image) /\ \A t \in Tools : BootFile(fs[t])

\* Inductive as long as no edit writes a needle: what is in the place of CBOOT
\* is of the module's own version, or there is nothing in it to patch.
BootInv == Inv /\ BootIn(bin, files)

\* One cell of an image edited.
EditedImage(n, cell, v) == [bin EXCEPT ![binfile_offset(n) + cell] = v]
=============================================================================
