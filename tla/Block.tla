-------------------------------- MODULE Block ------------------------------
(***************************************************************************)
(* csrc/block.c: the block codec behind shardvault-core/src/ffi.rs, and    *)
(* one block on disk that is written, damaged and decoded.                 *)
(*                                                                         *)
(* Integers stay bytes: a 32-bit word is the four bytes of its             *)
(* little-endian form, so r & 0xff is w[1] and r >> 8 drops w[1].          *)
(* sv_get_u32le and sv_put_u32le are then copies.                          *)
(***************************************************************************)
EXTENDS Bytes, Integers, Sequences

CONSTANTS
  PAYLOAD_MAX,  \* SV_BLOCK_PAYLOAD_MAX (4072 in the code)
  SectorSize,   \* bytes that reach the disk together
  Contents      \* the blocks that are written: [lsn, flags, payload]

HEADER_SIZE == 24
BLOCK_SIZE == HEADER_SIZE + PAYLOAD_MAX

ASSUME BlockAssumption ==
  /\ PAYLOAD_MAX \in 1..255
  /\ SectorSize \in 1..BLOCK_SIZE
  /\ \A c \in Contents : /\ c.lsn \in Seq(Byte) /\ Len(c.lsn) = 8
                         /\ c.flags \in Byte
                         /\ c.payload \in Seq(Byte)

Zeros(n) == [i \in 1..n |-> 0]
XorWord(v, w) ==
  <<XorTable[v[1]][w[1]], XorTable[v[2]][w[2]],
    XorTable[v[3]][w[3]], XorTable[v[4]][w[4]]>>
NotWord(w) == <<255 - w[1], 255 - w[2], 255 - w[3], 255 - w[4]>>
ShiftByte(w) == <<w[2], w[3], w[4], 0>>
ShiftBit(w) ==
  <<w[1] \div 2 + 128 * (w[2] % 2), w[2] \div 2 + 128 * (w[3] % 2),
    w[3] \div 2 + 128 * (w[4] % 2), w[4] \div 2>>
Ones == <<255, 255, 255, 255>>

\* SV_CRC32C_POLY, 0x82F63B78.
CRC32C_POLY == <<120, 59, 246, 130>>
-----------------------------------------------------------------------------
(* The tables and the checksum *)

\* r = (r >> 1) ^ (SV_CRC32C_POLY & (0 - (r & 1)))
CrcBit(r) ==
  IF r[1] % 2 = 1 THEN XorWord(ShiftBit(r), CRC32C_POLY) ELSE ShiftBit(r)

Table0 ==
  [b \in Byte |->
     LET r[k \in 0..8] == IF k = 0 THEN <<b, 0, 0, 0>> ELSE CrcBit(r[k - 1])
     IN  r[8]]

\* sv_crc_tables: each row is made from the one before it and from row 0.
NextRow(row) ==
  [b \in Byte |-> XorWord(ShiftByte(row[b]), Table0[row[b][1]])]
Table1 == NextRow(Table0)
Table2 == NextRow(Table1)
Table3 == NextRow(Table2)
Table4 == NextRow(Table3)
Table5 == NextRow(Table4)
Table6 == NextRow(Table5)
Table7 == NextRow(Table6)

\* Seeded fault: the upper half of the eight bytes is looked up in the order
\* of the lower half.
Slice8_Swapped(crc, buf, at) ==
  LET c(i) == IF i <= 4 THEN XorTable[crc[i]][buf[at + i]] ELSE buf[at + i]
  IN  XorWord(XorWord(XorWord(Table7[c(1)], Table6[c(2)]),
                      XorWord(Table5[c(3)], Table4[c(4)])),
              XorWord(XorWord(Table0[c(5)], Table1[c(6)]),
                      XorWord(Table2[c(7)], Table3[c(8)])))

\* The loop body for the eight bytes behind position at.
Slice8(crc, buf, at) ==
  LET c(i) == IF i <= 4 THEN XorTable[crc[i]][buf[at + i]] ELSE buf[at + i]
  IN  XorWord(XorWord(XorWord(Table7[c(1)], Table6[c(2)]),
                      XorWord(Table5[c(3)], Table4[c(4)])),
              XorWord(XorWord(Table3[c(5)], Table2[c(6)]),
                      XorWord(Table1[c(7)], Table0[c(8)])))

CrcByte(crc, b) == XorWord(Table0[XorTable[crc[1]][b]], ShiftByte(crc))

\* sv_crc32c_update: eight bytes at a time, then one by one.
Update(crc, buf) ==
  LET w == Len(buf) \div 8
      words[j \in 0..w] ==
        IF j = 0 THEN crc ELSE Slice8(words[j - 1], buf, 8 * (j - 1))
      rest[i \in (8 * w)..Len(buf)] ==
        IF i = 8 * w THEN words[w] ELSE CrcByte(rest[i - 1], buf[i])
  IN  rest[Len(buf)]

Crc32c(buf) == NotWord(Update(Ones, buf))
-----------------------------------------------------------------------------
(* The codec *)

\* Seeded fault: the header behind the crc field is left out.
Checksum_SkipFlags(blk, len) ==
  NotWord(Update(Update(Update(Ones, SubSeq(blk, 1, 12)), Zeros(4)),
                 SubSeq(blk, HEADER_SIZE + 1, HEADER_SIZE + len)))

\* sv_block_checksum: the block with its crc field read as zero, up to the
\* end of the payload.
Checksum(blk, len) ==
  NotWord(Update(Update(Update(Update(Ones, SubSeq(blk, 1, 12)), Zeros(4)),
                        SubSeq(blk, 17, 24)),
                 SubSeq(blk, HEADER_SIZE + 1, HEADER_SIZE + len)))

\* block::encode and sv_block_encode: zeros, header and payload, then the crc.
Encode(c) ==
  LET len  == Len(c.payload)
      with(crc) == c.lsn \o <<len, 0, 0, 0>> \o crc \o <<c.flags, 0, 0, 0>> \o Zeros(4)
                     \o c.payload \o Zeros(PAYLOAD_MAX - len)
  IN  IF len > PAYLOAD_MAX THEN [err |-> "Len"]
      ELSE [ok |-> with(Checksum(with(Zeros(4)), len))]

\* Seeded fault: the payload is returned without checking its CRC.
Decode_NoCrc(blk) ==
  LET len == blk[9]
  IN  IF len > PAYLOAD_MAX \/ \E i \in 10..12 : blk[i] # 0 THEN [err |-> "Len"]
      ELSE [ok |-> [lsn |-> SubSeq(blk, 1, 8), flags |-> blk[17],
                    payload |-> SubSeq(blk, HEADER_SIZE + 1, HEADER_SIZE + len)]]

\* Seeded fault: off by one in the length check.
Decode_LenBound(blk) ==
  LET len == blk[9]
  IN  IF len >= PAYLOAD_MAX \/ \E i \in 10..12 : blk[i] # 0 THEN [err |-> "Len"]
      ELSE IF Checksum(blk, len) # SubSeq(blk, 13, 16) THEN [err |-> "Crc"]
      ELSE [ok |-> [lsn |-> SubSeq(blk, 1, 8), flags |-> blk[17],
                    payload |-> SubSeq(blk, HEADER_SIZE + 1, HEADER_SIZE + len)]]

\* block::decode and sv_block_decode: the length is all four bytes of its
\* field, of which PAYLOAD_MAX needs only the first.
Decode(blk) ==
  LET len == blk[9]
  IN  IF len > PAYLOAD_MAX \/ \E i \in 10..12 : blk[i] # 0 THEN [err |-> "Len"]
      ELSE IF Checksum(blk, len) # SubSeq(blk, 13, 16) THEN [err |-> "Crc"]
      ELSE [ok |-> [lsn |-> SubSeq(blk, 1, 8), flags |-> blk[17],
                    payload |-> SubSeq(blk, HEADER_SIZE + 1, HEADER_SIZE + len)]]
-----------------------------------------------------------------------------
(* One block on disk *)

VARIABLES
  content,  \* what the block was last written with; NoContent before that
  stored,   \* the bytes on disk
  damage    \* [kind, at]: what has happened to them since

bvars == <<content, stored, damage>>

NoContent == [lsn |-> <<>>, flags |-> 0, payload |-> <<>>]
Intact == [kind |-> "none", at |-> 0]

\* A block that was never written reads as zeros, like a hole in a file.
BlockInit ==
  /\ content = NoContent
  /\ stored = Zeros(BLOCK_SIZE)
  /\ damage = Intact

\* A rejected payload is not written at all.
Write(c) ==
  /\ damage = Intact
  /\ "ok" \in DOMAIN Encode(c)
  /\ content' = c
  /\ stored' = Encode(c).ok
  /\ UNCHANGED damage

\* One byte rots.
DamageByte(i, b) ==
  /\ content # NoContent
  /\ b # stored[i]
  /\ stored' = [stored EXCEPT ![i] = b]
  /\ damage' = [kind |-> "byte", at |-> i]
  /\ UNCHANGED content

\* A power loss: the sectors in lost have not reached the disk and are zeros.
TearWrite(lost) ==
  /\ content # NoContent
  /\ stored' = [i \in 1..BLOCK_SIZE |->
                  IF (i - 1) \div SectorSize \in lost THEN 0 ELSE stored[i]]
  /\ damage' = [kind |-> "torn", at |-> 0]
  /\ UNCHANGED content

\* The block is given up and its place used again.
Discard ==
  /\ damage # Intact
  /\ content' = NoContent
  /\ stored' = Zeros(BLOCK_SIZE)
  /\ damage' = Intact

BlockNext ==
  \/ \E c \in Contents : Write(c)
  \/ damage = Intact /\ \E i \in 1..BLOCK_SIZE, b \in Byte : DamageByte(i, b)
  \/ damage = Intact
     /\ \E lost \in SUBSET (0..((BLOCK_SIZE - 1) \div SectorSize)) : TearWrite(lost)
  \/ Discard
-----------------------------------------------------------------------------
(* Properties *)

\* Types: a block keeps its size and its bytes stay bytes.
BlockTypeOK ==
  /\ stored \in Seq(Byte) /\ Len(stored) = BLOCK_SIZE
  /\ content \in Contents \cup {NoContent}
  /\ damage.kind \in {"none", "byte", "torn"}
  /\ damage.at \in 0..BLOCK_SIZE

\* Decoding a block as it was written gives its content, whatever the length
\* of the payload, 0 and PAYLOAD_MAX included; zeros are no block.
RoundTrip ==
  damage = Intact =>
    IF content = NoContent THEN Decode(stored) = [err |-> "Crc"]
    ELSE Decode(stored) = [ok |-> content]

\* What the log and the stripes build on: a wrong byte anywhere in the header
\* or the payload is an error of decode, and one in the unused rest of the
\* block changes nothing.
DamagedByteDetected ==
  damage.kind = "byte" =>
    IF damage.at <= HEADER_SIZE + Len(content.payload)
    THEN "err" \in DOMAIN Decode(stored)
    ELSE Decode(stored) = [ok |-> content]

\* A block of which only some sectors reached the disk decodes to an error or
\* to the content written, never to something else (the torn blocks of
\* wal.rs scan and of stripe.rs read_shard).
TornWriteDetected ==
  damage.kind = "torn" => Decode(stored) \in {[ok |-> content], [err |-> "Crc"]}

\* One byte by definition of CRC-32C: eight shifts of the register, no tables.
ByteByBits(r, b) ==
  LET bit[k \in 0..8] ==
        IF k = 0 THEN <<XorTable[r[1]][b], r[2], r[3], r[4]>> ELSE CrcBit(bit[k - 1])
  IN  bit[8]

\* sv_crc32c, eight bytes at a time by eight tables and the rest one by one,
\* is CRC-32C: over a block as it was written, from the empty prefix on, each
\* prefix has the register of the one before it shifted by one byte.
CrcIsCrc32c ==
  damage = Intact =>
    /\ Crc32c(<<>>) = Zeros(4)
    /\ \A n \in 1..BLOCK_SIZE :
         NotWord(Crc32c(SubSeq(stored, 1, n)))
           = ByteByBits(NotWord(Crc32c(SubSeq(stored, 1, n - 1))), stored[n])
=============================================================================
