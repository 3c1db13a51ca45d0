--------------------------- MODULE MCDFlashEditor ---------------------------
EXTENDS DFlashEditor

CONSTANTS d1, d2

\* Copies as an ECU leaves them: "v0" and "f0" are the identity, r6 to r8 the
\* bytes that legitimately differ.  The short record carries no VIN copy.
Copy(vin, st_stat_fct, rest) == ImmoRecord(104, vin, "f0", st_stat_fct, rest, vin)
Short(rest) == ImmoRecord(66, "v0", "f0", "Adapted", rest, None)
Bad(r) == [r EXCEPT !.dat_dat_crc_ok = FALSE]
Enc(channel, generation, framing, content) ==
  Record(channel, generation, framing, d1, FALSE, content)
Other(generation) == Record(9, generation, "left", None, TRUE, ImmoRecord(8, "x", "x", "Adapted", "x", None))
Header(seq, valid) == [seq |-> seq, valid |-> valid]

c6 == Copy("v0", "Adapted", "r")
MCImages == {
  \* three copies and a superseded one of an earlier page
  Image(<<Enc(6, 0, "left", Copy("v1", "Adapted", "r")), Enc(6, 1, "left", c6),
          Enc(7, 1, "right", c6), Other(1), Enc(8, 1, "left", Short("r8"))>>, <<Header(1, TRUE)>>),
  \* the same, its counter found by brute force
  Image(<<Other(1), Enc(6, 1, "left", c6), Enc(7, 1, "right", Bad(c6)),
          Enc(8, 1, "left", Short("r8"))>>, <<>>),
  \* one copy torn, its identity still legible
  Image(<<Enc(6, 1, "left", c6), Enc(7, Torn, "left", c6)>>, <<Header(0, FALSE), Header(1, TRUE)>>),
  \* one across a block boundary
  Image(<<Enc(6, 1, "left", c6), Enc(7, 1, "splitHead", c6), Enc(8, 1, "splitTail", c6)>>,
        <<Header(1, TRUE)>>),
  \* a header that the records do not agree with
  Image(<<Enc(6, 1, "left", c6), Enc(7, 1, "right", c6), Other(1)>>, <<Header(0, TRUE)>>),
  \* one that they agree with in the low bits only
  Image(<<Enc(6, 1, "left", c6), Other(1)>>, <<Header(3, TRUE)>>),
  \* no counter: a single record fits
  Image(<<Enc(6, 1, "left", c6)>>, <<>>),
  \* never adapted: no VIN, and an encoding of stStatFct of its own
  Image(<<Enc(6, 1, "left", Copy(Unprintable, "other", "r"))>>, <<Header(1, TRUE)>>),
  Image(<<>>, <<>>) }

MCIdentities == {[vin |-> "v0", fields |-> "f1", st_stat_fct |-> "Adapted"],
                 [vin |-> "v1", fields |-> "f0", st_stat_fct |-> "NotAdapted"]}
MCPlaintexts == {Bad(c6)}
=============================================================================
