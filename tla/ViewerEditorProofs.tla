------------------------ MODULE ViewerEditorProofs ------------------------
(***************************************************************************)
(* Proofs about the editor of the DFlash image: what a save may change in  *)
(* an image, that the record in the editor is one of the image on the      *)
(* screen, and that the tick was given for the record that is written.     *)
(*                                                                         *)
(* The argument about saving goes record by record.  The search for the    *)
(* counter looks at generations and framings only (SameCounter), so a copy *)
(* that was rewritten leaves every other copy as readable as it was        *)
(* (ReadAlike), and three rewrites in a row are three independent ones.    *)
(***************************************************************************)
EXTENDS A2lViewer, DFlashEditor, FiniteSetTheorems, SequenceTheorems, TLAPS

\* A set that holds 0 and with each number the next one holds them all: else
\* k |-> k + 1 inside of it and k |-> k outside would map 0..n into 1..n without
\* a collision.
LEMMA SetInduction ==
  ASSUME NEW P, 0 \in P, \A n \in Nat : n \in P => n + 1 \in P
  PROVE  Nat \subseteq P
<1> SUFFICES ASSUME NEW n \in Nat, n \notin P PROVE FALSE
  OBVIOUS
<1> DEFINE f == [k \in 0..n |-> IF k \in P THEN k + 1 ELSE k]
<1>1. f \in [0..n -> 1..n]
  <2>1. ASSUME NEW k \in 0..n PROVE f[k] \in 1..n
    OBVIOUS
  <2> QED
    BY <2>1
<1>2. \A x, y \in 0..n : f[x] = f[y] => x = y
  OBVIOUS
<1> HIDE DEF f
<1>3. /\ IsFiniteSet(0..n) /\ Cardinality(0..n) = n + 1
      /\ IsFiniteSet(1..n) /\ Cardinality(1..n) = n
  BY FS_Interval
<1>4. Cardinality(1..n) < Cardinality(0..n)
  BY <1>3
<1>5. \E x, y \in 0..n : x # y /\ f[x] = f[y]
  BY <1>1, <1>3, <1>4, FS_PigeonHole, Zenon
<1> QED
  BY <1>2, <1>5

\* A set of numbers up to n has a largest one.
LEMMA MaxExists ==
  ASSUME NEW n \in Nat, NEW S \in SUBSET (1..n), S # {}
  PROVE  Max(S) \in S /\ \A y \in S : Max(S) >= y
<1> DEFINE P == {m \in Nat : \A T \in SUBSET (1..m) : T # {} => \E x \in T : \A y \in T : x >= y}
<1>1. 0 \in P
  <2>1. 1..0 = {}
    OBVIOUS
  <2> QED
    BY <2>1
<1>2. ASSUME NEW m \in Nat, m \in P PROVE m + 1 \in P
  <2> SUFFICES ASSUME NEW T \in SUBSET (1..(m + 1)), T # {}
               PROVE  \E x \in T : \A y \in T : x >= y
    OBVIOUS
  <2>1. CASE m + 1 \in T
    BY <2>1
  <2>2. CASE m + 1 \notin T
    <3>1. T \in SUBSET (1..m)
      BY <2>2
    <3> QED
      BY <3>1, <1>2
  <2> QED
    BY <2>1, <2>2
<1> HIDE DEF P
<1>3. n \in P
  BY <1>1, <1>2, SetInduction
<1>4. \E x \in S : \A y \in S : x >= y
  BY <1>3 DEF P
<1> QED
  BY <1>4 DEF Max

\* A set of numbers has a smallest one.
LEMMA MinExists ==
  ASSUME NEW S \in SUBSET Nat, S # {}
  PROVE  Min(S) \in S /\ \A y \in S : Min(S) <= y
<1> DEFINE P == {m \in Nat : (\E k \in S : k <= m) => \E x \in S : \A y \in S : x <= y}
<1>1. 0 \in P
  OBVIOUS
<1>2. ASSUME NEW m \in Nat, m \in P PROVE m + 1 \in P
  <2> SUFFICES ASSUME NEW k \in S, k <= m + 1 PROVE \E x \in S : \A y \in S : x <= y
    OBVIOUS
  <2>1. CASE \E j \in S : j <= m
    BY <2>1, <1>2
  <2>2. CASE ~\E j \in S : j <= m
    <3>1. \A y \in S : k <= y
      BY <2>2
    <3> QED
      BY <3>1
  <2> QED
    BY <2>1, <2>2
<1> HIDE DEF P
<1>3. PICK m \in S : TRUE
  OBVIOUS
<1>4. m \in P
  BY <1>1, <1>2, SetInduction
<1>5. \E x \in S : \A y \in S : x <= y
  BY <1>4 DEF P
<1> QED
  BY <1>5 DEF Min

-----------------------------------------------------------------------------
(***************************************************************************)
(* Reading an image.                                                       *)
(***************************************************************************)
Typed == ImagesOf(Contents)
Entries(image) == DOMAIN image.records

LEMMA TypedImage ==
  ASSUME NEW image \in Typed
  PROVE  /\ Len(image.records) \in Nat /\ Entries(image) = 1..Len(image.records)
         /\ \A i \in Entries(image) : image.records[i] \in RecordsOf(Contents)
         /\ image.records \in Seq(RecordsOf(Contents)) /\ image.headers \in Seq([seq : Nat, valid : BOOLEAN])
         /\ image = [records |-> image.records, headers |-> image.headers]
<1>1. image.records \in Seq(RecordsOf(Contents)) /\ image.headers \in Seq([seq : Nat, valid : BOOLEAN])
  BY DEF Typed, ImagesOf
<1>2. image = [records |-> image.records, headers |-> image.headers]
  BY DEF Typed, ImagesOf
<1> HIDE DEF RecordsOf
<1> QED
  BY <1>1, <1>2 DEF Entries

\* The live record of a channel is one of its records, and the last.
LEMMA LatestIsLast ==
  ASSUME NEW image \in Typed, NEW c \in channels(image)
  PROVE  /\ latest(image, c) \in Entries(image)
         /\ image.records[latest(image, c)].channel = c
         /\ \A i \in Entries(image) : i > latest(image, c) => image.records[i].channel # c
<1> DEFINE S == {i \in Entries(image) : image.records[i].channel = c}
<1>1. Len(image.records) \in Nat /\ S \in SUBSET (1..Len(image.records))
  BY TypedImage
<1>2. S # {}
  BY DEF channels, Entries
<1>3. latest(image, c) = Max(S)
  BY DEF latest, Entries
<1> HIDE DEF S
<1>4. Max(S) \in S /\ \A y \in S : Max(S) >= y
  BY <1>1, <1>2, MaxExists
<1>5. \A i \in S : i \in Nat
  BY <1>1
<1>6. \A i \in Entries(image) : i > Max(S) => i \notin S
  BY <1>4, <1>5
<1> QED
  BY <1>3, <1>4, <1>6 DEF S

\* Two images alike in all that the search for the counter looks at.
SameShape(a, b) ==
  /\ b.headers = a.headers /\ Entries(b) = Entries(a)
  /\ \A i \in Entries(a) : /\ b.records[i].channel = a.records[i].channel
                           /\ b.records[i].generation = a.records[i].generation
                           /\ b.records[i].framing = a.records[i].framing

LEMMA SameLatest ==
  ASSUME NEW a, NEW b, SameShape(a, b)
  PROVE  channels(b) = channels(a) /\ \A c : latest(b, c) = latest(a, c)
<1>1. channels(b) = channels(a)
  BY DEF SameShape, channels, Entries
<1>2. ASSUME NEW c PROVE latest(b, c) = latest(a, c)
  <2>1. {i \in DOMAIN b.records : b.records[i].channel = c}
          = {i \in DOMAIN a.records : a.records[i].channel = c}
    BY DEF SameShape, Entries
  <2> QED
    BY <2>1 DEF latest
<1> QED
  BY <1>1, <1>2

LEMMA SameBruteForce ==
  ASSUME NEW D \in SUBSET Nat, NEW r, NEW s, DOMAIN r = D, DOMAIN s = D,
         \A c \in D : s[c].generation = r[c].generation /\ s[c].framing = r[c].framing
  PROVE  brute_force_generation(s) = brute_force_generation(r)
<1> DEFINE hits(q, g) == Cardinality({c \in DOMAIN q : aligned_outer_crc(q[c], g) # None})
           fits(q, c) == /\ q[c].generation \in 0..(Low - 1)
                         /\ aligned_outer_crc(q[c], q[c].generation) # None
                         /\ hits(q, q[c].generation) >= 2
           taken(q, c) == Cardinality({d \in DOMAIN q : d < c}) < 8
           probes(q) == {c \in DOMAIN q : taken(q, c) /\ fits(q, c)}
<1>1. \A c \in D : \A g : aligned_outer_crc(s[c], g) = aligned_outer_crc(r[c], g)
  BY DEF aligned_outer_crc
<1>2. ASSUME NEW g PROVE hits(s, g) = hits(r, g)
  <2>1. {c \in DOMAIN s : aligned_outer_crc(s[c], g) # None}
          = {c \in DOMAIN r : aligned_outer_crc(r[c], g) # None}
    BY <1>1
  <2> QED
    BY <2>1
<1>3. \A c \in D : fits(s, c) <=> fits(r, c)
  <2> HIDE DEF hits
  <2> QED
    BY <1>1, <1>2
<1>4. probes(s) = probes(r)
  <2> HIDE DEF fits, hits
  <2> QED
    BY <1>3
<1>5. probes(r) \subseteq D
  OBVIOUS
<1>6. \A q : brute_force_generation(q)
               = IF probes(q) = {} THEN None ELSE q[Min(probes(q))].generation
  BY DEF brute_force_generation
<1> HIDE DEF probes
<1>7. CASE probes(r) = {}
  BY <1>4, <1>6, <1>7
<1>8. CASE probes(r) # {}
  <2>1. Min(probes(r)) \in D
    BY <1>5, <1>8, MinExists
  <2> QED
    BY <2>1, <1>4, <1>6, <1>8
<1> QED
  BY <1>7, <1>8

\* The search looks at channels, generations and framings only.
LEMMA SameCounter ==
  ASSUME NEW a \in Typed, NEW b \in Typed, SameShape(a, b)
  PROVE  find_generation(b) = find_generation(a)
<1>1. channels(b) = channels(a) /\ \A c : latest(b, c) = latest(a, c)
  BY SameLatest
<1>2. channels(a) \in SUBSET Nat
  <2>1. \A i \in Entries(a) : a.records[i].channel \in Nat
    BY TypedImage DEF RecordsOf
  <2> QED
    BY <2>1 DEF channels, Entries
<1>3. DOMAIN live(a) = channels(a) /\ DOMAIN live(b) = channels(a)
  BY <1>1 DEF live
<1>4. ASSUME NEW c \in channels(a)
      PROVE  /\ live(b)[c].generation = live(a)[c].generation
             /\ live(b)[c].framing = live(a)[c].framing
  <2>1. latest(a, c) \in Entries(a)
    BY LatestIsLast
  <2> QED
    BY <1>1, <2>1 DEF live, SameShape
<1>5. brute_force_generation(live(b)) = brute_force_generation(live(a))
  BY <1>2, <1>3, <1>4, SameBruteForce
<1>6. b.headers = a.headers
  BY DEF SameShape
<1> QED
  BY <1>5, <1>6 DEF find_generation

\* What an analysis says depends on the counter and on the record alone.
LEMMA ReadAlike ==
  ASSUME NEW a \in Typed, NEW b \in Typed, SameShape(a, b), NEW c, NEW k,
         c \in channels(a) => b.records[latest(a, c)] = a.records[latest(a, c)]
  PROVE  readable(b, c, k) = readable(a, c, k)
<1>1. find_generation(b) = find_generation(a)
  BY SameCounter
<1>2. channels(b) = channels(a) /\ latest(b, c) = latest(a, c)
  BY SameLatest
<1>3. ASSUME NEW r PROVE analyze(b, r, k) = analyze(a, r, k)
  BY <1>1 DEF analyze
<1>4. analyze_channel(b, c, k) = analyze_channel(a, c, k)
  BY <1>2, <1>3 DEF analyze_channel
<1> QED
  BY <1>4 DEF readable

\* A copy that can be read is the content of the live record of its channel.
LEMMA Reading ==
  ASSUME NEW a \in Typed, NEW c, NEW k, readable(a, c, k) # None
  PROVE  /\ c \in channels(a)
         /\ readable(a, c, k) = a.records[latest(a, c)].content
         /\ readable(a, c, k) \in Contents
         /\ readable(a, c, k).dat_dat_crc_ok
         /\ a.records[latest(a, c)].device \in {None, k}
         /\ analyze_channel(a, c, k) # None
         /\ analyze_channel(a, c, k).inner_crc = a.records[latest(a, c)].inner
         /\ analyze_channel(a, c, k).encrypted <=> a.records[latest(a, c)].device # None
<1> DEFINE r == a.records[latest(a, c)]
           x == analyze_channel(a, c, k)
<1>1. /\ x # None /\ x.content # Garbled /\ x.content.dat_dat_crc_ok
      /\ readable(a, c, k) = x.content
  BY DEF readable
<1>2. c \in channels(a) /\ x = analyze(a, r, k)
  BY <1>1 DEF analyze_channel
<1>3. r \in RecordsOf(Contents)
  BY <1>2, LatestIsLast, TypedImage
<1>4. r.content \in Contents /\ r.inner \in BOOLEAN
  BY <1>3 DEF RecordsOf
<1> HIDE DEF r, x
<1>5. /\ x.content = r.content /\ r.device \in {None, k}
      /\ x.inner_crc = (TRUE /\ r.inner) /\ x.encrypted = (TRUE /\ r.device # None)
  BY <1>1, <1>2 DEF analyze
<1>6. x.inner_crc = r.inner
  BY <1>4, <1>5
<1>7. x.encrypted <=> r.device # None
  BY <1>5
<1> QED
  BY <1>1, <1>2, <1>4, <1>5, <1>6, <1>7 DEF r, x

-----------------------------------------------------------------------------
(***************************************************************************)
(* Writing a record.                                                       *)
(***************************************************************************)
\* The image with other content in one record.
Put(a, i, content) == [a EXCEPT !.records[i].content = content]

LEMMA PutField ==
  ASSUME NEW S, NEW T, NEW a \in [records : S, headers : T], NEW i \in DOMAIN a.records, NEW x
  PROVE  [a EXCEPT !.records[i].content = x]
           = [records |-> [a.records EXCEPT ![i] = [@ EXCEPT !.content = x]], headers |-> a.headers]
  OBVIOUS

LEMMA PutContent ==
  ASSUME NEW a \in Typed, NEW i \in Entries(a), NEW content \in Contents
  PROVE  /\ Put(a, i, content) \in Typed
         /\ Put(a, i, content).headers = a.headers
         /\ Entries(Put(a, i, content)) = Entries(a)
         /\ Put(a, i, content).records[i] = [a.records[i] EXCEPT !.content = content]
         /\ \A j \in Entries(a) : j # i => Put(a, i, content).records[j] = a.records[j]
         /\ SameShape(a, Put(a, i, content))
<1> DEFINE q == [a.records EXCEPT ![i] = [@ EXCEPT !.content = content]]
           b == Put(a, i, content)
<1>1. /\ Len(a.records) \in Nat /\ Entries(a) = 1..Len(a.records)
      /\ \A j \in Entries(a) : a.records[j] \in RecordsOf(Contents)
      /\ a.records \in Seq(RecordsOf(Contents)) /\ a.headers \in Seq([seq : Nat, valid : BOOLEAN])
      /\ a = [records |-> a.records, headers |-> a.headers]
  BY TypedImage
<1>2. b = [records |-> q, headers |-> a.headers]
  <2>1. a \in [records : Seq(RecordsOf(Contents)), headers : Seq([seq : Nat, valid : BOOLEAN])]
    BY DEF Typed, ImagesOf
  <2>2. i \in DOMAIN a.records
    BY DEF Entries
  <2> QED
    BY <2>1, <2>2, PutField DEF Put
<1>3. [a.records[i] EXCEPT !.content = content] \in RecordsOf(Contents)
  BY <1>1 DEF RecordsOf
<1>4. q \in Seq(RecordsOf(Contents))
  <2> HIDE DEF RecordsOf
  <2> QED
    BY <1>1, <1>3
<1>5. /\ DOMAIN q = Entries(a) /\ q[i] = [a.records[i] EXCEPT !.content = content]
      /\ \A j \in Entries(a) : j # i => q[j] = a.records[j]
  BY DEF Entries
<1>6. /\ q[i].channel = a.records[i].channel /\ q[i].generation = a.records[i].generation
      /\ q[i].framing = a.records[i].framing
  BY <1>1, <1>5 DEF RecordsOf
<1> HIDE DEF q, b
<1>7. b.records = q /\ b.headers = a.headers
  BY <1>2
<1>8. b \in Typed
  BY <1>1, <1>2, <1>4 DEF Typed, ImagesOf
<1>9. SameShape(a, b)
  BY <1>5, <1>6, <1>7 DEF SameShape, Entries
<1> QED
  BY <1>5, <1>7, <1>8, <1>9 DEF b, Entries

\* A copy that could be read and was rewritten without an error has other
\* content, and nothing else in the image is different.
LEMMA RewriteDone ==
  ASSUME NEW a \in Typed, NEW c, NEW k, NEW content \in Contents,
         readable(a, c, k) # None, rewrite_channel(a, c, content, k).error = None
  PROVE  rewrite_channel(a, c, content, k).image = Put(a, latest(a, c), content)
<1> DEFINE i == latest(a, c)
           r == a.records[i]
           x == analyze_channel(a, c, k)
           g == find_generation(a)
<1>1. /\ c \in channels(a) /\ x # None /\ x.inner_crc = r.inner
      /\ x.encrypted <=> r.device # None
      /\ r.device \in {None, k}
  BY Reading
<1>2. i \in Entries(a)
  BY <1>1, LatestIsLast
<1>3. r \in RecordsOf(Contents)
  BY <1>2, TypedImage
<1>4. x = analyze(a, r, k)
  BY <1>1 DEF analyze_channel
<1>5. x.alignment = IF g = None THEN None ELSE validate_outer_crc(r, g.value)
  BY <1>4 DEF analyze
<1>6. /\ g # None /\ x.alignment \in {"left", "right"}
      /\ rewrite_channel(a, c, content, k).image = staged(a, i, content, x, g.value, k)
  <2>1. x.alignment \in {None, "left", "right", "splitHead", "splitTail"}
    BY <1>3, <1>5 DEF validate_outer_crc, RecordsOf, Framings
  <2>2. /\ "NoSuchChannel" # None /\ "UnknownGeneration" # None /\ "UnknownAlignment" # None
        /\ "SplitRecord" # None /\ "WrongLength" # None /\ "VerifyFailed" # None
    BY DFlashAssumption DEF Framings, Errors
  <2> HIDE DEF x, g
  <2> QED
    BY <1>1, <2>1, <2>2 DEF rewrite_channel, Refused, x, g
<1>7. r.generation = g.value
  <2>1. "left" # None /\ "right" # None
    BY DFlashAssumption DEF Framings, Errors
  <2> HIDE DEF x, g, r
  <2> QED
    BY <2>1, <1>5, <1>6 DEF validate_outer_crc
<1>8. (IF x.encrypted THEN k ELSE None) = r.device
  BY <1>1
<1> HIDE DEF x, g
<1>9. staged(a, i, content, x, g.value, k)
        = [a EXCEPT !.records[i] =
             [r EXCEPT !.content = content, !.generation = g.value,
                       !.device = IF x.encrypted THEN k ELSE None, !.inner = x.inner_crc]]
  <2> DEFINE d == IF x.encrypted THEN k ELSE None
  <2>1. staged(a, i, content, x, g.value, k)
          = [a EXCEPT !.records[i].content = content, !.records[i].generation = g.value,
                      !.records[i].device = d, !.records[i].inner = x.inner_crc]
    BY DEF staged
  <2>2. a \in [records : Seq(RecordsOf(Contents)), headers : Seq([seq : Nat, valid : BOOLEAN])]
    BY DEF Typed, ImagesOf
  <2>3. i \in DOMAIN a.records
    BY <1>2 DEF Entries
  <2> HIDE DEF d, i
  <2>4. [a EXCEPT !.records[i].content = content, !.records[i].generation = g.value,
                      !.records[i].device = d, !.records[i].inner = x.inner_crc]
         = [a EXCEPT !.records[i] = [r EXCEPT !.content = content, !.generation = g.value,
                       !.device = d, !.inner = x.inner_crc]]
    BY <2>2, <2>3
  <2> QED
    BY <2>1, <2>4 DEF d
<1>11. Put(a, i, content) = [a EXCEPT !.records[i] = [r EXCEPT !.content = content]]
  BY <1>2, TypedImage DEF Put, Entries
<1>10. [r EXCEPT !.content = content, !.generation = g.value,
                 !.device = IF x.encrypted THEN k ELSE None, !.inner = x.inner_crc]
         = [r EXCEPT !.content = content]
  BY <1>1, <1>3, <1>7, <1>8 DEF RecordsOf
<1> QED
  BY <1>6, <1>9, <1>10, <1>11

\* The content with another identity in it, as save_dflash writes it.
Edit(r, e) == encode(set_identity(r, Identity(e)))

LEMMA Edited ==
  ASSUME NEW r \in Contents, NEW e \in Contents
  PROVE  /\ Edit(r, e) \in Contents
         /\ Identity(Edit(r, e)) = Identity(e)
         /\ Edit(r, e).vin_copy \in {None, e.vin}
         /\ Edit(r, e).rest = r.rest
         /\ Edit(r, e).dat_dat_crc_ok
  BY DEF Edit, encode, set_identity, Identity, Contents

\* What a channel holds after the loop went over it.
Wrote(a, c, k, e) ==
  IF readable(a, c, k) = None THEN a
  ELSE Put(a, latest(a, c), Edit(readable(a, c, k), e))

LEMMA ErrorEndsLoop ==
  ASSUME NEW w, NEW c, w.error # None
  PROVE  WriteCopy(w, c) = w
  BY DEF WriteCopy

LEMMA CopyWritten ==
  ASSUME NEW a \in Typed, NEW W, NEW c, edited \in Contents,
         WriteCopy(Written(a, None, W), c).error = None
  PROVE  \E V : WriteCopy(Written(a, None, W), c) = Written(Wrote(a, c, keys, edited), None, V)
<1> DEFINE w == Written(a, None, W)
           existing == readable(a, c, keys)
           result == rewrite_channel(a, c, Edit(existing, edited), keys)
<1>1. w.error = None /\ w.image = a
  BY DEF Written
<1>2. CASE existing = None
  <2>1. WriteCopy(w, c) = w
    BY <1>1, <1>2 DEF WriteCopy
  <2> QED
    BY <2>1, <1>2 DEF Wrote
<1>3. CASE existing # None
  <2>1. edited.vin # Unprintable
    <3>1. "BadVin" # None
      BY DFlashAssumption DEF Errors
    <3>2. [w EXCEPT !.error = "BadVin"].error = "BadVin"
      BY DEF Written
    <3> QED
      BY <1>1, <1>3, <3>1, <3>2 DEF WriteCopy
  <2>2. WriteCopy(w, c) = Written(result.image, result.error, w.written \cup {c})
    BY <1>1, <1>3, <2>1 DEF WriteCopy, Edit
  <2>3. result.error = None
    BY <2>2 DEF Written
  <2>4. Edit(existing, edited) \in Contents
    BY <1>3, Reading, Edited
  <2>5. result.image = Put(a, latest(a, c), Edit(existing, edited))
    BY <1>3, <2>3, <2>4, RewriteDone
  <2> QED
    BY <1>3, <2>2, <2>3, <2>5 DEF Wrote
<1> QED
  BY <1>2, <1>3

\* New content in the live record is what is read from it then.
LEMMA ReadPut ==
  ASSUME NEW a \in Typed, NEW c, NEW k, NEW content \in Contents,
         readable(a, c, k) # None, content.dat_dat_crc_ok
  PROVE  readable(Put(a, latest(a, c), content), c, k) = content
<1> DEFINE i == latest(a, c)
           r == a.records[i]
           b == Put(a, i, content)
           s == [r EXCEPT !.content = content]
<1>1. c \in channels(a) /\ i \in Entries(a)
  BY Reading, LatestIsLast
<1>2. b \in Typed /\ b.records[i] = s /\ SameShape(a, b)
  BY <1>1, PutContent
<1>3. channels(b) = channels(a) /\ latest(b, c) = i /\ find_generation(b) = find_generation(a)
  BY <1>2, SameLatest, SameCounter
<1>4. r \in RecordsOf(Contents)
  BY <1>1, TypedImage
<1>5. /\ s.generation = r.generation /\ s.framing = r.framing
      /\ s.device = r.device /\ s.content = content
  BY <1>4 DEF RecordsOf
<1>6. analyze_channel(a, c, k) = analyze(a, r, k) /\ analyze_channel(b, c, k) = analyze(b, s, k)
  BY <1>1, <1>2, <1>3 DEF analyze_channel
<1> HIDE DEF b, s, r, i
<1>7. analyze(a, r, k).content # Garbled
  BY <1>6 DEF readable
<1>8. analyze(b, s, k).content = content
  BY <1>3, <1>5, <1>7 DEF analyze, validate_outer_crc
<1>9. analyze(b, s, k) # None
  <2> DEFINE aligned == IF find_generation(b) = None THEN None
                        ELSE validate_outer_crc(s, find_generation(b).value)
             legible == /\ aligned # None \/ s.framing # "right"
                        /\ s.framing # "splitHead"
                        /\ s.device \in {None, k}
  <2>1. analyze(b, s, k) =
          [alignment |-> aligned, encrypted |-> legible /\ s.device # None,
           inner_crc |-> legible /\ s.inner, content |-> IF legible THEN s.content ELSE Garbled]
    BY DEF analyze
  <2>2. aligned \in Framings \cup {None}
    <3>1. s.framing \in Framings
      BY <1>4, <1>5 DEF RecordsOf
    <3> QED
      BY <3>1 DEF validate_outer_crc
  <2>3. s.content \in Contents
    BY <1>5
  <2>4. analyze(b, s, k) \in Analyses(Contents)
    <3> HIDE DEF legible, aligned
    <3> QED
      BY <2>1, <2>2, <2>3 DEF Analyses
  <2> QED
    BY <2>4, EditorAssumption
<1> QED
  BY <1>6, <1>8, <1>9, EditorAssumption DEF readable, b, i

\* One channel of the loop: the other copies, and all records but the live one
\* of the channel, are as they were.
LEMMA WroteOne ==
  ASSUME NEW a \in Typed, NEW c, NEW k, NEW e \in Contents
  PROVE  /\ Wrote(a, c, k, e) \in Typed
         /\ SameShape(a, Wrote(a, c, k, e))
         /\ \A d : d # c => readable(Wrote(a, c, k, e), d, k) = readable(a, d, k)
         /\ readable(Wrote(a, c, k, e), c, k)
              = IF readable(a, c, k) = None THEN None ELSE Edit(readable(a, c, k), e)
         /\ \A i \in Entries(a) : ~(readable(a, c, k) # None /\ i = latest(a, c)) =>
              Wrote(a, c, k, e).records[i] = a.records[i]
         /\ readable(a, c, k) # None =>
              LET i == latest(a, c) IN
              Wrote(a, c, k, e).records[i] = [a.records[i] EXCEPT !.content = Edit(@, e)]
<1> DEFINE i == latest(a, c)
           old == readable(a, c, k)
           b == Wrote(a, c, k, e)
<1>1. CASE old = None
  <2>1. b = a
    BY <1>1 DEF Wrote
  <2>2. SameShape(a, a)
    BY DEF SameShape
  <2> QED
    BY <1>1, <2>1, <2>2
<1>2. CASE old # None
  <2>1. /\ c \in channels(a) /\ old \in Contents /\ old = a.records[i].content
    BY <1>2, Reading
  <2>2. i \in Entries(a) /\ a.records[i].channel = c
    BY <2>1, LatestIsLast
  <2>3. Edit(old, e) \in Contents /\ Edit(old, e).dat_dat_crc_ok
    BY <2>1, Edited
  <2>4. b = Put(a, i, Edit(old, e))
    BY <1>2 DEF Wrote
  <2> HIDE DEF b, i, old
  <2>5. /\ b \in Typed /\ SameShape(a, b)
        /\ \A j \in Entries(a) : j # i => b.records[j] = a.records[j]
        /\ b.records[i] = [a.records[i] EXCEPT !.content = Edit(old, e)]
    BY <2>2, <2>3, <2>4, PutContent
  <2>6. readable(b, c, k) = Edit(old, e)
    BY <1>2, <2>3, <2>4, ReadPut DEF i, old
  <2>7. ASSUME NEW d, d # c PROVE readable(b, d, k) = readable(a, d, k)
    <3>1. ASSUME d \in channels(a) PROVE b.records[latest(a, d)] = a.records[latest(a, d)]
      <4>1. latest(a, d) \in Entries(a) /\ a.records[latest(a, d)].channel = d
        BY <3>1, LatestIsLast
      <4> QED
        BY <4>1, <2>2, <2>5, <2>7
    <3> QED
      BY <3>1, <2>5, ReadAlike
  <2>8. [a.records[i] EXCEPT !.content = Edit(@, e)] = [a.records[i] EXCEPT !.content = Edit(old, e)]
    BY <2>1
  <2> QED
    BY <1>2, <2>5, <2>6, <2>7, <2>8 DEF b, i, old
<1> QED
  BY <1>1, <1>2

\* The image after the loop.
Saved(a, k, e) == Wrote(Wrote(Wrote(a, 6, k, e), 7, k, e), 8, k, e)

\* Is this the live record of a copy that could be read?
LiveCopy(a, k, i) == \E c \in ImmoChannels : readable(a, c, k) # None /\ i = latest(a, c)

LEMMA WroteAll ==
  ASSUME NEW a \in Typed, NEW k, NEW e \in Contents
  PROVE  /\ Saved(a, k, e) \in Typed
         /\ SameShape(a, Saved(a, k, e))
         /\ \A c \in ImmoChannels : readable(Saved(a, k, e), c, k)
              = IF readable(a, c, k) = None THEN None ELSE Edit(readable(a, c, k), e)
         /\ \A i \in Entries(a) : Saved(a, k, e).records[i] =
              IF LiveCopy(a, k, i) THEN [a.records[i] EXCEPT !.content = Edit(@, e)]
              ELSE a.records[i]
<1> DEFINE b == Wrote(a, 6, k, e)
           d == Wrote(b, 7, k, e)
           f == Wrote(d, 8, k, e)
           Changed(g, c, i) == readable(g, c, k) # None /\ i = latest(g, c)
           New(r) == [r EXCEPT !.content = Edit(@, e)]
<1>1. /\ b \in Typed /\ SameShape(a, b)
      /\ \A c : c # 6 => readable(b, c, k) = readable(a, c, k)
      /\ readable(b, 6, k) = IF readable(a, 6, k) = None THEN None ELSE Edit(readable(a, 6, k), e)
      /\ \A i \in Entries(a) : ~Changed(a, 6, i) => b.records[i] = a.records[i]
      /\ readable(a, 6, k) # None => b.records[latest(a, 6)] = New(a.records[latest(a, 6)])
  BY WroteOne
<1>2. /\ d \in Typed /\ SameShape(b, d)
      /\ \A c : c # 7 => readable(d, c, k) = readable(b, c, k)
      /\ readable(d, 7, k) = IF readable(b, 7, k) = None THEN None ELSE Edit(readable(b, 7, k), e)
      /\ \A i \in Entries(b) : ~Changed(b, 7, i) => d.records[i] = b.records[i]
      /\ readable(b, 7, k) # None => d.records[latest(b, 7)] = New(b.records[latest(b, 7)])
  <2> HIDE DEF b
  <2> QED
    BY <1>1, WroteOne
<1>3. /\ f \in Typed /\ SameShape(d, f)
      /\ \A c : c # 8 => readable(f, c, k) = readable(d, c, k)
      /\ readable(f, 8, k) = IF readable(d, 8, k) = None THEN None ELSE Edit(readable(d, 8, k), e)
      /\ \A i \in Entries(d) : ~Changed(d, 8, i) => f.records[i] = d.records[i]
      /\ readable(d, 8, k) # None => f.records[latest(d, 8)] = New(d.records[latest(d, 8)])
  <2> HIDE DEF d
  <2> QED
    BY <1>2, WroteOne
<1>4. f = Saved(a, k, e)
  BY DEF Saved
<1> HIDE DEF b, d, f
<1>5. SameShape(a, d) /\ SameShape(a, f)
  BY <1>1, <1>2, <1>3 DEF SameShape
<1>6. \A c : latest(b, c) = latest(a, c) /\ latest(d, c) = latest(a, c)
  BY <1>1, <1>5, SameLatest
<1>7. Entries(b) = Entries(a) /\ Entries(d) = Entries(a)
  BY <1>1, <1>5 DEF SameShape
<1>8. /\ readable(f, 6, k) = readable(b, 6, k) /\ readable(f, 7, k) = readable(d, 7, k)
      /\ readable(b, 7, k) = readable(a, 7, k) /\ readable(d, 8, k) = readable(a, 8, k)
  BY <1>1, <1>2, <1>3
<1>9. ASSUME NEW c \in ImmoChannels
      PROVE  readable(f, c, k) = IF readable(a, c, k) = None THEN None ELSE Edit(readable(a, c, k), e)
  BY <1>1, <1>2, <1>3, <1>8 DEF ImmoChannels
<1>10. ASSUME NEW c \in ImmoChannels, readable(a, c, k) # None
       PROVE  latest(a, c) \in Entries(a) /\ a.records[latest(a, c)].channel = c
  BY <1>10, Reading, LatestIsLast
<1>11. ASSUME NEW i \in Entries(a)
       PROVE  f.records[i] = IF LiveCopy(a, k, i) THEN New(a.records[i]) ELSE a.records[i]
  <2> HIDE DEF New
  <2>1. CASE Changed(a, 6, i)
    <3>1. b.records[i] = New(a.records[i]) /\ a.records[i].channel = 6
      BY <2>1, <1>1, <1>10 DEF ImmoChannels
    <3>2. ~Changed(a, 7, i) /\ ~Changed(a, 8, i)
      BY <3>1, <1>10 DEF ImmoChannels
    <3>3. f.records[i] = b.records[i]
      BY <3>2, <1>2, <1>3, <1>6, <1>7, <1>8
    <3> QED
      BY <2>1, <3>1, <3>3 DEF LiveCopy, ImmoChannels
  <2>2. CASE Changed(a, 7, i)
    <3>1. a.records[i].channel = 7
      BY <2>2, <1>10 DEF ImmoChannels
    <3>2. ~Changed(a, 6, i) /\ ~Changed(a, 8, i)
      BY <3>1, <1>10 DEF ImmoChannels
    <3>3. b.records[i] = a.records[i] /\ d.records[i] = New(b.records[i])
      BY <3>2, <2>2, <1>1, <1>2, <1>6, <1>8
    <3>4. f.records[i] = d.records[i]
      BY <3>2, <1>3, <1>6, <1>7, <1>8
    <3> QED
      BY <2>2, <3>3, <3>4 DEF LiveCopy, ImmoChannels
  <2>3. CASE Changed(a, 8, i)
    <3>1. a.records[i].channel = 8
      BY <2>3, <1>10 DEF ImmoChannels
    <3>2. ~Changed(a, 6, i) /\ ~Changed(a, 7, i)
      BY <3>1, <1>10 DEF ImmoChannels
    <3>3. b.records[i] = a.records[i] /\ d.records[i] = b.records[i]
      BY <3>2, <1>1, <1>2, <1>6, <1>7, <1>8
    <3>4. f.records[i] = New(d.records[i])
      BY <2>3, <1>3, <1>6, <1>8
    <3> QED
      BY <2>3, <3>3, <3>4 DEF LiveCopy, ImmoChannels
  <2>4. CASE ~(Changed(a, 6, i) \/ Changed(a, 7, i) \/ Changed(a, 8, i))
    <3>1. f.records[i] = a.records[i]
      BY <2>4, <1>1, <1>2, <1>3, <1>6, <1>7, <1>8
    <3> QED
      BY <2>4, <3>1 DEF LiveCopy, ImmoChannels
  <2> QED
    BY <2>1, <2>2, <2>3, <2>4
<1> QED
  BY <1>3, <1>4, <1>5, <1>9, <1>11

\* A loop that ends without an error has gone over all three channels.
LEMMA CopiesRewritten ==
  ASSUME NEW a \in Typed, edited \in Contents, rewrite_copies(a).error = None
  PROVE  rewrite_copies(a).image = Saved(a, keys, edited)
<1> DEFINE w0 == Written(a, None, {})
           w6 == WriteCopy(w0, 6)
           w7 == WriteCopy(w6, 7)
           w8 == WriteCopy(w7, 8)
           b == Wrote(a, 6, keys, edited)
           d == Wrote(b, 7, keys, edited)
<1>1. rewrite_copies(a) = w8
  BY DEF rewrite_copies
<1>2. w7.error = None
  <2> HIDE DEF w7
  <2> QED
    BY <1>1, ErrorEndsLoop
<1>3. w6.error = None
  <2> HIDE DEF w6
  <2> QED
    BY <1>2, ErrorEndsLoop
<1>4. PICK V : w6 = Written(b, None, V)
  BY <1>3, CopyWritten
<1>5. b \in Typed
  BY WroteOne
<1> HIDE DEF w6, b
<1>6. PICK W : w7 = Written(d, None, W)
  BY <1>2, <1>4, <1>5, CopyWritten
<1>7. d \in Typed
  BY <1>5, WroteOne
<1> HIDE DEF w7, d
<1>8. \E U : w8 = Written(Wrote(d, 8, keys, edited), None, U)
  BY <1>1, <1>6, <1>7, CopyWritten
<1>9. w8.image = Wrote(d, 8, keys, edited)
  BY <1>8 DEF Written
<1> QED
  BY <1>1, <1>9 DEF Saved, d, b

-----------------------------------------------------------------------------
(***************************************************************************)
(* The invariant.                                                          *)
(***************************************************************************)
TypeInv ==
  /\ kind \in Kinds /\ device_id \in Devices \cup {None} /\ keys \in Devices \cup {None}
  /\ dump \in Typed \cup {None} /\ edited \in Contents \cup {None}
  /\ selected_channel \in ImmoChannels \cup {None}
  /\ inputs \in {None, Garbled} \/ inputs.st_stat_fct \in StStatFct
  /\ edit_error \in BOOLEAN /\ confirm_write \in BOOLEAN /\ saving \in BOOLEAN

\* What was derived is what the source on the screen yields.
Derived ==
  /\ keys # None => kind = "Dump" /\ dump # None /\ keys = device_id
  /\ survey = ImmoChannelSurvey(IF keys = None THEN None ELSE dump, keys)
  /\ secrets # None => Resolved(kind, dump, device_id, record_hex, manual).secrets # None

\* The record in the editor is one of the image, even while another kind of
\* source is selected.
Opened ==
  edited # None =>
    /\ dump # None /\ device_id # None /\ selected_channel \in ImmoChannels
    /\ readable(dump, selected_channel, device_id) # None
    /\ edited.rest = readable(dump, selected_channel, device_id).rest

Ticked == confirm_write => agreed = edited

Inv == TypeInv /\ Derived /\ Opened /\ Ticked

LEMMA Surveyed ==
  ASSUME NEW image \in Typed \cup {None}, NEW k, NEW c \in ImmoChannels
  PROVE  /\ image = None => ImmoChannelSurvey(image, k)[c] = None
         /\ image # None => ImmoChannelSurvey(image, k)[c] = readable(image, c, k)
         /\ ImmoChannelSurvey(image, k)[c] \in Contents \cup {None}
         /\ ImmoChannelSurvey(image, k)[c] # None =>
              ImmoChannelSurvey(image, k)[c].dat_dat_crc_ok
<1> DEFINE s == ImmoChannelSurvey(image, k)
<1>1. s[c] = IF image = None THEN None ELSE readable(image, c, k)
  BY DEF ImmoChannelSurvey
<1>2. image # None /\ readable(image, c, k) # None =>
        readable(image, c, k) \in Contents /\ readable(image, c, k).dat_dat_crc_ok
  BY Reading
<1> HIDE DEF s
<1>3. s[c] \in Contents \cup {None} /\ (s[c] # None => s[c].dat_dat_crc_ok)
  BY <1>1, <1>2
<1> QED
  BY <1>1, <1>3 DEF s

LEMMA SmallestChannel ==
  ASSUME NEW C \in SUBSET ImmoChannels, C # {}
  PROVE  Min(C) \in C
<1>1. C \in SUBSET Nat
  BY DEF ImmoChannels
<1> QED
  BY <1>1, MinExists

\* A dump yields secrets exactly when one of its copies can be read.
LEMMA SecretsOfDump ==
  ASSUME NEW image \in Typed, NEW device \in Devices
  PROVE  (resolve_dump(image, device).secrets # None)
           <=> \E c \in ImmoChannels : readable(image, c, device) # None
<1> DEFINE s == ImmoChannelSurvey(image, device)
<1>1. image # None /\ device # None
  BY EditorAssumption DEF Typed
<1>2. resolve_dump(image, device).secrets
        = IF first_valid(s) = None THEN None ELSE Identity(first_valid(s))
  BY <1>1 DEF resolve_dump
<1>3. \A c \in ImmoChannels : s[c] = readable(image, c, device) /\ s[c] \in Contents \cup {None}
  BY <1>1, Surveyed
<1> HIDE DEF s
<1>4. ASSUME NEW r \in Contents PROVE Identity(r) # None
  <2>1. Identity(r) \in [vin : STRING, fields : STRING, st_stat_fct : StStatFct \cup STRING]
    BY DEF Identity, Contents
  <2> QED
    BY <2>1, EditorAssumption
<1>5. CASE valid_channels(s) = {}
  <2>1. \A c \in ImmoChannels : s[c] = None
    BY <1>5 DEF valid_channels
  <2> QED
    BY <2>1, <1>2, <1>3, <1>5 DEF first_valid
<1>6. CASE valid_channels(s) # {}
  <2>1. Min(valid_channels(s)) \in valid_channels(s)
    BY <1>6, SmallestChannel DEF valid_channels
  <2>2. first_valid(s) \in Contents /\ first_valid(s) # None
    BY <2>1, <1>3, <1>6 DEF first_valid, valid_channels
  <2> QED
    BY <2>1, <2>2, <1>2, <1>3, <1>4 DEF valid_channels
<1> QED
  BY <1>5, <1>6

LEMMA ResolvedRight ==
  ASSUME NEW k \in Kinds, NEW image \in Typed \cup {None}, NEW device \in Devices \cup {None},
         NEW r, NEW m, NEW now, now = Resolved(k, image, device, r, m)
  PROVE  /\ now.keys \in Devices \cup {None}
         /\ now.keys # None => k = "Dump" /\ image # None /\ now.keys = device
         /\ now.survey = ImmoChannelSurvey(IF now.keys = None THEN None ELSE image, now.keys)
<1>1. NoSurvey = ImmoChannelSurvey(None, None)
  BY DEF NoSurvey, ImmoChannelSurvey
<1>2. CASE k = "Dump" /\ image # None /\ device # None
  <2>1. now.keys = device /\ now.survey = ImmoChannelSurvey(image, device)
    BY <1>2 DEF Resolved, resolve_dump
  <2> QED
    BY <2>1, <1>2
<1>3. CASE ~(k = "Dump" /\ image # None /\ device # None)
  <2>1. now.keys = None /\ now.survey = NoSurvey
    BY <1>3 DEF Resolved, resolve_dump, resolve_record, resolve_manual, Unresolved, Kinds
  <2> QED
    BY <2>1, <1>1
<1> QED
  BY <1>2, <1>3

\* A new source, or a part of one.
LEMMA SourceRead ==
  ASSUME TypeInv, kind' \in Kinds, device_id' \in Devices \cup {None},
         dump' \in Typed \cup {None},
         resolve(kind', dump', device_id', record_hex', manual')
  PROVE  Derived' /\ keys' \in Devices \cup {None}
<1> DEFINE now == Resolved(kind', dump', device_id', record_hex', manual')
<1>1. keys' = now.keys /\ survey' = now.survey /\ secrets' = now.secrets
  BY DEF resolve
<1>4. now = Resolved(kind', dump', device_id', record_hex', manual')
  OBVIOUS
<1> HIDE DEF now
<1>2. /\ now.keys \in Devices \cup {None}
      /\ now.keys # None => kind' = "Dump" /\ dump' # None /\ now.keys = device_id'
      /\ now.survey = ImmoChannelSurvey(IF now.keys = None THEN None ELSE dump', now.keys)
  BY <1>4, ResolvedRight
<1>3. secrets' # None => Resolved(kind', dump', device_id', record_hex', manual').secrets # None
  BY <1>1 DEF now
<1> QED
  BY <1>1, <1>2, <1>3 DEF Derived

\* What the screen shows of the copies.
LEMMA SurveyShown ==
  ASSUME TypeInv, Derived, NEW c \in ImmoChannels
  PROVE  /\ survey[c] # None => dump # None /\ device_id # None /\ keys = device_id
         /\ keys # None => dump \in Typed /\ survey[c] = readable(dump, c, keys)
         /\ survey[c] \in Contents \cup {None}
         /\ survey[c] # None => survey[c].dat_dat_crc_ok
<1> DEFINE image == IF keys = None THEN None ELSE dump
<1>1. image \in Typed \cup {None} /\ survey = ImmoChannelSurvey(image, keys)
  BY DEF TypeInv, Derived
<1>2. /\ image = None => survey[c] = None
      /\ image # None => survey[c] = readable(image, c, keys)
      /\ survey[c] \in Contents \cup {None}
      /\ survey[c] # None => survey[c].dat_dat_crc_ok
  <2> HIDE DEF image
  <2> QED
    BY <1>1, Surveyed
<1>3. keys # None => image = dump /\ dump \in Typed /\ dump # None /\ keys = device_id
  BY DEF TypeInv, Derived
<1>4. survey[c] # None => keys # None
  BY <1>2
<1> QED
  BY <1>2, <1>3, <1>4

\* A channel is opened in the editor, or opened anew.
LEMMA ChannelOpened ==
  ASSUME Inv, NEW c \in ImmoChannels, load_channel_for_edit(c), selected_channel' = c,
         UNCHANGED <<source, saving>>
  PROVE  Inv'
<1>1. /\ survey[c] # None => dump # None /\ device_id # None /\ keys = device_id
      /\ keys # None => dump \in Typed /\ survey[c] = readable(dump, c, keys)
      /\ survey[c] \in Contents \cup {None}
  BY SurveyShown DEF Inv
<1>2. /\ edited' = survey[c] /\ confirm_write' = FALSE
      /\ edit_error' = (keys # None /\ survey[c] = None)
      /\ inputs' = IF survey[c] = None THEN inputs ELSE Shown(survey[c])
  BY DEF load_channel_for_edit
<1>3. inputs' \in {None, Garbled} \/ inputs'.st_stat_fct \in StStatFct
  <2>1. CASE survey[c] = None
    BY <2>1, <1>2 DEF Inv, TypeInv
  <2>2. CASE survey[c] # None
    <3>1. Shown(survey[c]).st_stat_fct \in StStatFct
      BY DEF Shown, Identity, StStatFct
    <3> QED
      BY <3>1, <2>2, <1>2
  <2> QED
    BY <2>1, <2>2
<1>4. TypeInv'
  <2>1. edit_error' \in BOOLEAN /\ confirm_write' \in BOOLEAN
    BY <1>2
  <2>2. edited' \in Contents \cup {None} /\ selected_channel' \in ImmoChannels \cup {None}
    BY <1>1, <1>2
  <2> QED
    BY <1>3, <2>1, <2>2 DEF Inv, TypeInv, source
<1>5. Derived'
  BY DEF Inv, Derived, source
<1>6. Opened'
  <2> SUFFICES ASSUME edited' # None
               PROVE  /\ dump' # None /\ device_id' # None /\ selected_channel' \in ImmoChannels
                      /\ readable(dump', selected_channel', device_id') # None
                      /\ edited'.rest = readable(dump', selected_channel', device_id').rest
    BY DEF Opened
  <2>1. survey[c] # None /\ dump # None /\ device_id # None /\ keys = device_id
    BY <1>1, <1>2
  <2>2. survey[c] = readable(dump, c, device_id)
    BY <2>1, <1>1
  <2>3. dump' = dump /\ device_id' = device_id
    BY DEF source
  <2> QED
    BY <2>1, <2>2, <2>3, <1>2
<1>7. Ticked'
  BY <1>2 DEF Ticked
<1> QED
  BY <1>4, <1>5, <1>6, <1>7 DEF Inv

\* What SaveChosen does when the file is written.
IsWritten ==
  /\ edited # None /\ keys # None /\ dump # None
  /\ dump' = Saved(dump, keys, edited) /\ file' = dump'
  /\ survey' = ImmoChannelSurvey(dump', keys)
  /\ confirm_write' = FALSE

LEMMA SaveChosenCases ==
  ASSUME TypeInv, SaveChosen
  PROVE  \/ UNCHANGED <<file, dump, survey, confirm_write>>
         \/ file' = Garbled /\ UNCHANGED <<dump, survey, confirm_write>>
         \/ IsWritten
<1>1. CASE edited = None \/ keys = None \/ dump = None
  <2>1. Written(None, "NothingToSave", {}).error # None
    BY DFlashAssumption DEF Written, Errors
  <2> QED
    BY <2>1, <1>1 DEF SaveChosen
<1>2. CASE edited # None /\ keys # None /\ dump # None
  <2> DEFINE result == rewrite_copies(dump)
  <2>1. \/ UNCHANGED <<file, dump, survey, confirm_write>>
        \/ file' = Garbled /\ UNCHANGED <<dump, survey, confirm_write>>
        \/ /\ result.error = None
           /\ file' = result.image /\ dump' = result.image
           /\ survey' = ImmoChannelSurvey(result.image, keys) /\ confirm_write' = FALSE
    <3> HIDE DEF result
    <3>1. SaveChosen => \E x \in {result} :
        \/ /\ x.error # None \/ x.written = {}
           /\ UNCHANGED <<file, dump, survey, confirm_write>>
        \/ /\ x.error = None /\ x.written # {}
           /\ file' = Garbled /\ UNCHANGED <<dump, survey, confirm_write>>
        \/ /\ x.error = None /\ x.written # {}
           /\ file' = x.image /\ dump' = x.image
           /\ survey' = ImmoChannelSurvey(x.image, keys)
           /\ confirm_write' = FALSE
      BY <1>2 DEF SaveChosen, result
    <3> QED
      BY <3>1
  <2>2. result.error = None => result.image = Saved(dump, keys, edited)
    BY <1>2, CopiesRewritten DEF TypeInv
  <2> HIDE DEF result
  <2> QED
    BY <2>1, <2>2, <1>2 DEF IsWritten
<1> QED
  BY <1>1, <1>2

\* The screen agrees with the file that was written.
LEMMA WrittenKeepsInv ==
  ASSUME Inv, IsWritten,
         UNCHANGED <<kind, device_id, record_hex, manual, keys, secrets, selected_channel,
                     edited, inputs, edit_error, agreed>>,
         saving' \in BOOLEAN
  PROVE  Inv'
<1>1. /\ dump \in Typed /\ edited \in Contents /\ keys \in Devices
      /\ kind = "Dump" /\ keys = device_id /\ device_id # None
  BY DEF Inv, TypeInv, Derived, IsWritten
<1>2. /\ dump' \in Typed
      /\ \A c \in ImmoChannels : readable(dump', c, keys)
           = IF readable(dump, c, keys) = None THEN None ELSE Edit(readable(dump, c, keys), edited)
  BY <1>1, WroteAll DEF IsWritten
<1>3. dump' # None
  BY <1>2, EditorAssumption DEF Typed
<1>4. ASSUME NEW c \in ImmoChannels, readable(dump, c, keys) # None
      PROVE  /\ readable(dump', c, keys) # None
             /\ readable(dump', c, keys).rest = readable(dump, c, keys).rest
  <2>1. readable(dump, c, keys) \in Contents
    BY <1>1, <1>4, Reading
  <2>2. readable(dump', c, keys) = Edit(readable(dump, c, keys), edited)
    BY <1>2, <1>4
  <2>3. /\ Edit(readable(dump, c, keys), edited) \in Contents
        /\ Edit(readable(dump, c, keys), edited).rest = readable(dump, c, keys).rest
    BY <1>1, <2>1, Edited
  <2> QED
    BY <2>2, <2>3, EditorAssumption
<1>5. TypeInv'
  <2>1. confirm_write' \in BOOLEAN
    BY DEF IsWritten
  <2> QED
    BY <1>2, <2>1 DEF Inv, TypeInv
<1>6. Derived'
  <2>1. survey' = ImmoChannelSurvey(IF keys' = None THEN None ELSE dump', keys')
    BY DEF IsWritten
  <2>2. ASSUME secrets # None
        PROVE  Resolved(kind, dump', device_id, record_hex, manual).secrets # None
    <3>1. \A image : Resolved(kind, image, device_id, record_hex, manual)
                       = resolve_dump(image, device_id)
      BY <1>1 DEF Resolved
    <3>2. resolve_dump(dump, device_id).secrets # None
      BY <2>2, <3>1 DEF Inv, Derived
    <3>3. \E c \in ImmoChannels : readable(dump, c, device_id) # None
      BY <3>2, <1>1, SecretsOfDump
    <3>4. \E c \in ImmoChannels : readable(dump', c, device_id) # None
      BY <3>3, <1>1, <1>4
    <3>5. resolve_dump(dump', device_id).secrets # None
      BY <3>4, <1>1, <1>2, SecretsOfDump
    <3> QED
      BY <3>1, <3>5
  <2> QED
    BY <1>1, <1>3, <2>1, <2>2 DEF Derived
<1>7. Opened'
  BY <1>1, <1>3, <1>4 DEF Inv, Opened
<1>8. Ticked'
  BY DEF IsWritten, Ticked
<1> QED
  BY <1>5, <1>6, <1>7, <1>8 DEF Inv

-----------------------------------------------------------------------------
(***************************************************************************)
(* The theorems.                                                           *)
(***************************************************************************)
LEMMA InitInv == Init => Inv
<1> SUFFICES ASSUME Init PROVE Inv
  OBVIOUS
<1>1. survey = ImmoChannelSurvey(IF keys = None THEN None ELSE dump, keys)
  BY DEF Init, NoSurvey, ImmoChannelSurvey
<1> QED
  BY <1>1 DEF Init, Inv, TypeInv, Derived, Opened, Ticked, Kinds

\* The editor is closed when the source is another one.
LEMMA Closed ==
  ASSUME after_source_change, Derived', kind' \in Kinds, keys' \in Devices \cup {None},
         device_id' \in Devices \cup {None}, dump' \in Typed \cup {None}, saving' \in BOOLEAN
  PROVE  Inv'
<1>1. TypeInv'
  BY DEF after_source_change, TypeInv
<1>2. Opened' /\ Ticked'
  BY DEF after_source_change, Opened, Ticked
<1> QED
  BY <1>1, <1>2 DEF Inv

LEMMA NextInv == Inv /\ [Next]_vars => Inv'
<1> SUFFICES ASSUME Inv, [Next]_vars PROVE Inv'
  OBVIOUS
<1>0. TypeInv /\ Derived /\ Opened /\ Ticked
  BY DEF Inv
<1>1. CASE SourceKindChanged
  <2>1. Derived' /\ keys' \in Devices \cup {None}
    BY <1>0, <1>1, SourceRead DEF SourceKindChanged, TypeInv
  <2>2. TypeInv'
    BY <1>0, <1>1, <2>1 DEF SourceKindChanged, TypeInv, dflash
  <2>3. Opened' /\ Ticked'
    BY <1>0, <1>1 DEF SourceKindChanged, Opened, Ticked, dflash
  <2> QED
    BY <2>1, <2>2, <2>3 DEF Inv
<1>2. CASE DumpChosen
  <2>1. dump' \in Typed \cup {None}
    BY <1>2, EditorAssumption DEF DumpChosen, Typed
  <2>2. /\ after_source_change /\ kind' \in Kinds /\ device_id' \in Devices \cup {None}
        /\ saving' \in BOOLEAN /\ resolve(kind', dump', device_id', record_hex', manual')
    BY <1>0, <1>2 DEF DumpChosen, TypeInv
  <2> QED
    BY <1>0, <2>1, <2>2, SourceRead, Closed
<1>3. CASE DeviceIdChanged
  <2>1. /\ after_source_change /\ kind' \in Kinds /\ device_id' \in Devices \cup {None}
        /\ dump' \in Typed \cup {None}
        /\ saving' \in BOOLEAN /\ resolve(kind', dump', device_id', record_hex', manual')
    BY <1>0, <1>3 DEF DeviceIdChanged, TypeInv
  <2> QED
    BY <1>0, <2>1, SourceRead, Closed
<1>4. CASE RecordHexChanged
  <2>1. /\ after_source_change /\ kind' \in Kinds /\ device_id' \in Devices \cup {None}
        /\ dump' \in Typed \cup {None}
        /\ saving' \in BOOLEAN /\ resolve(kind', dump', device_id', record_hex', manual')
    BY <1>0, <1>4 DEF RecordHexChanged, TypeInv
  <2> QED
    BY <1>0, <2>1, SourceRead, Closed
<1>5. CASE ManualFieldChanged
  <2>1. /\ after_source_change /\ kind' \in Kinds /\ device_id' \in Devices \cup {None}
        /\ dump' \in Typed \cup {None}
        /\ saving' \in BOOLEAN /\ resolve(kind', dump', device_id', record_hex', manual')
    BY <1>0, <1>5 DEF ManualFieldChanged, TypeInv
  <2> QED
    BY <1>0, <2>1, SourceRead, Closed
<1>6. CASE ChannelSelected
  <2>1. PICK c \in valid_channels(survey) : selected_channel' = c /\ load_channel_for_edit(c)
    BY <1>6 DEF ChannelSelected
  <2>2. c \in ImmoChannels /\ UNCHANGED <<source, saving>>
    BY <1>6 DEF ChannelSelected, valid_channels
  <2> QED
    BY <2>1, <2>2, ChannelOpened
<1>7. CASE Revert
  <2>1. /\ selected_channel \in ImmoChannels /\ load_channel_for_edit(selected_channel)
        /\ selected_channel' = selected_channel /\ UNCHANGED <<source, saving>>
    BY <1>0, <1>7 DEF Revert, editor_shown, TypeInv
  <2> QED
    BY <2>1, ChannelOpened
<1>8. CASE FieldChanged
  <2>1. /\ selected_channel \in ImmoChannels /\ selected_channel' = selected_channel
        /\ UNCHANGED <<source, saving, agreed>>
        /\ inputs' \in Identities \cup {Garbled} /\ apply_dflash_edits(inputs')
    BY <1>0, <1>8 DEF FieldChanged, editor_shown, TypeInv
  <2>2. inputs' \in {None, Garbled} \/ inputs'.st_stat_fct \in StStatFct
    BY <2>1, EditorAssumption
  <2>3. Derived'
    BY <1>0, <2>1 DEF Derived, source
  <2> DEFINE old == survey[selected_channel]
  <2>4. CASE old = None \/ inputs' = Garbled
    <3>1. UNCHANGED <<edited, confirm_write>> /\ (edit_error' = edit_error \/ edit_error' = TRUE)
      BY <2>1, <2>4 DEF apply_dflash_edits
    <3>2. TypeInv'
      BY <1>0, <2>1, <2>2, <3>1 DEF TypeInv, source
    <3>3. Opened' /\ Ticked'
      BY <1>0, <2>1, <3>1 DEF Opened, Ticked, source
    <3> QED
      BY <2>3, <3>2, <3>3 DEF Inv
  <2>5. CASE old # None /\ inputs' # Garbled
    <3>1. /\ edited' = set_identity(old, inputs')
          /\ edit_error' = FALSE /\ confirm_write' = FALSE
      BY <2>1, <2>5 DEF apply_dflash_edits
    <3>2. /\ dump # None /\ device_id # None /\ keys = device_id /\ keys # None
          /\ old = readable(dump, selected_channel, keys)
          /\ old \in Contents
      <4> USE <1>0, <2>1, <2>5, SurveyShown
      <4>1. dump # None /\ device_id # None /\ keys = device_id
        OBVIOUS
      <4> QED
        BY <4>1
    <3> HIDE DEF old
    <3>3. inputs' \in [vin : STRING, fields : STRING, st_stat_fct : StStatFct]
      BY <2>1, <2>5, EditorAssumption
    <3>4. edited' \in Contents /\ edited'.rest = old.rest
      BY <3>1, <3>2, <3>3 DEF set_identity, Contents
    <3>5. TypeInv'
      BY <1>0, <2>1, <2>2, <3>1, <3>4 DEF TypeInv, source
    <3>6. Opened'
      BY <2>1, <2>5, <3>2, <3>4 DEF Opened, source
    <3>7. Ticked'
      BY <3>1 DEF Ticked
    <3> QED
      BY <2>3, <3>5, <3>6, <3>7 DEF Inv
  <2> QED
    BY <2>4, <2>5
<1>9. CASE ConfirmWriteToggled
  <2>1. TypeInv'
    BY <1>0, <1>9 DEF ConfirmWriteToggled, TypeInv, source
  <2>2. Derived' /\ Opened' /\ Ticked'
    BY <1>0, <1>9 DEF ConfirmWriteToggled, Derived, Opened, Ticked, source
  <2> QED
    BY <2>1, <2>2 DEF Inv
<1>10. CASE SavePressed \/ SaveCancelled
  <2>1. UNCHANGED <<source, dflash, agreed>> /\ saving' \in BOOLEAN
    BY <1>10 DEF SavePressed, SaveCancelled
  <2>2. TypeInv'
    BY <1>0, <2>1 DEF TypeInv, source, dflash
  <2>3. Derived' /\ Opened' /\ Ticked'
    BY <1>0, <2>1 DEF Derived, Opened, Ticked, source, dflash
  <2> QED
    BY <2>2, <2>3 DEF Inv
<1>11. CASE SaveChosen
  <2>1. /\ UNCHANGED <<kind, device_id, record_hex, manual, keys, secrets, selected_channel,
                      edited, inputs, edit_error, agreed>>
        /\ saving' \in BOOLEAN
    BY <1>11 DEF SaveChosen
  <2>2. CASE IsWritten
    BY <2>1, <2>2, WrittenKeepsInv
  <2>3. CASE UNCHANGED <<dump, survey, confirm_write>>
    <3>1. TypeInv'
      BY <1>0, <2>1, <2>3 DEF TypeInv
    <3>2. Derived' /\ Opened' /\ Ticked'
      BY <1>0, <2>1, <2>3 DEF Derived, Opened, Ticked
    <3> QED
      BY <3>1, <3>2 DEF Inv
  <2> QED
    BY <1>0, <1>11, <2>2, <2>3, SaveChosenCases
<1>12. CASE UNCHANGED vars
  <2>1. TypeInv'
    BY <1>0, <1>12 DEF vars, source, dflash, TypeInv
  <2>2. Derived' /\ Opened' /\ Ticked'
    BY <1>0, <1>12 DEF vars, source, dflash, Derived, Opened, Ticked
  <2> QED
    BY <2>1, <2>2 DEF Inv
<1> QED
  BY <1>1, <1>2, <1>3, <1>4, <1>5, <1>6, <1>7, <1>8, <1>9, <1>10, <1>11, <1>12 DEF Next

\* The inductive invariant of the editor, for every set of images, Device IDs,
\* records and identities.
THEOREM Invariance == Spec => []Inv
BY InitInv, NextInv, PTL DEF Spec

\* Types; every copy on the screen passed its datDat CRC.
THEOREM TypeCorrect == Spec => []TypeOK
<1>1. Inv => TypeOK
  <2> SUFFICES ASSUME Inv PROVE TypeOK
    OBVIOUS
  <2>1. \A c \in ImmoChannels : survey[c] # None => survey[c].dat_dat_crc_ok
    BY SurveyShown DEF Inv
  <2> QED
    BY <2>1 DEF Inv, TypeInv, TypeOK
<1> QED
  BY <1>1, Invariance, PTL

\* The record in the editor is one of the image on the screen, and a save that
\* the button offers is one the box was ticked for (OwnSource, ConfirmCovers).
THEOREM OneImageOneEdit == Spec => []EditorAgrees
<1>1. Inv => EditorAgrees
  <2> SUFFICES ASSUME Inv PROVE OwnSource /\ ConfirmCovers
    BY DEF EditorAgrees
  <2>0. TypeInv /\ Derived /\ Opened /\ Ticked
    BY DEF Inv
  <2>1. ConfirmCovers
    BY <2>0 DEF ConfirmCovers, can_save, Ticked
  <2>2. ASSUME edited # None, keys # None
        PROVE  survey[selected_channel] # None /\ edited.rest = survey[selected_channel].rest
    <3>1. /\ selected_channel \in ImmoChannels
          /\ readable(dump, selected_channel, device_id) # None
          /\ edited.rest = readable(dump, selected_channel, device_id).rest
      BY <2>0, <2>2 DEF Opened
    <3>2. keys = device_id
      BY <2>0, <2>2 DEF Derived
    <3>3. survey[selected_channel] = readable(dump, selected_channel, keys)
      BY <2>0, <2>2, <3>1, SurveyShown
    <3> QED
      BY <3>1, <3>2, <3>3
  <2>3. OwnSource
    BY <2>0, <2>2 DEF OwnSource, Derived
  <2> QED
    BY <2>1, <2>3
<1> QED
  BY <1>1, Invariance, PTL

\* What SavedImage says of one save.
SaveIsRight ==
  LET rewritten(i) == /\ dump.records[i].channel \in valid_channels(survey)
                      /\ \A j \in DOMAIN dump.records :
                           j > i => dump.records[j].channel # dump.records[i].channel
      copy(i) == file'.records[i].content
  IN /\ file' = dump' /\ file'.headers = dump.headers
     /\ DOMAIN file'.records = DOMAIN dump.records
     /\ \A i \in DOMAIN dump.records :
          IF ~rewritten(i) THEN file'.records[i] = dump.records[i]
          ELSE /\ Identity(copy(i)) = Identity(edited)
               /\ copy(i).vin_copy \in {None, edited.vin}
               /\ copy(i).rest = dump.records[i].content.rest
               /\ [file'.records[i] EXCEPT !.content = 0] = [dump.records[i] EXCEPT !.content = 0]
     /\ valid_channels(survey') = valid_channels(survey)
     /\ find_generation(file') = find_generation(dump)

LEMMA WrittenIsRight ==
  ASSUME Inv, IsWritten
  PROVE  SaveIsRight
<1> DEFINE rewritten(i) == /\ dump.records[i].channel \in valid_channels(survey)
                           /\ \A j \in DOMAIN dump.records :
                                j > i => dump.records[j].channel # dump.records[i].channel
           f == Saved(dump, keys, edited)
<1>1. dump \in Typed /\ edited \in Contents /\ keys \in Devices /\ TypeInv /\ Derived
  BY DEF Inv, TypeInv, Derived, IsWritten
<1>2. file' = f /\ dump' = f /\ survey' = ImmoChannelSurvey(f, keys)
  BY DEF IsWritten
<1> HIDE DEF f
<1>3. /\ f \in Typed /\ SameShape(dump, f)
      /\ \A c \in ImmoChannels : readable(f, c, keys)
           = IF readable(dump, c, keys) = None THEN None ELSE Edit(readable(dump, c, keys), edited)
      /\ \A i \in Entries(dump) : f.records[i] =
           IF LiveCopy(dump, keys, i) THEN [dump.records[i] EXCEPT !.content = Edit(@, edited)]
           ELSE dump.records[i]
  BY <1>1, WroteAll DEF f
<1>4. f.headers = dump.headers /\ DOMAIN f.records = DOMAIN dump.records
  BY <1>3 DEF SameShape, Entries
<1>5. find_generation(f) = find_generation(dump)
  BY <1>1, <1>3, SameCounter
<1>6. \A c \in ImmoChannels : survey[c] = readable(dump, c, keys)
  BY <1>1, SurveyShown, EditorAssumption
<1>7. \A c \in ImmoChannels : survey'[c] = readable(f, c, keys)
  <2>1. f # None
    BY <1>3, EditorAssumption DEF Typed
  <2> QED
    BY <2>1, <1>2, <1>3, Surveyed
<1>8. valid_channels(survey') = valid_channels(survey)
  <2>1. ASSUME NEW c \in ImmoChannels, readable(dump, c, keys) # None
        PROVE  readable(f, c, keys) # None
    <3>1. Edit(readable(dump, c, keys), edited) \in Contents
      BY <1>1, <2>1, Reading, Edited
    <3> QED
      BY <3>1, <2>1, <1>3, EditorAssumption
  <2>2. \A c \in ImmoChannels : readable(dump, c, keys) = None => readable(f, c, keys) = None
    BY <1>3
  <2> QED
    BY <2>1, <2>2, <1>6, <1>7 DEF valid_channels
<1>9. ASSUME NEW i \in DOMAIN dump.records
      PROVE  rewritten(i) <=> LiveCopy(dump, keys, i)
  <2>1. ASSUME LiveCopy(dump, keys, i) PROVE rewritten(i)
    <3>1. PICK c \in ImmoChannels : readable(dump, c, keys) # None /\ i = latest(dump, c)
      BY <2>1 DEF LiveCopy
    <3>2. c \in channels(dump)
      BY <1>1, <3>1, Reading
    <3>3. /\ dump.records[i].channel = c
          /\ \A j \in Entries(dump) : j > i => dump.records[j].channel # c
      BY <1>1, <3>1, <3>2, LatestIsLast
    <3>4. c \in valid_channels(survey)
      BY <1>6, <3>1 DEF valid_channels
    <3> QED
      BY <3>3, <3>4 DEF Entries
  <2>2. ASSUME rewritten(i) PROVE LiveCopy(dump, keys, i)
    <3> DEFINE c == dump.records[i].channel
    <3>1. c \in ImmoChannels /\ readable(dump, c, keys) # None
      BY <2>2, <1>6 DEF valid_channels
    <3>2. c \in channels(dump)
      BY DEF channels
    <3>3. /\ latest(dump, c) \in Entries(dump) /\ dump.records[latest(dump, c)].channel = c
          /\ \A j \in Entries(dump) : j > latest(dump, c) => dump.records[j].channel # c
      BY <1>1, <3>2, LatestIsLast
    <3>4. \A j \in Entries(dump) : j \in Nat
      BY <1>1, TypedImage
    <3>5. i = latest(dump, c)
      <4>1. ~(i > latest(dump, c))
        BY <3>3 DEF Entries
      <4>2. ~(latest(dump, c) > i)
        BY <2>2, <3>3 DEF Entries
      <4> QED
        BY <4>1, <4>2, <3>3, <3>4 DEF Entries
    <3> QED
      BY <3>1, <3>5 DEF LiveCopy
  <2> QED
    BY <2>1, <2>2
<1>10. ASSUME NEW i \in DOMAIN dump.records, rewritten(i)
       PROVE  /\ Identity(f.records[i].content) = Identity(edited)
              /\ f.records[i].content.vin_copy \in {None, edited.vin}
              /\ f.records[i].content.rest = dump.records[i].content.rest
              /\ [f.records[i] EXCEPT !.content = 0] = [dump.records[i] EXCEPT !.content = 0]
  <2> DEFINE r == dump.records[i]
  <2>1. r \in RecordsOf(Contents)
    BY <1>1, TypedImage DEF Entries
  <2>2. LiveCopy(dump, keys, i)
    BY <1>9, <1>10
  <2>3. f.records[i] = [r EXCEPT !.content = Edit(r.content, edited)]
    BY <2>1, <2>2, <1>3 DEF Entries, RecordsOf
  <2> HIDE DEF r
  <2>4. r.content \in Contents
    BY <2>1 DEF RecordsOf
  <2>5. f.records[i].content = Edit(r.content, edited)
    BY <2>1, <2>3 DEF RecordsOf
  <2>6. /\ Identity(Edit(r.content, edited)) = Identity(edited)
        /\ Edit(r.content, edited).vin_copy \in {None, edited.vin}
        /\ Edit(r.content, edited).rest = r.content.rest
    BY <1>1, <2>4, Edited
  <2>7. [f.records[i] EXCEPT !.content = 0] = [r EXCEPT !.content = 0]
    BY <2>1, <2>3 DEF RecordsOf
  <2> QED
    BY <2>5, <2>6, <2>7 DEF r
<1>11. ASSUME NEW i \in DOMAIN dump.records, ~rewritten(i)
       PROVE  f.records[i] = dump.records[i]
  BY <1>3, <1>9, <1>11 DEF Entries
<1> HIDE DEF rewritten
<1>12. /\ file' = dump' /\ file'.headers = dump.headers
       /\ DOMAIN file'.records = DOMAIN dump.records
       /\ \A i \in DOMAIN dump.records :
            IF ~rewritten(i) THEN file'.records[i] = dump.records[i]
            ELSE /\ Identity(file'.records[i].content) = Identity(edited)
                 /\ file'.records[i].content.vin_copy \in {None, edited.vin}
                 /\ file'.records[i].content.rest = dump.records[i].content.rest
                 /\ [file'.records[i] EXCEPT !.content = 0] = [dump.records[i] EXCEPT !.content = 0]
       /\ valid_channels(survey') = valid_channels(survey)
       /\ find_generation(file') = find_generation(dump)
  BY <1>2, <1>4, <1>5, <1>8, <1>10, <1>11
<1> QED
  BY <1>12 DEF SaveIsRight, rewritten

\* A step that closes the dialog and changes the file wrote it.
LEMMA SavesWrite ==
  ASSUME TypeInv, Next, IsSave
  PROVE  IsWritten
<1>1. CASE SaveChosen
  BY <1>1, SaveChosenCases DEF IsSave
<1>2. CASE SaveCancelled
  BY <1>2 DEF SaveCancelled, IsSave
<1>3. CASE SavePressed
  BY <1>3 DEF SavePressed, IsSave
<1>4. CASE ~(SaveChosen \/ SaveCancelled \/ SavePressed)
  <2>1. saving' = saving
    BY <1>4 DEF Next, SourceKindChanged, DumpChosen, DeviceIdChanged, RecordHexChanged,
                ManualFieldChanged, ChannelSelected, Revert, FieldChanged, ConfirmWriteToggled
  <2> QED
    BY <2>1 DEF IsSave
<1> QED
  BY <1>1, <1>2, <1>3, <1>4

\* A save changes the identity in the live copies of channels 6, 7 and 8 that
\* can be read and nothing else of the image, whatever the image holds, however
\* its counter was found and whatever was typed.
THEOREM SaveTouchesIdentityOnly == Spec => SavedImage
<1>1. Inv /\ [Next]_vars => [IsSave => SaveIsRight]_vars
  BY SavesWrite, WrittenIsRight DEF Inv
<1>2. Spec => [][IsSave => SaveIsRight]_vars
  BY <1>1, Invariance, PTL DEF Spec
<1> QED
  BY <1>2 DEF SavedImage, SaveIsRight

(***************************************************************************)
(* What the A2L viewer shows is of the files that are loaded, for every    *)
(* description, image, filter and number of dialogs.                       *)
(*                                                                         *)
(* The list is computed by recursion over the indices.  The lemmas on      *)
(* Collected prove what it holds by induction on a set of numbers, which   *)
(* SetInduction reduces to the pigeonhole principle.                       *)
(***************************************************************************)
-----------------------------------------------------------------------------
(***************************************************************************)
(* The list.                                                               *)
(***************************************************************************)
\* One step of the recursion.
Entry(S, g, i) == IF i = 0 THEN <<>> ELSE IF i \in S THEN Append(g[i - 1], i) ELSE g[i - 1]

\* The recursion of Collected has a solution.
LEMMA UptoExists ==
  ASSUME NEW S, NEW n \in Nat
  PROVE  \E g : g = [i \in 0..n |-> Entry(S, g, i)]
<1> DEFINE Solves(g, m) == g = [i \in 0..m |-> Entry(S, g, i)]
           P == {m \in Nat : \E g : Solves(g, m)}
<1>1. 0 \in P
  <2> DEFINE g == [i \in 0..0 |-> <<>>]
  <2>1. Solves(g, 0)
    BY DEF Entry
  <2> QED
    BY <2>1
<1>2. ASSUME NEW m \in Nat, m \in P PROVE m + 1 \in P
  <2>1. PICK g : Solves(g, m)
    BY <1>2
  <2> DEFINE h == [i \in 0..(m + 1) |-> IF i = m + 1 THEN Entry(S, g, i) ELSE g[i]]
  <2>2. \A i \in 0..m : g[i] = Entry(S, g, i)
    BY <2>1
  <2> HIDE DEF Solves
  <2>3. \A i \in 0..(m + 1) : h[i] = Entry(S, g, i)
    BY <2>2
  <2>4. \A i \in 0..(m + 1) : Entry(S, h, i) = Entry(S, g, i)
    BY DEF Entry
  <2>5. h = [i \in 0..(m + 1) |-> Entry(S, h, i)]
    BY <2>3, <2>4
  <2>6. Solves(h, m + 1)
    BY <2>5 DEF Solves
  <2> QED
    BY <2>6
<1>3. Nat \subseteq P
  <2> HIDE DEF P
  <2> QED
    BY <1>1, <1>2, SetInduction
<1> QED
  BY <1>3

\* Collected is computed by a function that solves the recursion.
LEMMA CollectedSolved ==
  ASSUME NEW S, NEW n \in Nat
  PROVE  \E g : Collected(S, n) = g[n] /\ \A i \in 0..n : g[i] = Entry(S, g, i)
<1> DEFINE g == CHOOSE c : c = [i \in 0..n |-> Entry(S, c, i)]
<1>1. g = [i \in 0..n |-> Entry(S, g, i)]
  BY UptoExists
<1>2. Collected(S, n) = g[n]
  BY DEF Collected, Entry
<1> HIDE DEF g
<1>3. \A i \in 0..n : g[i] = Entry(S, g, i)
  BY <1>1
<1> QED
  BY <1>2, <1>3

\* s lists what S holds up to n: each number once, in ascending order.
Lists(s, S, n) ==
  /\ s \in Seq(S \cap (1..n))
  /\ Len(s) <= n
  /\ \A k \in S \cap (1..n) : \E p \in 1..Len(s) : s[p] = k
  /\ \A p, q \in 1..Len(s) : p < q => s[p] < s[q]

LEMMA ListsNothing ==
  ASSUME NEW S PROVE Lists(<<>>, S, 0)
<1>1. <<>> \in Seq(S \cap (1..0)) /\ Len(<<>>) = 0
  BY EmptySeq
<1>2. 1..0 = {}
  OBVIOUS
<1> QED
  BY <1>1, <1>2 DEF Lists

LEMMA ListsMore ==
  ASSUME NEW S, NEW n \in Nat, NEW s, Lists(s, S, n)
  PROVE  Lists(IF n + 1 \in S THEN Append(s, n + 1) ELSE s, S, n + 1)
<1> DEFINE T == S \cap (1..n)
           U == S \cap (1..(n + 1))
<1>1. s \in Seq(T) /\ Len(s) \in Nat /\ Len(s) <= n
  BY LenProperties DEF Lists
<1>2. T \subseteq U
  OBVIOUS
<1>3. s \in Seq(U)
  BY <1>1, <1>2, SeqMonotonic
<1>4. CASE n + 1 \in S
  <2> DEFINE t == Append(s, n + 1)
  <2>1. n + 1 \in U
    BY <1>4
  <2>2. /\ t \in Seq(U) /\ Len(t) = Len(s) + 1
        /\ \A i \in 1..Len(s) : t[i] = s[i]
        /\ t[Len(s) + 1] = n + 1
    BY <1>3, <2>1, AppendProperties
  <2>3. \A i \in 1..Len(s) : s[i] \in 1..n
    BY <1>1, ElementOfSeq
  <2> HIDE DEF t
  <2>4. ASSUME NEW k \in U PROVE \E p \in 1..Len(t) : t[p] = k
    <3>1. CASE k = n + 1
      BY <1>1, <2>2, <3>1
    <3>2. CASE k # n + 1
      <4>1. k \in T
        BY <3>2
      <4>2. PICK p \in 1..Len(s) : s[p] = k
        BY <4>1 DEF Lists
      <4>3. p \in 1..Len(t) /\ t[p] = k
        BY <1>1, <2>2, <4>2
      <4> QED
        BY <4>3
    <3> QED
      BY <3>1, <3>2
  <2>5. ASSUME NEW p \in 1..Len(t), NEW q \in 1..Len(t), p < q PROVE t[p] < t[q]
    <3>1. p \in 1..Len(s) /\ t[p] = s[p] /\ s[p] \in 1..n
      BY <1>1, <2>2, <2>3, <2>5
    <3>2. CASE q = Len(s) + 1
      BY <2>2, <3>1, <3>2
    <3>3. CASE q # Len(s) + 1
      <4>1. q \in 1..Len(s) /\ t[q] = s[q]
        BY <1>1, <2>2, <3>3
      <4>2. s[p] < s[q]
        BY <2>5, <3>1, <4>1 DEF Lists
      <4> QED
        BY <3>1, <4>1, <4>2
    <3> QED
      BY <3>2, <3>3
  <2>6. Len(t) <= n + 1
    BY <1>1, <2>2
  <2>7. Lists(t, S, n + 1)
    BY <2>2, <2>4, <2>5, <2>6 DEF Lists
  <2> QED
    BY <1>4, <2>7 DEF t
<1>5. CASE n + 1 \notin S
  <2>1. T = U
    BY <1>5
  <2>2. Lists(s, S, n + 1)
    BY <1>1, <2>1 DEF Lists
  <2> QED
    BY <1>5, <2>2
<1> QED
  BY <1>4, <1>5

\* Collected lists the characteristics that the filters leave: each once, in the
\* order of the file (rebuild_filter, before it truncates).
THEOREM CollectedLists ==
  ASSUME NEW S, NEW n \in Nat
  PROVE  Lists(Collected(S, n), S, n)
<1>1. PICK g : Collected(S, n) = g[n] /\ \A i \in 0..n : g[i] = Entry(S, g, i)
  BY CollectedSolved
<1> DEFINE P == {i \in Nat : i <= n => Lists(g[i], S, i)}
<1>2. 0 \in P
  <2>1. g[0] = <<>>
    BY <1>1 DEF Entry
  <2> QED
    BY <2>1, ListsNothing
<1>3. ASSUME NEW i \in Nat, i \in P PROVE i + 1 \in P
  <2> SUFFICES ASSUME i + 1 <= n PROVE Lists(g[i + 1], S, i + 1)
    OBVIOUS
  <2>1. Lists(g[i], S, i)
    BY <1>3
  <2>2. g[i + 1] = IF i + 1 \in S THEN Append(g[i], i + 1) ELSE g[i]
    <3>1. i + 1 \in 0..n /\ i + 1 # 0 /\ (i + 1) - 1 = i
      OBVIOUS
    <3>2. g[i + 1] = Entry(S, g, i + 1)
      BY <1>1, <3>1
    <3> QED
      BY <3>1, <3>2 DEF Entry
  <2>3. Lists(IF i + 1 \in S THEN Append(g[i], i + 1) ELSE g[i], S, i + 1)
    BY <2>1, ListsMore
  <2> QED
    BY <2>2, <2>3
<1> HIDE DEF P
<1>4. n \in P
  BY <1>2, <1>3, SetInduction
<1> QED
  BY <1>1, <1>4 DEF P

\* Whatever the filters, the list is one of indices of the file, and not too long.
LEMMA ListTyped ==
  ASSUME NEW a \in A2ls, NEW fl, NEW sh, NEW ch
  PROVE  /\ rebuild_filter(a, fl, sh, ch) \in Seq(1..Length[a])
         /\ Len(rebuild_filter(a, fl, sh, ch)) <= MAX_DISPLAY
<1> DEFINE S == {i \in 1..Length[a] : Admits(a, i, fl, sh, ch)}
           all == Collected(S, Length[a])
           N == 1..Length[a]
<1>1. Length[a] \in Nat /\ a # Nothing
  BY FilesAssumption
<1>2. all \in Seq(S \cap N)
  BY <1>1, CollectedLists DEF Lists
<1>3. all \in Seq(N)
  <2>1. S \cap N \subseteq N
    OBVIOUS
  <2> HIDE DEF S, N, all
  <2> QED
    BY <1>2, <2>1, SeqMonotonic
<1>4. rebuild_filter(a, fl, sh, ch)
        = IF Len(all) <= MAX_DISPLAY THEN all ELSE SubSeq(all, 1, MAX_DISPLAY)
  BY <1>1 DEF rebuild_filter
<1> HIDE DEF all
<1>5. Len(all) \in Nat /\ \A i \in 1..Len(all) : all[i] \in N
  BY <1>3, LenProperties, ElementOfSeq
<1>6. CASE Len(all) <= MAX_DISPLAY
  BY <1>3, <1>4, <1>6
<1>7. CASE ~(Len(all) <= MAX_DISPLAY)
  <2>1. MAX_DISPLAY \in Nat \ {0}
    BY BoundsAssumption
  <2>2. \A i \in 1..MAX_DISPLAY : all[i] \in N
    BY <1>5, <1>7, <2>1
  <2>3. SubSeq(all, 1, MAX_DISPLAY) \in Seq(N) /\ Len(SubSeq(all, 1, MAX_DISPLAY)) = MAX_DISPLAY
    BY <2>1, <2>2, SubSeqProperties
  <2> QED
    BY <1>4, <1>7, <2>1, <2>3
<1> QED
  BY <1>6, <1>7

-----------------------------------------------------------------------------
(***************************************************************************)
(* The steps.                                                              *)
(***************************************************************************)
ViewerInv == ViewerTypeOK /\ ScreenFollows

Filters == [category : Names \union {Nothing}, text : Texts, axis : AxisNames \union {Nothing}]
Shows == [compare_mode : BOOLEAN, changed_only : BOOLEAN, rescale_only : BOOLEAN,
          hide_uniform : BOOLEAN]
Changes == {c \in [changed : SUBSET Nat, axis_same : SUBSET Nat, uniform : SUBSET Nat] :
              c.uniform \subseteq c.axis_same}

\* The list of the file that is loaded, if any.
LEMMA ListOfLoaded ==
  ASSUME ViewerTypeOK, NEW fl, NEW sh, NEW ch
  PROVE  /\ rebuild_filter(loaded["a2l"], fl, sh, ch) \in Seq(Indices)
         /\ Len(rebuild_filter(loaded["a2l"], fl, sh, ch)) <= MAX_DISPLAY
<1>1. loaded["a2l"] \in A2ls \union {Nothing}
  BY DEF ViewerTypeOK, Slots, FilesOf
<1>2. CASE loaded["a2l"] = Nothing
  <2>1. rebuild_filter(loaded["a2l"], fl, sh, ch) = <<>> /\ Indices = {}
    BY <1>2 DEF rebuild_filter, Indices
  <2>2. <<>> \in Seq({}) /\ Len(<<>>) = 0
    BY EmptySeq
  <2> QED
    BY <2>1, <2>2, BoundsAssumption
<1>3. CASE loaded["a2l"] # Nothing
  <2>1. Indices = 1..Length[loaded["a2l"]]
    BY <1>3 DEF Indices
  <2> QED
    BY <1>1, <1>3, <2>1, ListTyped
<1> QED
  BY <1>2, <1>3

LEMMA ChangesTyped ==
  ASSUME NEW a \in A2ls, NEW b1, NEW b2, NEW m
  PROVE  compute_changed_set(a, b1, b2, m) \in Changes
<1>1. Length[a] \in Nat
  BY FilesAssumption
<1>2. 1..Length[a] \subseteq Nat
  BY <1>1
<1> QED
  BY <1>2 DEF compute_changed_set, Changes

LEMMA NoneChanged == NoChanges \in Changes
  BY DEF NoChanges, Changes

LEMMA Initially ==
  ASSUME ViewerInit PROVE ViewerInv
<1>0. /\ filtered = <<>> /\ selected = Nothing /\ changes = NoChanges /\ computing = FALSE
      /\ tasks = {} /\ loads = 0 /\ module = "Simos18"
  BY DEF ViewerInit
<1>1. loaded["a2l"] = Nothing /\ loaded["bin"] = Nothing /\ Indices = {}
  BY DEF ViewerInit, Slots, Indices
<1>2. rebuild_filter(loaded["a2l"], filter, show, changes) = <<>>
  BY <1>1 DEF rebuild_filter
<1>3. <<>> \in Seq(Indices) /\ Len(<<>>) = 0
  BY EmptySeq
<1>4. filter \in Filters /\ show \in Shows
  BY FilesAssumption DEF ViewerInit, Filters, Shows
<1>5. ViewerTypeOK
  <2>1. loaded \in [Slots -> A2ls \union Bins \union {Nothing}] /\ loading \in [Slots -> BOOLEAN]
        /\ \A s \in Slots : loaded[s] \in FilesOf(s) \union {Nothing}
    BY DEF ViewerInit
  <2>2. /\ loads \in 0..MaxLoads /\ module \in Modules
        /\ tasks \subseteq Work /\ selected \in Indices \union {Nothing} /\ changes \in Changes
    BY <1>0, NoneChanged, BoundsAssumption DEF Modules
  <2>3. computing \in BOOLEAN
    BY <1>0, Zenon
  <2>4. filtered \in Seq(Indices) /\ Len(filtered) <= MAX_DISPLAY
    BY <1>0, <1>3, BoundsAssumption
  <2> QED
    BY <1>4, <2>1, <2>2, <2>3, <2>4 DEF ViewerTypeOK, Filters, Shows, Changes
<1>6. ScreenFollows
  BY <1>1, <1>2 DEF ViewerInit, ScreenFollows, ScreenIsCurrent, AnnouncedWorkIsUnderWay,
                    read_selected, Value, NoValues, Slots
<1> QED
  BY <1>5, <1>6 DEF ViewerInv

\* The user changed a filter or a switch: the list is made anew.
LEMMA RelistStep ==
  ASSUME ViewerInv, NEW fl \in Filters, NEW sh \in Shows, Relist(fl, sh),
         selected' = selected, cached' = cached \/ cached' = read_selected(loaded, module, selected)
  PROVE  ViewerInv'
<1>1. /\ filter' = fl /\ show' = sh /\ filtered' = rebuild_filter(loaded["a2l"], fl, sh, changes)
      /\ UNCHANGED <<loaded, loading, module, loads, changes, computing, tasks>>
  BY DEF Relist, files
<1>2. Indices' = Indices
  BY <1>1 DEF Indices
<1>3. filtered' \in Seq(Indices) /\ Len(filtered') <= MAX_DISPLAY
  BY <1>1, ListOfLoaded DEF ViewerInv
<1>4. ViewerTypeOK'
  BY <1>1, <1>2, <1>3 DEF ViewerInv, ViewerTypeOK, Filters, Shows
<1>5. ScreenFollows'
  BY <1>1 DEF ViewerInv, ScreenFollows, ScreenIsCurrent, AnnouncedWorkIsUnderWay
<1> QED
  BY <1>4, <1>5 DEF ViewerInv

\* A characteristic of the list is selected.
LEMMA SelectStep ==
  ASSUME ViewerInv, NEW i \in Indices, Select(i)
  PROVE  ViewerInv'
<1>1. /\ selected' = i /\ cached' = read_selected(loaded, module, i)
      /\ UNCHANGED <<loaded, loading, module, loads, filter, show, filtered, changes,
                     computing, tasks>>
  BY DEF Select, files, list
<1>2. Indices' = Indices
  BY <1>1 DEF Indices
<1>3. ViewerTypeOK'
  BY <1>1, <1>2 DEF ViewerInv, ViewerTypeOK
<1>4. ScreenFollows'
  BY <1>1 DEF ViewerInv, ScreenFollows, ScreenIsCurrent, AnnouncedWorkIsUnderWay
<1> QED
  BY <1>3, <1>4 DEF ViewerInv

LEMMA TaskKinds ==
  /\ \A s \in Slots : Dialog(s) \in Work /\ Dialog(s).kind = "dialog" /\ Dialog(s).slot = s
  /\ \A s \in Slots : \A f : Load(s, f).kind = "load" /\ Load(s, f).slot = s
  /\ \A a, b1, b2, m : Compare(a, b1, b2, m).kind = "compare"
  BY DEF Dialog, Load, Compare, Work

\* A task that ends takes its announcement with it.
LEMMA Ended ==
  ASSUME ViewerInv, NEW s \in Slots, NEW t, t.kind # "compare", t.slot = s,
         loading' = [loading EXCEPT ![s] = FALSE], tasks \ {t} \subseteq tasks'
  PROVE  /\ loading' \in [Slots -> BOOLEAN]
         /\ \A r \in Slots : loading'[r] => \E u \in tasks' : u.kind # "compare" /\ u.slot = r
         /\ computing => \E u \in tasks' : u.kind = "compare"
<1>1. loading \in [Slots -> BOOLEAN] /\ AnnouncedWorkIsUnderWay
  BY DEF ViewerInv, ViewerTypeOK, ScreenFollows
<1>2. loading' \in [Slots -> BOOLEAN]
  BY <1>1
<1>3. ASSUME NEW r \in Slots, loading'[r]
      PROVE  \E u \in tasks' : u.kind # "compare" /\ u.slot = r
  <2>1. r # s /\ loading[r]
    BY <1>1, <1>3
  <2>2. PICK u \in tasks : u.kind # "compare" /\ u.slot = r
    BY <1>1, <2>1 DEF AnnouncedWorkIsUnderWay
  <2> QED
    BY <2>1, <2>2
<1>4. computing => \E u \in tasks' : u.kind = "compare"
  BY <1>1 DEF AnnouncedWorkIsUnderWay
<1> QED
  BY <1>2, <1>3, <1>4

\* A dialog or a failed load leaves what is on the screen.
LEMMA DialogStep ==
  ASSUME ViewerInv, loads' \in 0..MaxLoads, loading' \in [Slots -> BOOLEAN], tasks' \subseteq Work,
         UNCHANGED <<loaded, module, list, pane, changes, computing>>,
         \A s \in Slots : loading'[s] => \E t \in tasks' : t.kind # "compare" /\ t.slot = s,
         computing => \E t \in tasks' : t.kind = "compare"
  PROVE  ViewerInv'
<1>1. UNCHANGED <<loaded, module, filter, show, filtered, selected, cached, changes, computing>>
  BY DEF list, pane
<1>2. ViewerTypeOK'
  <2>1. Indices' = Indices
    BY <1>1 DEF Indices
  <2> QED
    BY <1>1, <2>1 DEF ViewerInv, ViewerTypeOK
<1>3. ScreenFollows'
  BY <1>1 DEF ViewerInv, ScreenFollows, ScreenIsCurrent, AnnouncedWorkIsUnderWay
<1> QED
  BY <1>2, <1>3 DEF ViewerInv

LEMMA OpenDialogStep ==
  ASSUME ViewerInv, NEW s \in Slots, OpenDialog(s)
  PROVE  ViewerInv'
<1>1. /\ loading' = [loading EXCEPT ![s] = TRUE] /\ tasks' = tasks \union {Dialog(s)}
      /\ loads < MaxLoads /\ loads' = loads + 1
      /\ UNCHANGED <<loaded, module, list, pane, changes, computing>>
  BY DEF OpenDialog
<1>2. /\ loading \in [Slots -> BOOLEAN] /\ tasks \subseteq Work /\ loads \in 0..MaxLoads
      /\ AnnouncedWorkIsUnderWay
  BY DEF ViewerInv, ViewerTypeOK, ScreenFollows
<1>3. loads' \in 0..MaxLoads /\ loading' \in [Slots -> BOOLEAN] /\ tasks' \subseteq Work
  BY <1>1, <1>2, TaskKinds, BoundsAssumption
<1>4. ASSUME NEW r \in Slots, loading'[r]
      PROVE  \E t \in tasks' : t.kind # "compare" /\ t.slot = r
  <2>1. CASE r = s
    <3>1. Dialog(s) \in tasks' /\ Dialog(s).kind # "compare" /\ Dialog(s).slot = r
      BY <1>1, <2>1, TaskKinds
    <3> QED
      BY <3>1
  <2>2. CASE r # s
    <3>1. loading[r]
      BY <1>1, <1>2, <1>4, <2>2
    <3> QED
      BY <1>1, <1>2, <3>1 DEF AnnouncedWorkIsUnderWay
  <2> QED
    BY <2>1, <2>2
<1>5. computing => \E t \in tasks' : t.kind = "compare"
  BY <1>1, <1>2 DEF AnnouncedWorkIsUnderWay
<1> QED
  BY <1>1, <1>3, <1>4, <1>5, DialogStep

LEMMA PickedStep ==
  ASSUME ViewerInv, NEW s \in Slots, Picked(s)
  PROVE  ViewerInv'
<1>1. Dialog(s) \in tasks /\ UNCHANGED <<loaded, module, loads, list, pane, changes, computing>>
  BY DEF Picked
<1>2. /\ loading \in [Slots -> BOOLEAN] /\ tasks \subseteq Work /\ loads' \in 0..MaxLoads
      /\ AnnouncedWorkIsUnderWay
  BY <1>1 DEF ViewerInv, ViewerTypeOK, ScreenFollows
<1>3. CASE loading' = [loading EXCEPT ![s] = FALSE] /\ tasks' = tasks \ {Dialog(s)}
  <2>1. Dialog(s).kind # "compare" /\ Dialog(s).slot = s
    BY TaskKinds
  <2>2. /\ loading' \in [Slots -> BOOLEAN]
        /\ \A r \in Slots : loading'[r] => \E u \in tasks' : u.kind # "compare" /\ u.slot = r
        /\ computing => \E u \in tasks' : u.kind = "compare"
    BY <1>3, <2>1, Ended
  <2>3. tasks' \subseteq Work
    BY <1>2, <1>3
  <2> QED
    BY <1>1, <1>2, <2>2, <2>3, DialogStep
<1>4. ASSUME NEW f \in FilesOf(s) \union {Nothing},
             tasks' = (tasks \ {Dialog(s)}) \union {Load(s, f)}, loading' = loading
      PROVE  ViewerInv'
  <2>1. Load(s, f) \in Work
    BY DEF FilesOf, Work
  <2>2. ASSUME NEW r \in Slots, loading'[r]
        PROVE  \E t \in tasks' : t.kind # "compare" /\ t.slot = r
    <3>1. PICK t \in tasks : t.kind # "compare" /\ t.slot = r
      BY <1>2, <1>4, <2>2 DEF AnnouncedWorkIsUnderWay
    <3>2. CASE t = Dialog(s)
      <4>1. r = s
        BY <3>1, <3>2, TaskKinds
      <4>2. Load(s, f) \in tasks' /\ Load(s, f).kind # "compare" /\ Load(s, f).slot = r
        BY <1>4, <4>1, TaskKinds
      <4> QED
        BY <4>2
    <3>3. CASE t # Dialog(s)
      BY <1>4, <3>1, <3>3
    <3> QED
      BY <3>2, <3>3
  <2>3. computing => \E t \in tasks' : t.kind = "compare"
    <3> SUFFICES ASSUME computing PROVE \E t \in tasks' : t.kind = "compare"
      OBVIOUS
    <3>1. PICK t \in tasks : t.kind = "compare"
      BY <1>2 DEF AnnouncedWorkIsUnderWay
    <3>2. t # Dialog(s)
      BY <3>1, TaskKinds
    <3> QED
      BY <1>4, <3>1, <3>2
  <2>4. tasks' \subseteq Work /\ loading' \in [Slots -> BOOLEAN]
    BY <1>2, <1>4, <2>1
  <2> QED
    BY <1>1, <1>2, <2>2, <2>3, <2>4, DialogStep
<1> QED
  BY <1>3, <1>4 DEF Picked

LEMMA LoadFailsStep ==
  ASSUME ViewerInv, NEW s \in Slots, LoadFails(s)
  PROVE  ViewerInv'
<1>1. /\ tasks' = tasks \ {Load(s, Nothing)} /\ loading' = [loading EXCEPT ![s] = FALSE]
      /\ UNCHANGED <<loaded, module, loads, list, pane, changes, computing>>
  BY DEF LoadFails
<1>2. tasks' \subseteq Work /\ loads' \in 0..MaxLoads
  BY <1>1 DEF ViewerInv, ViewerTypeOK
<1>3. Load(s, Nothing).kind # "compare" /\ Load(s, Nothing).slot = s
  BY TaskKinds
<1>4. /\ loading' \in [Slots -> BOOLEAN]
      /\ \A r \in Slots : loading'[r] => \E u \in tasks' : u.kind # "compare" /\ u.slot = r
      /\ computing => \E u \in tasks' : u.kind = "compare"
  BY <1>1, <1>3, Ended
<1> QED
  BY <1>1, <1>2, <1>4, DialogStep

\* The list goes out of date only while a comparison is announced, and one is
\* announced only when it is under way.
LEMMA Compared ==
  ASSUME ViewerInv, NEW fs, \A s \in Slots : fs[s] \in FilesOf(s) \union {Nothing}, NEW m \in Modules,
         NEW rest \in SUBSET tasks, \A t \in tasks : t.kind = "compare" => t \in rest,
         maybe_compute_changes(fs, m, rest)
  PROVE  /\ rest \subseteq tasks' /\ tasks' \subseteq Work
         /\ computing' \in BOOLEAN /\ changes' \in Changes
         /\ computing' => \E t \in tasks' : t.kind = "compare"
         /\ ~computing' => ~computing /\ changes' = changes
<1>1. /\ tasks \subseteq Work /\ computing \in BOOLEAN /\ changes \in Changes
      /\ computing => \E t \in tasks : t.kind = "compare"
  BY DEF ViewerInv, ViewerTypeOK, Changes, ScreenFollows, AnnouncedWorkIsUnderWay
<1>2. CASE Nothing \in {fs[s] : s \in Slots}
  <2>1. changes' = changes /\ UNCHANGED computing /\ tasks' = rest
    BY <1>2 DEF maybe_compute_changes
  <2>2. computing' <=> computing
    BY <2>1
  <2>3. computing' \in BOOLEAN
    BY <1>1, <2>1
  <2> QED
    BY <1>1, <2>1, <2>2, <2>3
<1>3. CASE Nothing \notin {fs[s] : s \in Slots}
  <2> DEFINE c == Compare(fs["a2l"], fs["bin"], fs["bin2"], m)
  <2>1. computing' = TRUE /\ changes' = NoChanges /\ tasks' = rest \union {c}
    BY <1>3 DEF maybe_compute_changes
  <2>2. fs["a2l"] \in A2ls /\ fs["bin"] \in Bins /\ fs["bin2"] \in Bins
    BY <1>3 DEF Slots, FilesOf
  <2>3. c \in Work /\ c.kind = "compare"
    BY <2>2, TaskKinds DEF Work
  <2> HIDE DEF c
  <2>4. computing' \in BOOLEAN /\ computing'
    BY <2>1, Zenon
  <2> QED
    BY <1>1, <2>1, <2>3, <2>4, NoneChanged
<1> QED
  BY <1>2, <1>3

LEMMA A2lLoadedStep ==
  ASSUME ViewerInv, NEW a \in A2ls, A2lLoaded(a)
  PROVE  ViewerInv'
<1>1. /\ tasks' = tasks \ {Load("a2l", a)}
      /\ loaded' = [loaded EXCEPT !["a2l"] = a] /\ loading' = [loading EXCEPT !["a2l"] = FALSE]
      /\ selected' = Nothing /\ cached' = NoValues
      /\ filter' = [filter EXCEPT !.category = Nothing] /\ changes' = [changes EXCEPT !.changed = {}]
      /\ filtered' = rebuild_filter(a, filter', show, changes')
      /\ UNCHANGED <<module, loads, show, computing>> /\ a # Nothing
  BY DEF A2lLoaded
<1>2. loaded \in [Slots -> A2ls \union Bins \union {Nothing}] /\ "a2l" \in Slots
  BY DEF ViewerInv, ViewerTypeOK, Slots
<1>3. loaded'["a2l"] = a /\ Indices' = 1..Length[a]
  BY <1>1, <1>2 DEF Indices
<1>4. Load("a2l", a).kind # "compare" /\ Load("a2l", a).slot = "a2l"
  BY <1>2, TaskKinds
<1>5. /\ loading' \in [Slots -> BOOLEAN]
      /\ \A r \in Slots : loading'[r] => \E u \in tasks' : u.kind # "compare" /\ u.slot = r
      /\ computing => \E u \in tasks' : u.kind = "compare"
  BY <1>1, <1>2, <1>4, Ended
<1>6. ViewerTypeOK'
  <2>1. /\ loaded' \in [Slots -> A2ls \union Bins \union {Nothing}]
        /\ \A s \in Slots : loaded'[s] \in FilesOf(s) \union {Nothing}
    BY <1>1 DEF ViewerInv, ViewerTypeOK, FilesOf, Slots
  <2>2. filter' \in Filters /\ changes' \in Changes
    BY <1>1 DEF ViewerInv, ViewerTypeOK, Filters, Changes
  <2>3. filtered' \in Seq(1..Length[a]) /\ Len(filtered') <= MAX_DISPLAY
    BY <1>1, ListTyped
  <2>4. computing' \in BOOLEAN
    BY <1>1 DEF ViewerInv, ViewerTypeOK
  <2>5. loads' \in 0..MaxLoads /\ module' \in Modules /\ tasks' \subseteq Work /\ show' \in Shows
    BY <1>1 DEF ViewerInv, ViewerTypeOK, Shows
  <2> QED
    BY <1>1, <1>3, <1>5, <2>1, <2>2, <2>3, <2>4, <2>5 DEF ViewerTypeOK, Filters, Shows, Changes
<1>7. ScreenFollows'
  <2>1. cached' = read_selected(loaded', module', selected')
    BY <1>1 DEF read_selected, Value, NoValues
  <2>2. filtered' = rebuild_filter(loaded'["a2l"], filter', show', changes')
    BY <1>1, <1>3
  <2>3. computing' <=> computing
    BY <1>1
  <2> QED
    BY <1>5, <2>1, <2>2, <2>3 DEF ScreenFollows, ScreenIsCurrent, AnnouncedWorkIsUnderWay
<1> QED
  BY <1>6, <1>7 DEF ViewerInv

\* An image was loaded into one of the two slots.
LEMMA ImageLoaded ==
  ASSUME ViewerInv, NEW slot \in {"bin", "bin2"}, NEW b \in Bins,
         loaded' = [loaded EXCEPT ![slot] = b],
         loading' = [loading EXCEPT ![slot] = FALSE], module' \in Modules,
         cached' = read_selected(loaded', module', selected),
         maybe_compute_changes(loaded', module', tasks \ {Load(slot, b)}),
         show' \in Shows, UNCHANGED <<loads, filter, filtered, selected>>,
         ~computing => rebuild_filter(loaded["a2l"], filter, show', changes)
                         = rebuild_filter(loaded["a2l"], filter, show, changes)
  PROVE  ViewerInv'
<1>1. /\ loaded \in [Slots -> A2ls \union Bins \union {Nothing}] /\ slot \in Slots
      /\ \A s \in Slots : loaded[s] \in FilesOf(s) \union {Nothing}
  BY DEF ViewerInv, ViewerTypeOK, Slots
<1>2. /\ loaded' \in [Slots -> A2ls \union Bins \union {Nothing}]
      /\ \A s \in Slots : loaded'[s] \in FilesOf(s) \union {Nothing}
      /\ loaded'["a2l"] = loaded["a2l"]
  BY <1>1 DEF Slots, FilesOf
<1>3. Load(slot, b).kind # "compare" /\ Load(slot, b).slot = slot
  BY <1>1, TaskKinds
<1>4. /\ tasks \ {Load(slot, b)} \subseteq tasks' /\ tasks' \subseteq Work
      /\ computing' \in BOOLEAN /\ changes' \in Changes
      /\ computing' => \E t \in tasks' : t.kind = "compare"
      /\ ~computing' => ~computing /\ changes' = changes
  <2> DEFINE rest == tasks \ {Load(slot, b)}
  <2>1. rest \in SUBSET tasks /\ \A t \in tasks : t.kind = "compare" => t \in rest
    BY <1>3
  <2>2. maybe_compute_changes(loaded', module', rest)
    OBVIOUS
  <2> HIDE DEF rest
  <2>3. /\ rest \subseteq tasks' /\ tasks' \subseteq Work
        /\ computing' \in BOOLEAN /\ changes' \in Changes
        /\ computing' => \E t \in tasks' : t.kind = "compare"
        /\ ~computing' => ~computing /\ changes' = changes
    BY <1>2, <2>1, <2>2, Compared, Zenon
  <2> QED
    BY <2>3 DEF rest
<1>5. /\ loading' \in [Slots -> BOOLEAN]
      /\ \A r \in Slots : loading'[r] => \E u \in tasks' : u.kind # "compare" /\ u.slot = r
  BY <1>1, <1>3, <1>4, Ended
<1>6. ViewerTypeOK'
  <2>1. Indices' = Indices
    BY <1>2 DEF Indices
  <2>2. /\ loads' \in 0..MaxLoads /\ filter' \in Filters
        /\ filtered' \in Seq(Indices') /\ Len(filtered') <= MAX_DISPLAY
        /\ selected' \in Indices' \union {Nothing}
    BY <2>1 DEF ViewerInv, ViewerTypeOK, Filters
  <2> QED
    BY <1>2, <1>4, <1>5, <2>2 DEF ViewerTypeOK, Filters, Shows, Changes
<1>7. ScreenFollows'
  <2>1. cached' = read_selected(loaded', module', selected')
    OBVIOUS
  <2>2. ~computing' => filtered' = rebuild_filter(loaded'["a2l"], filter', show', changes')
    BY <1>2, <1>4 DEF ViewerInv, ScreenFollows, ScreenIsCurrent
  <2> QED
    BY <1>4, <1>5, <2>1, <2>2 DEF ScreenFollows, ScreenIsCurrent, AnnouncedWorkIsUnderWay
<1> QED
  BY <1>6, <1>7 DEF ViewerInv

LEMMA BinLoadedStep ==
  ASSUME ViewerInv, NEW b \in Bins, BinLoaded(b)
  PROVE  ViewerInv'
<1>1. /\ module' = (IF detect_module_from_bin(b) = Nothing THEN module ELSE detect_module_from_bin(b))
      /\ loaded' = [loaded EXCEPT !["bin"] = b] /\ loading' = [loading EXCEPT !["bin"] = FALSE]
      /\ cached' = read_selected(loaded', module', selected)
      /\ maybe_compute_changes(loaded', module', tasks \ {Load("bin", b)})
      /\ UNCHANGED <<loads, filter, show, filtered, selected>>
  BY DEF BinLoaded, list
<1>2. module \in Modules /\ show' \in Shows
  BY <1>1 DEF ViewerInv, ViewerTypeOK, Shows
<1>3. module' \in Modules
  BY <1>1, <1>2 DEF detect_module_from_bin, Modules
<1>4. rebuild_filter(loaded["a2l"], filter, show', changes)
        = rebuild_filter(loaded["a2l"], filter, show, changes)
  BY <1>1
<1> QED
  BY <1>1, <1>2, <1>3, <1>4, ImageLoaded

\* The second image turns Compare on, which no filter reads.
LEMMA Bin2LoadedStep ==
  ASSUME ViewerInv, NEW b \in Bins, Bin2Loaded(b)
  PROVE  ViewerInv'
<1>1. /\ loaded' = [loaded EXCEPT !["bin2"] = b] /\ loading' = [loading EXCEPT !["bin2"] = FALSE]
      /\ show' = [show EXCEPT !.compare_mode = TRUE]
      /\ cached' = read_selected(loaded', module, selected)
      /\ maybe_compute_changes(loaded', module, tasks \ {Load("bin2", b)})
      /\ UNCHANGED <<module, loads, filter, filtered, selected>>
  BY DEF Bin2Loaded
<1>2. module' \in Modules /\ show \in Shows
  BY <1>1 DEF ViewerInv, ViewerTypeOK, Shows
<1>3. /\ show' \in Shows /\ show'.changed_only = show.changed_only
      /\ show'.rescale_only = show.rescale_only /\ show'.hide_uniform = show.hide_uniform
  BY <1>1, <1>2 DEF Shows
<1>4. \A i : Admits(loaded["a2l"], i, filter, show', changes)
              <=> Admits(loaded["a2l"], i, filter, show, changes)
  BY <1>3 DEF Admits
<1>5. rebuild_filter(loaded["a2l"], filter, show', changes)
        = rebuild_filter(loaded["a2l"], filter, show, changes)
  <2>1. {i \in 1..Length[loaded["a2l"]] : Admits(loaded["a2l"], i, filter, show', changes)}
          = {i \in 1..Length[loaded["a2l"]] : Admits(loaded["a2l"], i, filter, show, changes)}
    BY <1>4
  <2> QED
    BY <2>1 DEF rebuild_filter
<1>6. /\ cached' = read_selected(loaded', module', selected)
      /\ maybe_compute_changes(loaded', module', tasks \ {Load("bin2", b)})
  BY <1>1
<1> QED
  BY <1>1, <1>2, <1>3, <1>5, <1>6, ImageLoaded

LEMMA ChangedSetComputedStep ==
  ASSUME ViewerInv, ChangedSetComputed
  PROVE  ViewerInv'
<1>1. PICK t \in tasks :
        /\ t.kind = "compare" /\ tasks' = tasks \ {t} /\ computing' = FALSE
        /\ changes' = compute_changed_set(t.a2l, t.bin, t.bin2, t.module)
        /\ filtered' = rebuild_filter(loaded["a2l"], filter, show, changes')
        /\ UNCHANGED <<loaded, loading, module, loads, filter, show, selected, cached>>
  BY DEF ChangedSetComputed, files, pane
<1>2. t.a2l \in A2ls
  <2>1. t \in Work
    BY DEF ViewerInv, ViewerTypeOK
  <2>2. PICK a \in A2ls, b1 \in Bins, b2 \in Bins, m \in Modules : t = Compare(a, b1, b2, m)
    BY <1>1, <2>1, TaskKinds DEF Work
  <2> QED
    BY <2>2 DEF Compare
<1>3. changes' \in Changes
  BY <1>1, <1>2, ChangesTyped
<1>4. Indices' = Indices
  BY <1>1 DEF Indices
<1>5. filtered' \in Seq(Indices) /\ Len(filtered') <= MAX_DISPLAY
  BY <1>1, ListOfLoaded DEF ViewerInv
<1>6. ~computing' /\ computing' \in BOOLEAN
  BY <1>1, Zenon
<1>7. ViewerTypeOK'
  BY <1>1, <1>3, <1>4, <1>5, <1>6 DEF ViewerInv, ViewerTypeOK, Changes
<1>8. ScreenFollows'
  <2>1. ASSUME NEW s \in Slots, loading'[s]
        PROVE  \E u \in tasks' : u.kind # "compare" /\ u.slot = s
    BY <1>1, <2>1 DEF ViewerInv, ScreenFollows, AnnouncedWorkIsUnderWay
  <2>2. cached' = read_selected(loaded', module', selected')
    BY <1>1 DEF ViewerInv, ScreenFollows, ScreenIsCurrent
  <2>3. filtered' = rebuild_filter(loaded'["a2l"], filter', show', changes')
    BY <1>1
  <2> QED
    BY <1>6, <2>1, <2>2, <2>3 DEF ScreenFollows, ScreenIsCurrent, AnnouncedWorkIsUnderWay
<1> QED
  BY <1>7, <1>8 DEF ViewerInv

\* The controls of the left panel.
LEMMA FilterSteps ==
  ASSUME ViewerInv, CategoryChanged \/ ClearCategory \/ FilterChanged \/ FilterByAxis \/ ClearAxisFilter
  PROVE  ViewerInv'
<1>1. /\ filter \in Filters /\ show \in Shows
      /\ loaded["a2l"] \in A2ls \union {Nothing} /\ selected \in Indices \union {Nothing}
  BY DEF ViewerInv, ViewerTypeOK, Filters, Shows, Slots, FilesOf
<1>2. ASSUME NEW fl \in Filters, Relist(fl, show), UNCHANGED pane PROVE ViewerInv'
  <2>1. selected' = selected /\ cached' = cached
    BY <1>2 DEF pane
  <2> QED
    BY <1>1, <1>2, <2>1, RelistStep
<1>3. CASE CategoryChanged
  <2>1. PICK c \in DOMAIN build_categories(loaded["a2l"]) :
          Relist([filter EXCEPT !.category = c], show) /\ UNCHANGED pane
    BY <1>3 DEF CategoryChanged
  <2>2. loaded["a2l"] \in A2ls
    BY <1>1, <1>3 DEF CategoryChanged
  <2>3. c \in Names
    BY <2>2 DEF build_categories, Names
  <2>4. [filter EXCEPT !.category = c] \in Filters
    BY <1>1, <2>3 DEF Filters
  <2> QED
    BY <1>2, <2>1, <2>4
<1>4. CASE ClearCategory \/ ClearAxisFilter
  <2>1. /\ [filter EXCEPT !.category = Nothing] \in Filters
        /\ [filter EXCEPT !.axis = Nothing] \in Filters
    BY <1>1 DEF Filters
  <2> QED
    BY <1>2, <1>4, <2>1 DEF ClearCategory, ClearAxisFilter
<1>5. CASE FilterChanged
  <2>1. PICK t \in Texts : Relist([filter EXCEPT !.text = t], show) /\ UNCHANGED pane
    BY <1>5 DEF FilterChanged
  <2>2. [filter EXCEPT !.text = t] \in Filters
    BY <1>1 DEF Filters
  <2> QED
    BY <1>2, <2>1, <2>2
<1>6. CASE FilterByAxis
  <2>1. PICK x \in Axes[loaded["a2l"]][selected] :
          Relist([filter EXCEPT !.axis = x], show) /\ UNCHANGED pane
    BY <1>6 DEF FilterByAxis
  <2>2. selected # Nothing
    BY <1>6 DEF FilterByAxis
  <2>3. loaded["a2l"] \in A2ls /\ selected \in 1..Length[loaded["a2l"]]
    BY <1>1, <2>2 DEF Indices
  <2>4. x \in AxisNames
    BY <2>3 DEF AxisNames
  <2>5. [filter EXCEPT !.axis = x] \in Filters
    BY <1>1, <2>4 DEF Filters
  <2> QED
    BY <1>2, <2>1, <2>5
<1> QED
  BY <1>3, <1>4, <1>5, <1>6

LEMMA SwitchSteps ==
  ASSUME ViewerInv, ToggleCompare \/ ToggleChangedOnly \/ ToggleRescaleOnly \/ ToggleHideUniform
  PROVE  ViewerInv'
<1>1. filter \in Filters /\ show \in Shows
  BY DEF ViewerInv, ViewerTypeOK, Filters, Shows
<1>2. ASSUME NEW sh \in Shows, Relist(filter, sh), UNCHANGED pane PROVE ViewerInv'
  <2>1. selected' = selected /\ cached' = cached
    BY <1>2 DEF pane
  <2> QED
    BY <1>1, <1>2, <2>1, RelistStep
<1>3. CASE ToggleCompare
  <2> DEFINE sh == IF show.compare_mode
                   THEN [show EXCEPT !.compare_mode = FALSE, !.changed_only = FALSE,
                                     !.rescale_only = FALSE]
                   ELSE [show EXCEPT !.compare_mode = TRUE]
  <2>1. sh \in Shows
    BY <1>1 DEF Shows
  <2>2. /\ Relist(filter, sh) /\ selected' = selected
        /\ cached' = read_selected(loaded, module, selected)
    BY <1>3 DEF ToggleCompare
  <2> HIDE DEF sh
  <2> QED
    BY <1>1, <2>1, <2>2, RelistStep
<1>4. CASE ToggleChangedOnly
  <2>1. [show EXCEPT !.changed_only = ~@] \in Shows
    BY <1>1 DEF Shows
  <2> QED
    BY <1>2, <1>4, <2>1 DEF ToggleChangedOnly
<1>5. CASE ToggleRescaleOnly
  <2>1. [show EXCEPT !.rescale_only = ~@] \in Shows
    BY <1>1 DEF Shows
  <2> QED
    BY <1>2, <1>5, <2>1 DEF ToggleRescaleOnly
<1>6. CASE ToggleHideUniform
  <2>1. [show EXCEPT !.hide_uniform = ~@] \in Shows
    BY <1>1 DEF Shows
  <2> QED
    BY <1>2, <1>6, <2>1 DEF ToggleHideUniform
<1> QED
  BY <1>3, <1>4, <1>5, <1>6

LEMMA SelectionSteps ==
  ASSUME ViewerInv, SelectChar \/ move_selection(1) \/ move_selection(-1)
  PROVE  ViewerInv'
<1>1. filtered \in Seq(Indices)
  BY DEF ViewerInv, ViewerTypeOK
<1>2. DOMAIN filtered = 1..Len(filtered) /\ Len(filtered) \in Nat
  BY <1>1, LenProperties
<1>3. ASSUME NEW p \in 1..Len(filtered), Select(filtered[p]) PROVE ViewerInv'
  BY <1>1, <1>3, ElementOfSeq, SelectStep
<1>4. CASE SelectChar
  BY <1>2, <1>3, <1>4 DEF SelectChar
<1>5. ASSUME NEW delta \in {1, -1}, move_selection(delta) PROVE ViewerInv'
  <2> DEFINE at == {p \in DOMAIN filtered : filtered[p] = selected}
             last == Len(filtered)
             q == CHOOSE x \in at : TRUE
             p == q + delta
             first == IF delta > 0 THEN 1 ELSE last
             near == IF p < 1 THEN 1 ELSE IF p > last THEN last ELSE p
  <2>1. filtered # <<>> /\ Select(IF at = {} THEN filtered[first] ELSE filtered[near])
    BY <1>5 DEF move_selection
  <2>2. last \in Nat \ {0}
    BY <1>1, <1>2, <2>1, EmptySeq
  <2>3. first \in 1..last
    BY <2>2
  <2>4. CASE at = {}
    BY <1>3, <2>1, <2>3, <2>4
  <2>5. CASE at # {}
    <3>1. q \in 1..last
      BY <1>2, <2>5
    <3> HIDE DEF q
    <3>2. near \in 1..last
      BY <2>2, <3>1
    <3> QED
      BY <1>3, <2>1, <2>5, <3>2
  <2> QED
    BY <2>4, <2>5
<1> QED
  BY <1>4, <1>5

LEMMA Stays ==
  ASSUME ViewerInv, UNCHANGED viewer_vars
  PROVE  ViewerInv'
<1>1. /\ UNCHANGED <<loaded, loading, module, filter, show, filtered, selected, cached,
                     changes, tasks, loads>>
      /\ UNCHANGED computing
  BY DEF viewer_vars
<1>2. computing' <=> computing
  BY <1>1
<1>3. Indices' = Indices
  BY <1>1 DEF Indices
<1>4. ViewerTypeOK'
  BY <1>1, <1>3 DEF ViewerInv, ViewerTypeOK
<1>5. ScreenFollows'
  BY <1>1, <1>2 DEF ViewerInv, ScreenFollows, ScreenIsCurrent, AnnouncedWorkIsUnderWay
<1> QED
  BY <1>4, <1>5 DEF ViewerInv

LEMMA Inductive ==
  ASSUME ViewerInv, [ViewerNext]_viewer_vars
  PROVE  ViewerInv'
<1>1. ASSUME NEW s \in Slots, OpenDialog(s) \/ Picked(s) \/ LoadFails(s) PROVE ViewerInv'
  BY <1>1, OpenDialogStep, PickedStep, LoadFailsStep
<1>2. ASSUME NEW a \in A2ls, A2lLoaded(a) PROVE ViewerInv'
  BY <1>2, A2lLoadedStep
<1>3. ASSUME NEW b \in Bins, BinLoaded(b) \/ Bin2Loaded(b) PROVE ViewerInv'
  BY <1>3, BinLoadedStep, Bin2LoadedStep
<1>4. CASE ChangedSetComputed
  BY <1>4, ChangedSetComputedStep
<1>5. CASE CategoryChanged \/ ClearCategory \/ FilterChanged \/ FilterByAxis \/ ClearAxisFilter
  BY <1>5, FilterSteps
<1>6. CASE ToggleCompare \/ ToggleChangedOnly \/ ToggleRescaleOnly \/ ToggleHideUniform
  BY <1>6, SwitchSteps
<1>7. CASE SelectChar \/ move_selection(1) \/ move_selection(-1)
  BY <1>7, SelectionSteps
<1>8. CASE UNCHANGED viewer_vars
  BY <1>8, Stays
<1> QED
  BY <1>1, <1>2, <1>3, <1>4, <1>5, <1>6, <1>7, <1>8 DEF ViewerNext

-----------------------------------------------------------------------------
(***************************************************************************)
(* The theorems.                                                           *)
(***************************************************************************)
\* Both halves of the invariant, which is inductive as it stands.
THEOREM ViewerInvariance == ViewerSpec => []ViewerInv
<1>1. ViewerInit => ViewerInv
  BY Initially
<1>2. ViewerInv /\ [ViewerNext]_viewer_vars => ViewerInv'
  BY Inductive
<1> QED
  BY <1>1, <1>2, PTL DEF ViewerSpec

\* The list and the selection, with which the view indexes the characteristics
\* without a check, are always indices of the description that is loaded (view).
THEOREM InBounds == ViewerSpec => []ViewerTypeOK
<1>1. ViewerInv => ViewerTypeOK
  BY DEF ViewerInv
<1> QED
  BY <1>1, ViewerInvariance, PTL

\* The values and the list are those of the files, the switches and the changes
\* that are held, and nothing is announced that is over (update).  Which files the
\* changes compare is not claimed.
THEOREM ScreenHolds == ViewerSpec => []ScreenFollows
<1>1. ViewerInv => ScreenFollows
  BY DEF ViewerInv
<1> QED
  BY <1>1, ViewerInvariance, PTL
=============================================================================
